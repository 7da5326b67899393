------------------------ MODULE MCSftpTaskScheduler ------------------------
(***************************************************************************)
(* Instances of SftpTaskScheduler. The specifications offered are the kinds *)
(* the session service submits: listing, download, rename, upload and       *)
(* archive work, on a small directory tree.                                *)
(***************************************************************************)
EXTENDS SftpTaskScheduler

CONSTANTS dir, leaf

Kind(impact, workload, exclusive, claims) ==
    [impact |-> impact, workload |-> workload, exclusive |-> exclusive,
     claims |-> claims]

Sibling == <<leaf>>
Parent  == <<dir>>
Child   == <<dir, leaf>>

ListParent    == Kind("read", "light", FALSE, {Parent})
DownloadChild == Kind("read", "heavy", FALSE, {Child})
DownloadOther == Kind("read", "heavy", FALSE, {Sibling})
RenameChild   == Kind("mutation", "light", FALSE, {Child, Sibling})
UploadOther   == Kind("mutation", "heavy", FALSE, {Sibling})
UploadBeside  == Kind("mutation", "heavy", FALSE, {<<dir, dir>>})
Archive       == Kind("lifecycle", "heavy", TRUE, {Root})

MixedSpecs == {ListParent, DownloadChild, UploadOther, UploadBeside, Archive}

\* Three tasks of three kinds that meet: a claim behind a claim, a heavy and a
\* mutation limit without a conflict, and the exclusive barrier.
Mixes == {{ListParent, RenameChild, UploadOther}, {DownloadChild, RenameChild, UploadBeside},
          {DownloadChild, UploadBeside, Archive}, {ListParent, RenameChild, Archive}}
ContendedSpecs == UNION Mixes

ContendedInit == Init /\ {spec[t] : t \in Task} \in Mixes

ContendedSpec == ContendedInit /\ [][Next]_vars /\ EventLoopFairness
=============================================================================
