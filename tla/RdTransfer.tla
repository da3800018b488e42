----------------------------- MODULE RdTransfer -----------------------------
(***************************************************************************)
(* Downloading files from the host (hbb_common/fs.rs, client/io_loop.rs,   *)
(* server/connection.rs).  The host's read job sends the digest of a file, *)
(* waits for the client's confirmation, and then sends the file block by   *)
(* block; an empty block ends it.  The client's write job collects blocks  *)
(* in `name.download`, with the digest of the source in `name.digest`, and *)
(* gives the file its name only when the next file begins or the job ends. *)
(* A connection that breaks leaves both files for a resumed job.           *)
(*                                                                         *)
(* Files are numbered from 0 as in a job; a content is the sequence of its *)
(* blocks.  One write job at a time, as the client's user starts them.     *)
(***************************************************************************)
EXTENDS Naturals, Sequences

CONSTANTS
    TfFiles,        \* how many files the job has
    TfBlocks,       \* how many blocks a file has
    TfMaxJobs,      \* bound: transfers the user starts
    TfMaxBreaks     \* bound: connections that break

ASSUME TfBounds == TfFiles \in Nat \ {0} /\ TfBlocks \in Nat \ {0}
                   /\ TfMaxJobs \in Nat /\ TfMaxBreaks \in Nat

VARIABLES
    tfName,         \* what the destination holds under each name
    tfPart,         \* what it holds under name.download
    tfDigest,       \* files that have a name.digest
    tfJob,          \* the client's TransferJob
    tfRead,         \* the host's TransferJob
    tfToClient, tfToHost,   \* the two directions of the connection
    tfAsked,        \* file the user is asked about (override_file_confirm)
    tfBad,          \* files of the host that cannot be opened
    tfStarted, tfBreaks,    \* counters for the bounds
    tfSkipped,      \* history: files the user skipped, of those the job is past
    tfOdd           \* history: see LeftoverMoved and ResumedLater

tfVars == <<tfName, tfPart, tfDigest, tfJob, tfRead, tfToClient, tfToHost, tfAsked, tfBad,
            tfStarted, tfBreaks, tfSkipped, tfOdd>>
tfDisk == <<tfName, tfPart, tfDigest>>
tfHist == <<tfBad, tfStarted, tfBreaks, tfSkipped, tfOdd>>

File == 0 .. TfFiles - 1
NoFile == <<TfBlocks + 1>>
Old == <<TfBlocks + 2>>                  \* another file of the same name
Whole == [i \in 1 .. TfBlocks |-> i]
Nobody == TfFiles                        \* of tfAsked: no question is open

NoReadJob == [on |-> FALSE, id |-> 0, num |-> 0, pos |-> 0, open |-> FALSE,
           confirmed |-> FALSE, waiting |-> FALSE, skipped |-> FALSE]

TfInit ==
    /\ tfName \in [File -> {NoFile, Old}]
    /\ tfPart = [f \in File |-> NoFile] /\ tfDigest = {}
    /\ tfJob = [st |-> "idle", id |-> 0, num |-> 0, open |-> FALSE, resume |-> FALSE]
    /\ tfRead = NoReadJob
    /\ tfToClient = <<>> /\ tfToHost = <<>> /\ tfAsked = Nobody
    /\ tfBad \in {{}, {TfFiles - 1}}
    /\ tfStarted = 0 /\ tfBreaks = 0 /\ tfSkipped = {} /\ tfOdd = {}

-----------------------------------------------------------------------------
(* TransferJob.                                                            *)

\* confirm on the host: set_file_skipped, or set_file_confirmed and the offset.
ReadConfirm(job, m) ==
    IF ~job.on \/ m.id # job.id \/ m.num # job.num THEN job
    ELSE IF m.skip
    THEN [job EXCEPT !.num = @ + 1, !.open = FALSE, !.confirmed = FALSE, !.waiting = FALSE,
                     !.skipped = TRUE]
    ELSE [job EXCEPT !.confirmed = TRUE, !.skipped = FALSE, !.pos = IF m.off > 0 THEN m.off ELSE @]

BugWriteConfirm(job, num, skip, off) ==
    IF num # job.num THEN job
    ELSE IF skip THEN [job EXCEPT !.num = @ + 1, !.open = FALSE]
    ELSE job

\* confirm on the client: the stream is opened at the end of what is there.
WriteConfirm(job, num, skip, off) ==
    IF num # job.num THEN job           \* "file num truncated, ignoring"
    ELSE IF skip THEN [job EXCEPT !.num = @ + 1, !.open = FALSE]
    ELSE [job EXCEPT !.open = @ \/ off > 0]

\* modify_time: the current file gets its name.
HasPart(num) == num \in File /\ tfPart[num] # NoFile
NamedFile(num) == IF HasPart(num) THEN [tfName EXCEPT ![num] = tfPart[num]] ELSE tfName
Unparted(num) == IF num \in File THEN [tfPart EXCEPT ![num] = NoFile] ELSE tfPart

Confirm(num, skip, off) ==
    /\ tfJob' = WriteConfirm(tfJob, num, skip, off)
    /\ tfToHost' = Append(tfToHost, [k |-> "confirm", id |-> tfJob.id, num |-> num,
                                     skip |-> skip, off |-> off])

-----------------------------------------------------------------------------
(* The host.                                                               *)

\* FileAction: Send, SendConfirm and Cancel.
TfHostRecv ==
    /\ tfToHost # <<>>
    /\ tfToHost' = Tail(tfToHost)
    /\ LET m == Head(tfToHost) IN
       \/ m.k = "send" /\ tfRead' = [NoReadJob EXCEPT !.on = TRUE, !.id = m.id, !.num = m.num]
       \/ m.k = "confirm" /\ tfRead' = ReadConfirm(tfRead, m)
       \/ m.k = "cancel" /\ tfRead' = IF tfRead.id = m.id THEN NoReadJob ELSE tfRead
    /\ UNCHANGED <<tfDisk, tfJob, tfToClient, tfAsked, tfHist>>

Msg(k, num, data) == [k |-> k, id |-> tfRead.id, num |-> num, data |-> data]

\* handle_read_jobs: init_jobs opens the file and sends its digest, read sends
\* a block, and a job that has nothing more to read is done.
TfHostTick ==
    /\ tfRead.on
    /\ \/ /\ tfRead.num \in File /\ ~tfRead.open /\ tfRead.num \notin tfBad
          /\ tfRead' = [tfRead EXCEPT !.open = TRUE, !.pos = 0, !.confirmed = FALSE, !.waiting = TRUE]
          /\ tfToClient' = Append(tfToClient, Msg("digest", tfRead.num, <<>>))
       \/ /\ tfRead.num \in tfBad /\ ~tfRead.open
          /\ tfRead' = NoReadJob
          /\ tfToClient' = tfToClient \o <<Msg("error", tfRead.num + 1, <<>>),
                                           Msg("done", tfRead.num + 1, <<>>)>>
       \/ /\ tfRead.open /\ tfRead.confirmed /\ tfRead.pos < TfBlocks
          /\ tfRead' = [tfRead EXCEPT !.pos = @ + 1]
          /\ tfToClient' = Append(tfToClient, Msg("block", tfRead.num, <<tfRead.pos + 1>>))
       \/ /\ tfRead.open /\ tfRead.confirmed /\ tfRead.pos = TfBlocks
          /\ tfRead' = [tfRead EXCEPT !.num = @ + 1, !.open = FALSE, !.confirmed = FALSE,
                                      !.waiting = FALSE]
          /\ tfToClient' = Append(tfToClient, Msg("block", tfRead.num, <<>>))
       \/ /\ tfRead.num \notin File
          /\ tfRead' = NoReadJob
          /\ tfToClient' = Append(tfToClient,
                 Msg(IF tfRead.skipped /\ TfFiles = 1 THEN "error" ELSE "done", tfRead.num, <<>>))
    /\ UNCHANGED <<tfDisk, tfJob, tfToHost, tfAsked, tfHist>>

-----------------------------------------------------------------------------
(* The client.                                                             *)

Mine(m) == tfJob.st = "run" /\ m.id = tfJob.id

\* is_write_need_confirmation.
Resumable(num) == tfJob.resume /\ num \in tfDigest /\ HasPart(num) /\ tfPart[num] # <<>>

\* Digest.  ResumedLater: a resumed job meets the leftover of a file that is
\* not the one it resumed with; its confirm does not open that leftover.
TfDigest(m) ==
    /\ \/ /\ Resumable(m.num)
          /\ Confirm(m.num, FALSE, Len(tfPart[m.num]))
          /\ tfOdd' = IF m.num # tfJob.num THEN tfOdd \cup {m.num} ELSE tfOdd
          /\ UNCHANGED tfAsked
       \/ /\ ~Resumable(m.num) /\ tfName[m.num] # NoFile
          /\ tfAsked' = m.num
          /\ UNCHANGED <<tfJob, tfToHost, tfOdd>>
       \/ /\ ~Resumable(m.num) /\ tfName[m.num] = NoFile
          /\ Confirm(m.num, FALSE, 0)
          /\ UNCHANGED <<tfAsked, tfOdd>>
    /\ UNCHANGED <<tfDisk, tfSkipped>>

\* A job that begins a file without resuming it calls modify_time first, which
\* moves what an earlier job left in name.download.
LeftoverMoved(m) ==
    /\ m.num = tfJob.num /\ ~tfJob.open /\ HasPart(m.num)
    /\ tfJob.resume => tfPart[m.num] = <<>>

\* Block (write).
TfBlock(m) ==
    /\ \/ /\ m.num # tfJob.num \/ ~tfJob.open
          /\ tfName' = NamedFile(tfJob.num)
          /\ tfPart' = [Unparted(tfJob.num) EXCEPT ![m.num] = m.data]
          /\ tfDigest' = (tfDigest \ {tfJob.num}) \cup {m.num}
          /\ tfJob' = [tfJob EXCEPT !.num = m.num, !.open = TRUE]
          /\ tfOdd' = IF LeftoverMoved(m) THEN tfOdd \cup {m.num} ELSE tfOdd
       \/ /\ m.num = tfJob.num /\ tfJob.open
          /\ tfPart' = [tfPart EXCEPT ![m.num] = @ \o m.data]
          /\ UNCHANGED <<tfName, tfDigest, tfJob, tfOdd>>
    /\ UNCHANGED <<tfToHost, tfAsked, tfSkipped>>

TfDone ==
    /\ tfName' = NamedFile(tfJob.num) /\ tfPart' = Unparted(tfJob.num)
    /\ tfDigest' = tfDigest \ {tfJob.num}
    /\ tfJob' = [tfJob EXCEPT !.st = "done"]
    /\ UNCHANGED <<tfToHost, tfAsked, tfSkipped, tfOdd>>

\* Error: the job is removed, whatever it has written.
TfError ==
    /\ tfJob' = [tfJob EXCEPT !.st = "idle"]
    /\ UNCHANGED <<tfDisk, tfToHost, tfAsked, tfSkipped, tfOdd>>

TfClientRecv ==
    /\ tfToClient # <<>>
    /\ tfToClient' = Tail(tfToClient)
    /\ LET m == Head(tfToClient) IN
       \/ ~Mine(m) /\ UNCHANGED <<tfDisk, tfJob, tfToHost, tfAsked, tfSkipped, tfOdd>>
       \/ Mine(m) /\ m.k = "digest" /\ TfDigest(m)
       \/ Mine(m) /\ m.k = "block" /\ TfBlock(m)
       \/ Mine(m) /\ m.k = "done" /\ TfDone
       \/ Mine(m) /\ m.k = "error" /\ TfError
    /\ UNCHANGED <<tfRead, tfBad, tfStarted, tfBreaks>>

BugAnswer(over) ==
    /\ tfAsked # Nobody
    /\ IF tfJob.st = "run"
       THEN /\ tfJob' = WriteConfirm(tfJob, tfAsked, ~over, 0)
            /\ tfSkipped' = IF over THEN tfSkipped \ {tfAsked} ELSE tfSkipped \cup {tfAsked}
       ELSE UNCHANGED <<tfJob, tfSkipped>>
    /\ tfAsked' = Nobody
    /\ UNCHANGED <<tfDisk, tfRead, tfToClient, tfToHost, tfBad, tfStarted, tfBreaks, tfOdd>>

\* SetConfirmOverrideFile: the user's answer.
TfAnswer(over) ==
    /\ tfAsked # Nobody
    /\ Confirm(tfAsked, ~over, 0)
    /\ tfSkipped' = IF over THEN tfSkipped \ {tfAsked} ELSE tfSkipped \cup {tfAsked}
    /\ tfAsked' = Nobody
    /\ UNCHANGED <<tfDisk, tfRead, tfToClient, tfBad, tfStarted, tfBreaks, tfOdd>>

\* SendFiles: a new job for the same files.
TfStart ==
    /\ tfJob.st # "run" /\ tfStarted < TfMaxJobs
    /\ tfStarted' = tfStarted + 1
    /\ tfJob' = [st |-> "run", id |-> tfStarted + 1, num |-> 0, open |-> FALSE, resume |-> FALSE]
    /\ tfToHost' = Append(tfToHost, [k |-> "send", id |-> tfStarted + 1, num |-> 0])
    /\ tfSkipped' = {}
    /\ UNCHANGED <<tfDisk, tfRead, tfToClient, tfAsked, tfBad, tfBreaks, tfOdd>>

\* AddJob with the saved meta, and ResumeJob.
TfResume ==
    /\ tfJob.st = "last"
    /\ tfJob' = [tfJob EXCEPT !.st = "run", !.resume = TRUE]
    /\ tfToHost' = Append(tfToHost, [k |-> "send", id |-> tfJob.id, num |-> tfJob.num])
    /\ UNCHANGED <<tfDisk, tfRead, tfToClient, tfAsked, tfHist>>

\* CancelJob, with remove_download_file.
TfCancel ==
    /\ tfJob.st = "run"
    /\ tfJob' = [tfJob EXCEPT !.st = "idle"]
    /\ tfPart' = Unparted(tfJob.num) /\ tfDigest' = tfDigest \ {tfJob.num}
    /\ tfToHost' = Append(tfToHost, [k |-> "cancel", id |-> tfJob.id, num |-> 0])
    /\ tfAsked' = Nobody
    /\ UNCHANGED <<tfName, tfRead, tfToClient, tfHist>>

\* The connection breaks; sync_jobs_status_to_local saves the job, unless the
\* client itself was killed.  It saves the number of the current file, and not
\* the answers for the files after it.
TfBreak ==
    /\ tfBreaks < TfMaxBreaks /\ (tfRead.on \/ tfJob.st = "run")
    /\ tfBreaks' = tfBreaks + 1
    /\ \E st \in {"last", "idle"} :
          tfJob' = IF tfJob.st = "run" THEN [tfJob EXCEPT !.st = st, !.open = FALSE] ELSE tfJob
    /\ tfSkipped' = IF tfJob.st = "run" THEN {f \in tfSkipped : f < tfJob.num} ELSE tfSkipped
    /\ tfRead' = NoReadJob /\ tfToClient' = <<>> /\ tfToHost' = <<>> /\ tfAsked' = Nobody
    /\ UNCHANGED <<tfDisk, tfBad, tfStarted, tfOdd>>

-----------------------------------------------------------------------------
TfNext ==
    \/ TfHostRecv \/ TfHostTick \/ TfClientRecv \/ TfStart \/ TfResume \/ TfCancel \/ TfBreak
    \/ \E over \in BOOLEAN : TfAnswer(over)

\* The loops of both sides poll the connection and the file timer.
TfFair == WF_tfVars(TfHostRecv) /\ WF_tfVars(TfHostTick) /\ WF_tfVars(TfClientRecv)

TfSpec == TfInit /\ [][TfNext]_tfVars /\ TfFair

-----------------------------------------------------------------------------
(* Properties.                                                             *)

Content == Seq(1 .. TfBlocks)
HostMsg ==
    [k : {"send", "cancel"}, id : Nat, num : 0 .. TfFiles]
    \cup [k : {"confirm"}, id : Nat, num : File, skip : BOOLEAN, off : 0 .. TfBlocks]
ClientMsg ==
    [k : {"digest"}, id : Nat, num : File, data : {<<>>}]
    \cup [k : {"block"}, id : Nat, num : File, data : {<<>>} \cup {<<b>> : b \in 1 .. TfBlocks}]
    \cup [k : {"done", "error"}, id : Nat, num : 0 .. TfFiles, data : {<<>>}]

WriteJob ==
    [st : {"idle", "run", "last", "done"}, id : Nat, num : 0 .. TfFiles, open : BOOLEAN,
     resume : BOOLEAN]
ReadJob ==
    [on : BOOLEAN, id : Nat, num : 0 .. TfFiles, pos : 0 .. TfBlocks, open : BOOLEAN,
     confirmed : BOOLEAN, waiting : BOOLEAN, skipped : BOOLEAN]

\* The shape of the state; a read job waits for a confirmation only with its
\* file open.
TfTypeOK ==
    /\ tfName \in [File -> {NoFile, Old} \cup Content]
    /\ tfPart \in [File -> {NoFile} \cup Content] /\ tfDigest \subseteq File
    /\ tfJob \in WriteJob /\ tfRead \in ReadJob
    /\ tfRead.waiting => tfRead.open
    /\ tfToClient \in Seq(ClientMsg) /\ tfToHost \in Seq(HostMsg)
    /\ tfAsked \in File \cup {Nobody} /\ tfBad \subseteq File
    /\ tfStarted \in 0 .. TfMaxJobs /\ tfBreaks \in 0 .. TfMaxBreaks
    /\ tfSkipped \subseteq File /\ tfOdd \subseteq File

\* A name never shows a part of a file, however transfers break, are resumed
\* and are started again: except by LeftoverMoved and ResumedLater.
NamesWhole == \A f \in File \ tfOdd : tfName[f] \in {NoFile, Old, Whole}

\* When a job is reported done, every file that the user did not skip is there.
DoneDelivers ==
    tfJob.st = "done" => \A f \in File \ (tfSkipped \cup tfOdd) : tfName[f] = Whole

\* A file that the user skipped is left alone for the rest of the job; after a
\* break the job comes again to the files from its current one on.
SkippedKept ==
    [][\A f \in tfSkipped : tfJob'.id = tfJob.id => tfName'[f] = tfName[f]]_tfVars

\* Each transfer ends, breaks or waits for its user: the two jobs never wait
\* for each other.
TransferEnds == (tfJob.st = "run") ~> (tfJob.st # "run" \/ tfAsked # Nobody)

\* What a job comes to: it ends or waits for its user, and what he skipped is as it was.
TfOutcome == SkippedKept /\ TransferEnds

\* What a transfer keeps to, in every state.
TfSafe == TfTypeOK /\ NamesWhole /\ DoneDelivers
====
