----------------------------- MODULE Downloads -----------------------------
(***************************************************************************)
(* `download_all' of net.rs: the sources of the packages to be built, or   *)
(* the repository databases, are fetched over libcurl's multi interface, a *)
(* few at a time, each from its mirrors in turn until one yields the right *)
(* content.                                                                *)
(*                                                                         *)
(* What libcurl does is external: in a call of perform any transfer can get *)
(* on, and its callbacks (of `create_easy') run there.  The flag the       *)
(* callbacks are stopped by is one for all transfers.  A mirror behaves in *)
(* one way, whenever it is asked.  Left out: a destination that cannot be  *)
(* opened, an option libcurl refuses, and a transfer multi does not take.  *)
(***************************************************************************)
EXTENDS Integers, Sequences, FiniteSets

CONSTANTS NumTasks,      \* sources to fetch
          MaxConcurrent, \* transfers at a time (16 in the code)
          Sources,       \* what a source can be: its mirrors and its hash
          MaxErrors      \* bound: calls of perform or wait that fail

Tasks == 1 .. NumTasks

\* A good mirror has the content expected and a corrupt one another, one that is
\* down answers with an error or not at all, one that redirects does so to a
\* protocol other than http(s), one that is insecure is named with such a protocol.
MirrorKind == {"good", "corrupt", "down", "redirects", "insecure"}

\* The expected hash: there, empty, or missing, which only the files of a
\* repository database may do.
HashKind == {"sha256", "empty", "missing", "repo_db"}

Source == [mirrors : Seq(MirrorKind), hash : HashKind]

ASSUME DownloadsAssumption ==
  /\ NumTasks \in Nat /\ MaxConcurrent \in Nat \ {0} /\ MaxErrors \in Nat
  /\ Sources \subseteq Source
  /\ \A s \in Sources : Len(s.mirrors) > 0

VARIABLES
  source,          \* each task's source, never changed
  pending,         \* the first task not begun (pending_tasks)
  active,          \* tasks with a transfer (active_transfers)
  transfer,        \* what libcurl has of a task: "idle", "running", "ok" or "error"
  current_mirror,  \* of each task, counted from 1
  file,            \* content of each task's destination
  done_tokens,     \* transfers that ended, in that order, still to be looked at
  interrupted,     \* the flag the callbacks look at
  overall_success,
  monitor,         \* the thread that draws the progress bar
  signal,          \* SIGNAL_INTERRUPTED
  pc,
  result,          \* what is returned
  errors           \* how often perform or wait failed

vars == <<source, pending, active, transfer, current_mirror, file, done_tokens, interrupted,
          overall_success, monitor, signal, pc, result, errors>>

Init ==
  /\ source \in [Tasks -> Sources]
  /\ pending = 1
  /\ active = {}
  /\ transfer = [t \in Tasks |-> "idle"]
  /\ current_mirror = [t \in Tasks |-> 1]
  /\ file = [t \in Tasks |-> "absent"]
  /\ done_tokens = <<>>
  /\ interrupted = FALSE
  /\ overall_success = TRUE
  /\ monitor = "running"
  /\ signal = FALSE
  /\ pc = "fill"
  /\ result = "none"
  /\ errors = 0

-----------------------------------------------------------------------------
(* The loop. *)

Secure(t, mirror) == source[t].mirrors[mirror] # "insecure"

\* create_easy: the destination is created, or cut, and the transfer handed over.
Begin(t) ==
  /\ file' = [file EXCEPT ![t] = "partial"]
  /\ transfer' = [transfer EXCEPT ![t] = "running"]
  /\ active' = active \cup {t}

\* The mutant's: one transfer too many.
CanFillOneMore == Cardinality(active) <= MaxConcurrent /\ pending <= NumTasks

CanFill == Cardinality(active) < MaxConcurrent /\ pending <= NumTasks

\* fill_queue: the next task gets a transfer, unless create_easy refuses it.
FillNext ==
  /\ pc = "fill"
  /\ CanFill
  /\ pending' = pending + 1
  /\ IF Secure(pending, 1)
     THEN Begin(pending) /\ UNCHANGED overall_success
     ELSE overall_success' = FALSE /\ UNCHANGED <<file, transfer, active>>
  /\ UNCHANGED <<source, current_mirror, done_tokens, interrupted, monitor, signal, pc, result, errors>>

\* The mutant's: once something failed, nothing more is begun.
LoopOnUntilFailure ==
  /\ pc = "fill"
  /\ ~CanFill
  /\ pc' = IF active = {} \/ signal \/ ~overall_success THEN "finish" ELSE "perform"
  /\ UNCHANGED <<source, pending, active, transfer, current_mirror, file, done_tokens,
                 interrupted, overall_success, monitor, signal, result, errors>>

\* The queue is full or everything is begun: wait, and once more round the loop.
LoopOn ==
  /\ pc = "fill"
  /\ ~CanFill
  /\ pc' = IF active = {} \/ signal THEN "finish" ELSE "perform"
  /\ UNCHANGED <<source, pending, active, transfer, current_mirror, file, done_tokens,
                 interrupted, overall_success, monitor, signal, result, errors>>

Running(t) == pc = "perform" /\ transfer[t] = "running"

Mirror(t) == source[t].mirrors[current_mirror[t]]

Ends(t, how) ==
  /\ transfer' = [transfer EXCEPT ![t] = how]
  /\ done_tokens' = Append(done_tokens, t)
  /\ UNCHANGED <<source, pending, active, current_mirror, overall_success, monitor, signal,
                 pc, result, errors>>

\* The mutant's: fail_on_error is off, and an error's page is taken for the content.
ReceiveAnything(t) ==
  /\ Running(t)
  /\ ~interrupted
  /\ file' = [file EXCEPT ![t] = Mirror(t)]
  /\ UNCHANGED interrupted
  /\ Ends(t, "ok")

\* The whole content was written.
Receive(t) ==
  /\ Running(t)
  /\ ~interrupted
  /\ Mirror(t) \in {"good", "corrupt"}
  /\ file' = [file EXCEPT ![t] = Mirror(t)]
  /\ UNCHANGED interrupted
  /\ Ends(t, "ok")

\* An HTTP error, or a timeout.
MirrorFails(t) ==
  /\ Running(t)
  /\ Mirror(t) = "down"
  /\ UNCHANGED <<file, interrupted>>
  /\ Ends(t, "error")

\* The header callback turns a redirect down and sets everybody's flag.
RefuseRedirect(t) ==
  /\ Running(t)
  /\ Mirror(t) = "redirects"
  /\ interrupted' = TRUE
  /\ UNCHANGED file
  /\ Ends(t, "error")

\* The write or progress callback finds the flag set.
Abort(t) ==
  /\ Running(t)
  /\ interrupted
  /\ UNCHANGED <<file, interrupted>>
  /\ Ends(t, "error")

Transfer(t) == Receive(t) \/ MirrorFails(t) \/ RefuseRedirect(t) \/ Abort(t)

\* perform returns, and the messages of the transfers that ended are collected.
Collect ==
  /\ pc = "perform"
  /\ pc' = "process"
  /\ UNCHANGED <<source, pending, active, transfer, current_mirror, file, done_tokens,
                 interrupted, overall_success, monitor, signal, result, errors>>

\* perform, or the wait after it, fails: the function returns at once and nobody
\* tells the monitor or looks after the destinations.
MultiFails ==
  /\ pc = "perform"
  /\ errors < MaxErrors
  /\ errors' = errors + 1
  /\ pc' = "returned"
  /\ result' = "multi_error"
  /\ UNCHANGED <<source, pending, active, transfer, current_mirror, file, done_tokens,
                 interrupted, overall_success, monitor, signal>>

\* The mutant's: a file whose hash is not known is as good as one whose hash is right.
AcceptedUnlessWrong(t) ==
  /\ transfer[t] = "ok"
  /\ source[t].hash = "sha256" => file[t] = "good"

\* A transfer is accepted when its content has the hash expected; what belongs to
\* a repository is checked later, by its signature.
Accepted(t) ==
  /\ transfer[t] = "ok"
  /\ \/ source[t].hash = "sha256" /\ file[t] = "good"
     \/ source[t].hash = "repo_db"

Finished(t) ==
  /\ pc = "process"
  /\ done_tokens # <<>>
  /\ t = Head(done_tokens)
  /\ done_tokens' = Tail(done_tokens)

Accept(t) ==
  /\ Finished(t)
  /\ Accepted(t)
  /\ active' = active \ {t}
  /\ transfer' = [transfer EXCEPT ![t] = "idle"]
  /\ UNCHANGED <<source, pending, current_mirror, file, interrupted, overall_success,
                 monitor, signal, pc, result, errors>>

\* The mutant's: the mirror that failed is asked again.
SameMirror(t) == current_mirror[t]

NextMirror(t) == current_mirror[t] + 1

\* The mutant's: the flag is not cleared.
FallBackFlagged(t) ==
  /\ Finished(t)
  /\ ~Accepted(t)
  /\ current_mirror[t] < Len(source[t].mirrors)
  /\ current_mirror' = [current_mirror EXCEPT ![t] = NextMirror(t)]
  /\ IF Secure(t, NextMirror(t))
     THEN Begin(t) /\ UNCHANGED overall_success
     ELSE /\ overall_success' = FALSE
          /\ active' = active \ {t}
          /\ transfer' = [transfer EXCEPT ![t] = "idle"]
          /\ file' = [file EXCEPT ![t] = "absent"]
  /\ UNCHANGED <<source, pending, interrupted, monitor, signal, pc, result, errors>>

\* The next mirror's turn; everybody's flag is cleared.
FallBack(t) ==
  /\ Finished(t)
  /\ ~Accepted(t)
  /\ current_mirror[t] < Len(source[t].mirrors)
  /\ current_mirror' = [current_mirror EXCEPT ![t] = NextMirror(t)]
  /\ interrupted' = FALSE
  /\ IF Secure(t, NextMirror(t))
     THEN Begin(t) /\ UNCHANGED overall_success
     ELSE /\ overall_success' = FALSE
          /\ active' = active \ {t}
          /\ transfer' = [transfer EXCEPT ![t] = "idle"]
          /\ file' = [file EXCEPT ![t] = "absent"]
  /\ UNCHANGED <<source, pending, monitor, signal, pc, result, errors>>

\* "All mirrors exhausted".
GiveUp(t) ==
  /\ Finished(t)
  /\ ~Accepted(t)
  /\ current_mirror[t] = Len(source[t].mirrors)
  /\ current_mirror' = [current_mirror EXCEPT ![t] = @ + 1]
  /\ overall_success' = FALSE
  /\ active' = active \ {t}
  /\ transfer' = [transfer EXCEPT ![t] = "idle"]
  /\ file' = [file EXCEPT ![t] = "absent"]
  /\ UNCHANGED <<source, pending, interrupted, monitor, signal, pc, result, errors>>

EndProcess ==
  /\ pc = "process"
  /\ done_tokens = <<>>
  /\ pc' = "fill"
  /\ UNCHANGED <<source, pending, active, transfer, current_mirror, file, done_tokens,
                 interrupted, overall_success, monitor, signal, result, errors>>

-----------------------------------------------------------------------------
(* The end. *)

\* The mutant's: the transfers are removed and their files stay.
FilesLeft == file

FilesAfterCleanup == [t \in Tasks |-> IF t \in active THEN "absent" ELSE file[t]]

FinishFailed ==
  /\ pc = "finish"
  /\ ~overall_success \/ signal
  /\ interrupted' = TRUE
  /\ file' = FilesAfterCleanup
  /\ active' = {}
  /\ transfer' = [t \in Tasks |-> "idle"]
  /\ monitor' = "joined"
  /\ result' = "error"
  /\ pc' = "returned"
  /\ UNCHANGED <<source, pending, current_mirror, done_tokens, overall_success, signal, errors>>

FinishOk ==
  /\ pc = "finish"
  /\ overall_success /\ ~signal
  /\ monitor' = "joined"
  /\ result' = "ok"
  /\ pc' = "returned"
  /\ UNCHANGED <<source, pending, active, transfer, current_mirror, file, done_tokens,
                 interrupted, overall_success, signal, errors>>

Signal ==
  /\ ~signal
  /\ pc # "returned"
  /\ signal' = TRUE
  /\ UNCHANGED <<source, pending, active, transfer, current_mirror, file, done_tokens,
                 interrupted, overall_success, monitor, pc, result, errors>>

Returned == pc = "returned" /\ UNCHANGED vars

Loop ==
  \/ FillNext
  \/ LoopOn
  \/ Collect
  \/ \E t \in Tasks : Accept(t) \/ FallBack(t) \/ GiveUp(t)
  \/ EndProcess
  \/ FinishFailed
  \/ FinishOk

Next ==
  \/ Loop
  \/ \E t \in Tasks : Transfer(t)
  \/ MultiFails
  \/ Signal
  \/ Returned

Spec == Init /\ [][Next]_vars

\* The loop goes on, and a transfer that perform is called for again and again
\* ends: create_easy limits the time to connect and the time without data.
FairSpec == Spec /\ WF_vars(Loop) /\ \A t \in Tasks : SF_vars(Transfer(t))

-----------------------------------------------------------------------------
(* Correctness. *)

TypeOK ==
  /\ source \in [Tasks -> Sources]
  /\ pending \in 1 .. NumTasks + 1
  /\ active \subseteq Tasks
  /\ transfer \in [Tasks -> {"idle", "running", "ok", "error"}]
  /\ current_mirror \in [Tasks -> Nat \ {0}]
  /\ \A t \in Tasks : current_mirror[t] <= Len(source[t].mirrors) + 1
  /\ file \in [Tasks -> {"absent", "partial", "good", "corrupt"}]
  /\ done_tokens \in Seq(Tasks)
  /\ interrupted \in BOOLEAN /\ overall_success \in BOOLEAN /\ signal \in BOOLEAN
  /\ monitor \in {"running", "joined"}
  /\ pc \in {"fill", "perform", "process", "finish", "returned"}
  /\ result \in {"none", "ok", "error", "multi_error"}
  /\ errors \in 0 .. MaxErrors

\* The content of t's destination may be used for building.
Trusted(t) ==
  \/ source[t].hash = "sha256" /\ file[t] = "good"
  \/ source[t].hash = "repo_db" /\ file[t] \in {"good", "corrupt"}

\* When the builds are let go on, every source is there and has its hash.
OkMeansVerified == result = "ok" => \A t \in Tasks : Trusted(t)

\* A destination no transfer writes to is verified or gone, whatever failed and
\* in whatever order the messages were looked at: a later run never meets what an
\* earlier one left half fetched.  (Not so when perform itself fails.)
NoUnverifiedFile == \A t \in Tasks \ active : file[t] = "absent" \/ Trusted(t)

\* One source's failure does not keep the others from being fetched: an error
\* that is not the user's is returned only when every source is there or was
\* refused by its last mirror, or by one with a protocol that is not allowed.
OthersTriedAll ==
  result = "error" /\ ~signal =>
    \A t \in Tasks : \/ Trusted(t)
                     \/ current_mirror[t] > Len(source[t].mirrors)
                     \/ ~Secure(t, current_mirror[t])

\* There are never more transfers than the limit, mirrors asked in a second
\* attempt included, and each of them is libcurl's or about to be looked at.
TransfersLimited ==
  /\ Cardinality(active) <= MaxConcurrent
  /\ \A t \in active : transfer[t] = "running" \/ \E k \in DOMAIN done_tokens : done_tokens[k] = t

\* The download ends, however the mirrors behave.
Termination == <>(pc = "returned")

\* "All mirrors exhausted" for a source that one of its mirrors has as expected is
\* only said when another source met a redirect: one flag stops all transfers, but
\* a source's own refused redirect never spoils its next mirror.
GivenUpForOthers ==
  \A t \in Tasks :
    /\ current_mirror[t] > Len(source[t].mirrors)
    /\ source[t].hash = "sha256"
    /\ \E k \in DOMAIN source[t].mirrors : source[t].mirrors[k] = "good"
    => \E u \in Tasks \ {t} : \E k \in DOMAIN source[u].mirrors :
         k <= current_mirror[u] /\ source[u].mirrors[k] = "redirects"
=============================================================================
