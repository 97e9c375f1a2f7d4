------------------------------ MODULE RepoSync ------------------------------
(***************************************************************************)
(* `attach_repos' and `sync_repos' of db.rs, with `verify_signature' of    *)
(* crypto.rs: the databases of the repositories are fetched, each with its *)
(* signature, and one after another they take the place of those there     *)
(* are.  One process at a time; it may be killed between any two steps.    *)
(*                                                                         *)
(* Of a database and of a signature all that counts is which version the   *)
(* repository's publisher signed it as.  A mirror serves any version, and  *)
(* the mirrors of a database and its signature need not agree.  Fetching   *)
(* is reduced to what Downloads shows of it: when it succeeds, every       *)
(* destination is what some mirror served.                                 *)
(***************************************************************************)
EXTENDS Integers

CONSTANTS NumRepos,   \* repositories, in the order of the configuration
          Configs,    \* what the repositories can be: "usable", of a key that is
                      \* missing or revoked, or of a name that is not accepted
          NumVersions,\* of each repository, the last one the newest
          Stamp,      \* the time stamp in each version, 0 if it has none
          Absent,     \* no such file
          Garbage     \* a file cut short, or that no publisher signed

Repos == 1 .. NumRepos
Versions == 1 .. NumVersions
Content == Versions \cup {Absent, Garbage}
Destination == Repos \X {"db", "sig"}

ASSUME SyncAssumption ==
  /\ NumRepos \in Nat /\ NumVersions \in Nat
  /\ Configs \subseteq [Repos -> {"usable", "bad_key", "bad_name"}]
  /\ Stamp \in [Versions -> Nat]
  /\ {Absent, Garbage} \cap Versions = {} /\ Absent # Garbage

VARIABLES
  config,   \* the repositories, never changed
  src,      \* what is in each destination
  local_db, \* the database in use of each repository, on disk
  attached, \* ... and the one this process reads its packages from
  fetched,  \* destinations whose transfer of this sync is over
  repo,     \* the repository looked at
  matched,  \* (history) the version this sync fetched with its own signature
  newest,   \* (history) the greatest time stamp that was ever in use
  lapsed,   \* (history) one without a stamp was in use since
  pc        \* where the process is; "off" when none runs

used == <<newest, lapsed>>
vars == <<config, src, local_db, attached, fetched, repo, matched, used, pc>>

NewDb(r) == src[<<r, "db">>]
NewSig(r) == src[<<r, "sig">>]

NoDbs == [r \in Repos |-> Absent]

Init ==
  /\ config \in Configs
  /\ src = [d \in Destination |-> Absent]
  /\ local_db = NoDbs
  /\ attached = NoDbs
  /\ fetched = {}
  /\ repo = 1
  /\ matched = NoDbs
  /\ newest = [r \in Repos |-> 0]
  /\ lapsed = [r \in Repos |-> FALSE]
  /\ pc = "off"

-----------------------------------------------------------------------------
(* run_app: the databases there are get attached before any is synced. *)

Start ==
  /\ pc = "off"
  /\ attached' = [r \in Repos |-> IF config[r] = "bad_name" THEN Absent ELSE local_db[r]]
  /\ pc' = "fetch"
  /\ UNCHANGED <<config, used, src, local_db, fetched, repo, matched>>

\* However the process ends, only the files are left of it.
Leave ==
  /\ pc' = "off"
  /\ attached' = NoDbs /\ matched' = NoDbs
  /\ fetched' = {}
  /\ repo' = 1
  /\ UNCHANGED <<config, used, src, local_db>>

Exit == pc = "synced" /\ Leave

Crash == pc \notin {"off", "synced"} /\ Leave

-----------------------------------------------------------------------------
(* download_all. *)

\* A destination is cut when its transfer begins, or removed when a mirror failed.
Spoil(d) ==
  /\ pc = "fetch"
  /\ d \notin fetched
  /\ \E content \in {Absent, Garbage} : src' = [src EXCEPT ![d] = content]
  /\ UNCHANGED <<config, used, local_db, attached, fetched, repo, matched, pc>>

\* A mirror served something: there is no hash to hold it against.
Fetch(d) ==
  /\ pc = "fetch"
  /\ d \notin fetched
  /\ \E content \in Versions \cup {Garbage} : src' = [src EXCEPT ![d] = content]
  /\ fetched' = fetched \cup {d}
  /\ UNCHANGED <<config, used, local_db, attached, repo, matched, pc>>

\* Some mirror served nothing, or the download was interrupted: the error ends
\* the process, and what was fetched stays where it is.
DownloadFails == pc = "fetch" /\ fetched # Destination /\ Leave

Downloaded ==
  /\ pc = "fetch"
  /\ fetched = Destination
  /\ matched' = [r \in Repos |-> IF NewDb(r) = NewSig(r) /\ NewDb(r) \in Versions
                                 THEN NewDb(r) ELSE Absent]
  /\ pc' = "check"
  /\ UNCHANGED <<config, used, src, local_db, attached, fetched, repo>>

-----------------------------------------------------------------------------
(* The loop over the repositories. *)

Checking == pc = "check" /\ repo \in Repos

\* The mutant's: the signature is a good one, of whatever it may be.
SignedAtAll(r) == config[r] # "bad_key" /\ NewSig(r) \in Versions

\* verify_signature: the key is there and not revoked, the signature is one, and
\* it is of this database.
Verified(r) ==
  /\ config[r] # "bad_key"
  /\ NewSig(r) \in Versions
  /\ NewDb(r) = NewSig(r)

StampOf(content) == IF content \in Versions THEN Stamp[content] ELSE 0

\* The mutant's: the stamps are compared the wrong way round.
ReplayedIfNewer(r) ==
  /\ local_db[r] # Absent
  /\ StampOf(NewDb(r)) > 0 /\ StampOf(NewDb(r)) > StampOf(local_db[r])

\* A dated database older than the one in use.
Replayed(r) ==
  /\ local_db[r] # Absent
  /\ StampOf(NewDb(r)) > 0 /\ StampOf(NewDb(r)) < StampOf(local_db[r])

\* A name that is not accepted: what was fetched stays.
SkipBadName ==
  /\ Checking
  /\ config[repo] = "bad_name"
  /\ repo' = repo + 1
  /\ UNCHANGED <<config, used, src, local_db, attached, fetched, matched, pc>>

Recorded(r, stamp) ==
  /\ newest' = [newest EXCEPT ![r] = IF stamp > @ THEN stamp ELSE @]
  /\ lapsed' = [lapsed EXCEPT ![r] = stamp < newest[r] /\ (@ \/ stamp = 0)]

\* The database is renamed over the one in use.
Replace ==
  /\ Checking
  /\ config[repo] # "bad_name" /\ Verified(repo) /\ ~Replayed(repo)
  /\ local_db' = [local_db EXCEPT ![repo] = NewDb(repo)]
  /\ src' = [src EXCEPT ![<<repo, "db">>] = Absent]
  /\ Recorded(repo, StampOf(NewDb(repo)))
  /\ pc' = "remove_sig"
  /\ UNCHANGED <<config, attached, fetched, repo, matched>>

\* The mutant's: a repository that is turned down ends the loop.
RejectAndStop ==
  /\ Checking
  /\ config[repo] # "bad_name" /\ (Verified(repo) => Replayed(repo))
  /\ repo' = NumRepos + 1
  /\ UNCHANGED <<config, used, src, local_db, attached, fetched, matched, pc>>

\* "Signature verification failed" or "Downgrade rejected".
Reject ==
  /\ Checking
  /\ config[repo] # "bad_name" /\ (Verified(repo) => Replayed(repo))
  /\ pc' = "remove_sig"
  /\ UNCHANGED <<config, used, src, local_db, attached, fetched, repo, matched>>

RemoveSig ==
  /\ pc = "remove_sig"
  /\ src' = [src EXCEPT ![<<repo, "sig">>] = Absent]
  /\ pc' = "remove_db"
  /\ UNCHANGED <<config, used, local_db, attached, fetched, repo, matched>>

\* The mutant's: one repository too far.
RemoveDbAndSkip ==
  /\ pc = "remove_db"
  /\ src' = [src EXCEPT ![<<repo, "db">>] = Absent]
  /\ repo' = repo + 2
  /\ pc' = "check"
  /\ UNCHANGED <<config, used, local_db, attached, fetched, matched>>

RemoveDb ==
  /\ pc = "remove_db"
  /\ src' = [src EXCEPT ![<<repo, "db">>] = Absent]
  /\ repo' = repo + 1
  /\ pc' = "check"
  /\ UNCHANGED <<config, used, local_db, attached, fetched, matched>>

\* The rest of the command line is done with what is attached.
EndSync ==
  /\ pc = "check"
  /\ repo \notin Repos
  /\ pc' = "synced"
  /\ UNCHANGED <<config, used, src, local_db, attached, fetched, repo, matched>>

Next ==
  \/ Start
  \/ \E d \in Destination : Spoil(d) \/ Fetch(d)
  \/ DownloadFails
  \/ Downloaded
  \/ SkipBadName
  \/ Replace
  \/ Reject
  \/ RemoveSig
  \/ RemoveDb
  \/ EndSync
  \/ Exit
  \/ Crash

Spec == Init /\ [][Next]_vars

-----------------------------------------------------------------------------
(* Correctness. *)

TypeOK ==
  /\ config \in Configs
  /\ src \in [Destination -> Content]
  /\ local_db \in [Repos -> Content] /\ attached \in [Repos -> Content]
  /\ fetched \subseteq Destination
  /\ repo \in 1 .. NumRepos + 1
  /\ matched \in [Repos -> Content]
  /\ newest \in [Repos -> Nat] /\ lapsed \in [Repos -> BOOLEAN]
  /\ pc \in {"off", "fetch", "check", "remove_sig", "remove_db", "synced"}

\* What a sync was refused for one repository, and what earlier syncs left behind,
\* is never used: neither a kill at any point, nor a fetch that failed half way, nor
\* a database and a signature of different versions puts anything in the place of a
\* database in use but what this sync fetched together with its own signature.
OnlyMatchedUsed ==
  [][\A r \in Repos : local_db'[r] # local_db[r] => local_db'[r] = matched[r]]_vars

\* "Downgrade rejected": over any number of syncs, whatever mirrors serve and
\* wherever a sync is killed, no repository falls behind the newest stamp that was
\* ever in use, unless one without a stamp was taken since.  The exception is what
\* the code leaves open: only the database in use is asked for its stamp, one
\* without a stamp is no downgrade (remote_ts > 0), and after it any stamp will do.
NoDowngrade == \A r \in Repos : StampOf(local_db[r]) < newest[r] => lapsed[r]

\* The repositories do not get in each other's way in the loop: after a sync that
\* ran to its end each usable one whose database came with its own signature is at
\* that version, or at a later stamp, whatever became of the others.  (A sync that
\* does not come to its end is another matter: a download that fails for one
\* repository ends it before any is replaced.)
EachSynced ==
  pc = "synced" =>
    \A r \in Repos : config[r] = "usable" =>
      \/ matched[r] \in {Absent, local_db[r]}
      \/ StampOf(local_db[r]) > StampOf(matched[r])

\* "System is fully up-to-date", said by an update after a sync in one command, is
\* said of the databases just synced: they are the ones packages are read from.
UpdateSeesSynced == pc = "synced" => \A r \in Repos : config[r] = "usable" => attached[r] \in {Absent, local_db[r]}
=============================================================================
