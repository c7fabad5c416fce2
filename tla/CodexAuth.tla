----------------------------- MODULE CodexAuth -----------------------------
(***************************************************************************)
(* The credentials of the Codex provider (crates/knuth-cli/src/config.rs   *)
(* and crates/ai/src/utils/oauth/openai_codex.rs): each run of the CLI     *)
(* reads auth.json, renews an access token that has expired and replaces   *)
(* the file.  Several runs share the file, and each may crash at any step. *)
(* The vendor takes a refresh token once.                                  *)
(***************************************************************************)
EXTENDS Integers, FiniteSets

CONSTANTS
  Processes,      \* runs of the CLI
  MaxGrants,      \* bound: grants the vendor makes
  None,
  Invalid         \* an expiry that cannot be read

ASSUME AuthAssumption ==
  /\ MaxGrants \in Nat
  /\ None \notin Nat /\ Invalid \notin Nat /\ None # Invalid

VARIABLES
  file,           \* auth.json, or None
  temps,          \* per process: its temporary file, or None
  procs,          \* per process: where it is, what it read, what it was granted
  issued,         \* the vendor's last grant; the first file is of grant 0
  spent,          \* refresh tokens the vendor took
  expired,        \* grants whose access token has expired
  spoilt          \* temporary files left behind by a crash or by a failed removal

authVars == <<file, temps, procs, issued, spent, expired, spoilt>>

\* A grant's tokens and its expiry carry its number.  A file may lack any of
\* its members; an expires_at that cannot be read is Invalid.
Grants == 0..MaxGrants
Auth == [access : Grants \cup {None}, refresh : Grants \cup {None},
         expires : Grants \cup {None, Invalid}]
Whole(n) == [access |-> n, refresh |-> n, expires |-> n]
UserFiles == [access : {0, None}, refresh : {0, None}, expires : {0, None, Invalid}]

\* What a temporary file holds until all of it is written.
Empty == [access |-> None, refresh |-> None, expires |-> None]

Places == {"start", "reading", "deciding", "asking", "granted", "created",
           "written", "synced", "removing", "done", "failed", "crashed"}
Ended == {"done", "failed", "crashed"}
Process == [at : Places, auth : Auth \cup {None}, used : Grants \cup {None},
            grant : Grants \cup {None}, key : Grants \cup {None}]

AuthTypeOK ==
  /\ file \in Auth \cup {None}
  /\ temps \in [Processes -> Auth \cup {None}]
  /\ procs \in [Processes -> Process]
  /\ issued \in Grants /\ spent \subseteq Grants /\ expired \subseteq Grants
  /\ spoilt \subseteq Processes

Fresh == [at |-> "start", auth |-> None, used |-> None, grant |-> None,
          key |-> None]

AuthInit ==
  /\ file \in UserFiles \cup {None}
  /\ temps = [p \in Processes |-> None]
  /\ procs \in [Processes -> {Fresh, [Fresh EXCEPT !.at = "done"]}]
  /\ issued = 0 /\ spent = {} /\ expired = {} /\ spoilt = {}

Go(p, at) == procs' = [procs EXCEPT ![p].at = at]

----------------------------------------------------------------------------
\* load_codex_auth_json: another API, or a token from elsewhere, needs no
\* file; nor does a file that is not there.
SkipFile(p) ==
  /\ procs[p].at = "start"
  /\ Go(p, "done")
  /\ UNCHANGED <<file, temps, issued, spent, expired, spoilt>>

FindFile(p) ==
  /\ procs[p].at = "start"
  /\ Go(p, IF file = None THEN "done" ELSE "reading")
  /\ UNCHANGED <<file, temps, issued, spent, expired, spoilt>>

\* One read of the whole file; it fails when the file went away.  A text that
\* is no JSON object fails as one without a token does.
ReadFile(p) ==
  /\ procs[p].at = "reading"
  /\ procs' = [procs EXCEPT ![p].auth = file,
                            ![p].at = IF file = None THEN "failed" ELSE "deciding"]
  /\ UNCHANGED <<file, temps, issued, spent, expired, spoilt>>

\* Is there a token, can its expiry be read, and has it expired?
Decide(p) ==
  /\ procs[p].at = "deciding"
  /\ LET auth == procs[p].auth IN
     IF auth.access = None \/ auth.expires = Invalid
     THEN Go(p, "failed")
     ELSE IF auth.expires \in expired
     THEN Go(p, IF auth.refresh = None THEN "failed" ELSE "asking")
     ELSE procs' = [procs EXCEPT ![p].key = auth.access, ![p].at = "done"]
  /\ UNCHANGED <<file, temps, issued, spent, expired, spoilt>>

\* refresh_with_url: the vendor takes a token once, and grants new ones; the
\* answer may be lost on the way, or be one that cannot be used.
Refresh(p) ==
  LET token == procs[p].auth.refresh IN
  /\ procs[p].at = "asking"
  /\ \/ /\ token \notin spent /\ issued < MaxGrants
        /\ issued' = issued + 1 /\ spent' = spent \cup {token}
        /\ \E at \in {"granted", "failed"} :
             procs' = [procs EXCEPT ![p].used = token, ![p].at = at,
                                    ![p].grant = issued + 1]
     \/ Go(p, "failed") /\ UNCHANGED <<issued, spent>>
  /\ UNCHANGED <<file, temps, expired, spoilt>>

\* replace_file_atomically, one call of the file system after the other.
\* The old file's permissions are read first.
CreateTemp(p) ==
  /\ procs[p].at = "granted"
  /\ \/ /\ file # None
        /\ temps' = [temps EXCEPT ![p] = Empty]
        /\ Go(p, "created")
     \/ Go(p, "failed") /\ UNCHANGED temps
  /\ UNCHANGED <<file, issued, spent, expired, spoilt>>

\* write_refreshed_codex_auth: what was read, with the grant's members.
\* MUTANT: the new refresh token is left out.
RenewedAccess(auth, n) == [auth EXCEPT !.access = n, !.expires = n]
Renewed(auth, n) == [auth EXCEPT !.access = n, !.refresh = n, !.expires = n]

WriteTemp(p) ==
  /\ procs[p].at = "created"
  /\ \/ /\ temps' = [temps EXCEPT ![p] = Renewed(procs[p].auth, procs[p].grant)]
        /\ Go(p, "written")
     \/ Go(p, "removing") /\ UNCHANGED temps
  /\ UNCHANGED <<file, issued, spent, expired, spoilt>>

SyncTemp(p) ==
  /\ procs[p].at = "written"
  /\ \E at \in {"synced", "removing"} : Go(p, at)
  /\ UNCHANGED <<file, temps, issued, spent, expired, spoilt>>

\* The rename is the one step that changes the file.
RenameTemp(p) ==
  /\ procs[p].at = "synced"
  /\ \/ /\ file' = temps[p] /\ temps' = [temps EXCEPT ![p] = None]
        /\ procs' = [procs EXCEPT ![p].key = procs[p].grant, ![p].at = "done"]
     \/ Go(p, "removing") /\ UNCHANGED <<file, temps>>
  /\ UNCHANGED <<issued, spent, expired, spoilt>>

\* After an error the temporary file is removed, if that can be done.
RemoveTemp(p) ==
  /\ procs[p].at = "removing"
  /\ \/ temps' = [temps EXCEPT ![p] = None] /\ UNCHANGED spoilt
     \/ spoilt' = spoilt \cup {p} /\ UNCHANGED temps
  /\ Go(p, "failed")
  /\ UNCHANGED <<file, issued, spent, expired>>

Load(p) ==
  SkipFile(p) \/ FindFile(p) \/ ReadFile(p) \/ Decide(p) \/ Refresh(p)
  \/ CreateTemp(p) \/ WriteTemp(p) \/ SyncTemp(p) \/ RenameTemp(p)
  \/ RemoveTemp(p)

Crash(p) ==
  /\ procs[p].at \notin Ended
  /\ Go(p, "crashed")
  /\ spoilt' = IF temps[p] = None THEN spoilt ELSE spoilt \cup {p}
  /\ UNCHANGED <<file, temps, issued, spent, expired>>

----------------------------------------------------------------------------
\* Time passes; somebody logs in with another tool, which replaces the file.
Expire ==
  /\ \E n \in 0..issued : n \notin expired /\ expired' = expired \cup {n}
  /\ UNCHANGED <<file, temps, procs, issued, spent, spoilt>>

LogIn ==
  /\ issued < MaxGrants
  /\ issued' = issued + 1 /\ file' = Whole(issued + 1)
  /\ UNCHANGED <<temps, procs, spent, expired, spoilt>>

AuthNext ==
  (\E p \in Processes : Load(p) \/ Crash(p)) \/ Expire \/ LogIn

AuthSpec == AuthInit /\ [][AuthNext]_authVars

----------------------------------------------------------------------------
\* The tokens and the expiry in the file are the user's own, or of one grant
\* and all of it.
FileWhole ==
  \/ file \in UserFiles \cup {None}
  \/ \E n \in Grants : file = Whole(n)

\* Whose work on a token the vendor took is not over, or came to nothing.
Owes(p, token) ==
  procs[p].used = token /\ procs[p].at # "done"

\* The file can be renewed: its refresh token was not spent, but by a run
\* that has the new one and is on its way to the file, crashed on that way or
\* gave up with an error.
RefreshTokenKept ==
  (file # None /\ file.refresh \in spent)
    => \E p \in Processes : Owes(p, file.refresh)

\* A temporary file is one that is being written, or was left by a crash or
\* by a removal that failed.
NoStrayTemps ==
  \A p \in Processes :
    temps[p] # None =>
      p \in spoilt \/ procs[p].at \in {"created", "written", "synced", "removing"}

\* The credentials survive runs that race and runs that crash
\* (config.rs: replace_file_atomically, write_refreshed_codex_auth).
AuthFileSound == FileWhole /\ RefreshTokenKept /\ NoStrayTemps
===========================================================================
