----------------------------- MODULE Cli_proofs -----------------------------
(***************************************************************************)
(* The program, for any number of runs, grants, lines and events: the      *)
(* credentials that the runs share, and the turns of the loop.             *)
(***************************************************************************)
EXTENDS Cli, TLAPS

----------------------------------------------------------------------------
(* The credentials. *)


Early == {"start", "reading", "deciding", "asking"}
Going == {"granted", "created", "written", "synced"}
Temporary == {"created", "written", "synced", "removing"}

\* What a run has in its hands.  A grant on its way to the file is not spent,
\* and nobody else has it.
ProcInv(p) ==
  /\ procs[p].at \in Early => procs[p].used = None
  /\ procs[p].at \in {"deciding", "asking"} \cup Going => procs[p].auth # None
  /\ procs[p].at = "asking" => procs[p].auth.refresh # None
  /\ procs[p].at \in Going =>
       /\ procs[p].grant \in 0..issued /\ procs[p].grant \notin spent
       /\ file # None => file.refresh # procs[p].grant
  /\ procs[p].at \in {"written", "synced"} => temps[p] = Whole(procs[p].grant)
  /\ procs[p].auth # None => procs[p].auth.refresh \in (0..issued) \cup {None}
  /\ temps[p] # None => p \in spoilt \/ procs[p].at \in Temporary

PairInv(p, q) ==
  procs[p].at \in Going =>
    /\ procs[q].auth # None => procs[q].auth.refresh # procs[p].grant
    /\ (q # p /\ procs[q].at \in Going) => procs[q].grant # procs[p].grant

FileInv ==
  /\ FileWhole
  /\ file # None => file.refresh \in (0..issued) \cup {None}
  /\ spent \subseteq 0..issued
  /\ RefreshTokenKept

AuthInv ==
  /\ AuthTypeOK /\ FileInv
  /\ \A p \in Processes : ProcInv(p)
  /\ \A p, q \in Processes : PairInv(p, q)

LEMMA Numbers ==
  ASSUME AuthTypeOK
  PROVE  /\ issued \in Nat /\ MaxGrants \in Nat /\ issued <= MaxGrants
         /\ None \notin Nat /\ \A n \in Grants : n \in Nat /\ n # None
         /\ 0..issued \subseteq Grants
BY AuthAssumption DEF AuthTypeOK, Grants

LEMMA InitAuth == AuthInit => AuthInv
<1> SUFFICES ASSUME AuthInit PROVE AuthInv
  OBVIOUS
<1>1. 0 \in Grants /\ None # 0
  BY AuthAssumption DEF Grants
<1>2. \A p \in Processes :
        procs[p] \in Process /\ procs[p].at \in {"start", "done"}
        /\ procs[p].auth = None /\ procs[p].used = None
  BY DEF AuthInit, Fresh, Process, Places
<1>3. procs \in [Processes -> Process]
  BY DEF AuthInit, Fresh, Process, Places
<1>4. file \in Auth \cup {None} /\ (file # None => file.refresh \in {0, None})
  BY <1>1 DEF AuthInit, UserFiles, Auth
<1>5. AuthTypeOK
  BY <1>1, <1>3, <1>4 DEF AuthInit, AuthTypeOK
<1>6. FileInv
  BY <1>4 DEF AuthInit, FileInv, FileWhole, RefreshTokenKept
<1>7. \A p \in Processes : ProcInv(p)
  BY <1>2 DEF AuthInit, ProcInv, Early, Going
<1>8. \A p, q \in Processes : PairInv(p, q)
  BY <1>2 DEF PairInv, Going
<1> QED
  BY <1>5, <1>6, <1>7, <1>8 DEF AuthInv

\* One run moves.
Others(p) == \A q \in Processes \ {p} : procs'[q] = procs[q] /\ temps'[q] = temps[q]

LEMMA GoEffect ==
  ASSUME AuthTypeOK, NEW p \in Processes, NEW place \in Places, Go(p, place)
  PROVE  /\ procs' \in [Processes -> Process]
         /\ \A q \in Processes \ {p} : procs'[q] = procs[q]
         /\ procs'[p].at = place /\ procs'[p].auth = procs[p].auth
         /\ procs'[p].used = procs[p].used /\ procs'[p].grant = procs[p].grant
         /\ procs'[p].key = procs[p].key
<1>1. procs' = [procs EXCEPT ![p] = [procs[p] EXCEPT !.at = place]]
  BY DEF Go
<1>2. procs[p] \in Process
  BY DEF AuthTypeOK
<1>3. [procs[p] EXCEPT !.at = place] \in Process
  BY <1>2 DEF Process
<1> QED
  BY <1>1, <1>2, <1>3 DEF AuthTypeOK, Process

\* A run that changes its place only, or also its key and its temporary file,
\* and neither begins nor ends to carry a grant to the file.
LEMMA MoveKeeps ==
  ASSUME AuthInv, NEW p \in Processes, procs' \in [Processes -> Process], Others(p),
         temps' \in [Processes -> Auth \cup {None}],
         UNCHANGED <<file, issued, spent>>,
         spoilt \subseteq spoilt', spoilt' \subseteq Processes,
         expired' \subseteq Grants,
         procs'[p].auth = procs[p].auth,
         procs'[p].used = procs[p].used, procs'[p].grant = procs[p].grant,
         procs'[p].at \in Going => procs[p].at \in Going,
         procs'[p].at = "done" => procs[p].at \in Early,
         procs'[p].at \in Early => procs[p].at \in Early,
         procs'[p].at \in {"deciding", "asking"} => procs[p].auth # None,
         procs'[p].at = "asking" => procs[p].auth.refresh # None,
         procs'[p].at \in {"written", "synced"} => temps'[p] = Whole(procs[p].grant),
         temps'[p] # None => p \in spoilt' \/ procs'[p].at \in Temporary
  PROVE  AuthInv'
<1>1. AuthTypeOK'
  BY DEF AuthInv, AuthTypeOK
<1>2. FileInv'
  <2>1. ASSUME file # None, file.refresh \in spent
        PROVE  \E q \in Processes : procs'[q].used = file.refresh /\ procs'[q].at # "done"
    <3>1. PICK q \in Processes : procs[q].used = file.refresh /\ procs[q].at # "done"
      BY <2>1 DEF AuthInv, FileInv, RefreshTokenKept, Owes
    <3>2. file.refresh # None
      BY <2>1, Numbers DEF AuthInv, FileInv
    <3> QED
      BY <3>1, <3>2 DEF AuthInv, ProcInv, Others
  <2> QED
    BY <2>1 DEF AuthInv, FileInv, FileWhole, RefreshTokenKept, Owes
<1>3. ProcInv(p)'
  BY DEF AuthInv, ProcInv, Going, Early
<1>4. \A q \in Processes \ {p} : ProcInv(q)'
  BY DEF AuthInv, ProcInv, Others
<1>5. \A q, r \in Processes : PairInv(q, r)'
  BY DEF AuthInv, PairInv, Others
<1> QED
  BY <1>1, <1>2, <1>3, <1>4, <1>5 DEF AuthInv

LEMMA ReadingMoves ==
  ASSUME AuthInv, NEW p \in Processes, SkipFile(p) \/ FindFile(p) \/ Decide(p)
  PROVE  AuthInv'
<1>1. AuthTypeOK /\ procs[p] \in Process
  BY DEF AuthInv, AuthTypeOK
<1>2. CASE SkipFile(p)
  <2>1. Go(p, "done") /\ "done" \in Places
    BY <1>2 DEF SkipFile, Places
  <2> QED
    BY <1>1, <1>2, <2>1, GoEffect, MoveKeeps
    DEF SkipFile, Others, AuthInv, AuthTypeOK, Going, Early, Temporary, ProcInv
<1>3. CASE FindFile(p)
  <2>1. PICK place \in {"done", "reading"} : Go(p, place)
    BY <1>3 DEF FindFile
  <2>2. place \in Places
    BY DEF Places
  <2> QED
    BY <1>1, <1>3, <2>1, <2>2, GoEffect, MoveKeeps
    DEF FindFile, Others, AuthInv, AuthTypeOK, Going, Early, Temporary, ProcInv
<1>4. CASE Decide(p)
  <2>1. procs[p].at = "deciding" /\ procs[p].auth \in Auth
    BY <1>1, <1>4 DEF Decide, AuthInv, ProcInv, Process
  <2>2. /\ procs' \in [Processes -> Process]
        /\ \A q \in Processes \ {p} : procs'[q] = procs[q]
        /\ procs'[p].auth = procs[p].auth /\ procs'[p].used = procs[p].used
        /\ procs'[p].grant = procs[p].grant
        /\ procs'[p].at \in {"failed", "asking", "done"}
        /\ procs'[p].at = "asking" => procs[p].auth.refresh # None
    <3>1. CASE \E place \in {"failed", "asking"} :
                 Go(p, place) /\ (place = "asking" => procs[p].auth.refresh # None)
      <4>1. PICK place \in {"failed", "asking"} :
                   Go(p, place) /\ (place = "asking" => procs[p].auth.refresh # None)
        BY <3>1
      <4>2. place \in Places
        BY DEF Places
      <4> QED
        BY <1>1, <4>1, <4>2, GoEffect
    <3>2. CASE /\ procs' = [procs EXCEPT ![p].key = procs[p].auth.access,
                                         ![p].at = "done"]
               /\ procs[p].auth.access # None
      <4>1. procs' = [procs EXCEPT ![p] =
                        [procs[p] EXCEPT !.key = procs[p].auth.access, !.at = "done"]]
        BY <3>2
      <4>2. [procs[p] EXCEPT !.key = procs[p].auth.access, !.at = "done"] \in Process
        BY <1>1, <2>1 DEF Process, Auth, Places
      <4> QED
        BY <1>1, <4>1, <4>2 DEF AuthTypeOK, Process
    <3> QED
      BY <1>4, <3>1, <3>2 DEF Decide
  <2> QED
    BY <1>1, <1>4, <2>1, <2>2, MoveKeeps
    DEF Decide, Others, AuthInv, AuthTypeOK, Going, Early, Temporary, ProcInv
<1> QED
  BY <1>2, <1>3, <1>4

LEMMA RenewedWhole ==
  ASSUME NEW auth \in Auth, NEW n
  PROVE  Renewed(auth, n) = Whole(n)
<1> DEFINE e1 == [auth EXCEPT !.access = n]
           e2 == [e1 EXCEPT !.refresh = n]
           e3 == [e2 EXCEPT !.expires = n]
<1>1. PICK a, r, e : auth = [access |-> a, refresh |-> r, expires |-> e]
  BY DEF Auth
<1>2. e1 = [access |-> n, refresh |-> r, expires |-> e]
  BY <1>1
<1> HIDE DEF e1
<1>3. e2 = [access |-> n, refresh |-> n, expires |-> e]
  BY <1>2
<1> HIDE DEF e2
<1>4. e3 = Whole(n)
  BY <1>3 DEF Whole
<1> QED
  BY <1>4 DEF e1, e2, Renewed

LEMMA WritingMoves ==
  ASSUME AuthInv, NEW p \in Processes,
         CreateTemp(p) \/ WriteTemp(p) \/ SyncTemp(p) \/ RemoveTemp(p) \/ Crash(p)
  PROVE  AuthInv'
<1>1. AuthTypeOK /\ procs[p] \in Process /\ Empty \in Auth
  BY DEF AuthInv, AuthTypeOK, Empty, Auth
<1>2. CASE CreateTemp(p)
  <2>1. PICK place \in {"created", "failed"} :
          /\ Go(p, place) /\ procs[p].at = "granted"
          /\ \/ place = "created" /\ temps' = [temps EXCEPT ![p] = Empty]
             \/ place = "failed" /\ temps' = temps
    BY <1>2 DEF CreateTemp
  <2>2. place \in Places
    BY DEF Places
  <2> QED
    BY <1>1, <1>2, <2>1, <2>2, GoEffect, MoveKeeps
    DEF CreateTemp, Others, AuthInv, AuthTypeOK, Going, Early, Temporary, ProcInv
<1>3. CASE WriteTemp(p)
  <2> DEFINE made == Renewed(procs[p].auth, procs[p].grant)
  <2>1. PICK place \in {"written", "removing"} :
          /\ Go(p, place) /\ procs[p].at = "created"
          /\ \/ place = "written" /\ temps' = [temps EXCEPT ![p] = made]
             \/ place = "removing" /\ temps' = temps
    BY <1>3 DEF WriteTemp
  <2>2. place \in Places
    BY DEF Places
  <2>3. procs[p].auth \in Auth /\ procs[p].grant \in Grants
    BY <1>1, <2>1, Numbers DEF AuthInv, ProcInv, Going, Process
  <2>4. made = Whole(procs[p].grant) /\ made \in Auth
    <3>2. made = Whole(procs[p].grant)
      BY <2>3, RenewedWhole
    <3> QED
      BY <2>3, <3>2 DEF Whole, Auth
  <2> HIDE DEF made
  <2> QED
    BY <1>1, <1>3, <2>1, <2>2, <2>4, GoEffect, MoveKeeps
    DEF WriteTemp, Others, AuthInv, AuthTypeOK, Going, Early, Temporary, ProcInv
<1>4. CASE SyncTemp(p)
  <2>1. PICK place \in {"synced", "removing"} : Go(p, place) /\ procs[p].at = "written"
    BY <1>4 DEF SyncTemp
  <2>2. place \in Places
    BY DEF Places
  <2> QED
    BY <1>1, <1>4, <2>1, <2>2, GoEffect, MoveKeeps
    DEF SyncTemp, Others, AuthInv, AuthTypeOK, Going, Early, Temporary, ProcInv
<1>5. CASE RemoveTemp(p)
  <2>1. Go(p, "failed") /\ "failed" \in Places
    BY <1>5 DEF RemoveTemp, Places
  <2> QED
    BY <1>1, <1>5, <2>1, GoEffect, MoveKeeps
    DEF RemoveTemp, Others, AuthInv, AuthTypeOK, Going, Early, Temporary, ProcInv
<1>6. CASE Crash(p)
  <2>1. Go(p, "crashed") /\ "crashed" \in Places
    BY <1>6 DEF Crash, Places
  <2> QED
    BY <1>1, <1>6, <2>1, GoEffect, MoveKeeps
    DEF Crash, Others, AuthInv, AuthTypeOK, Going, Early, Temporary, ProcInv
<1> QED
  BY <1>2, <1>3, <1>4, <1>5, <1>6

\* The read takes a copy of the file: no grant on its way there is in it.
LEMMA ReadKeeps ==
  ASSUME AuthInv, NEW p \in Processes, ReadFile(p)
  PROVE  AuthInv'
<1> DEFINE mine == [procs[p] EXCEPT !.auth = file,
                      !.at = IF file = None THEN "failed" ELSE "deciding"]
<1>1. AuthTypeOK /\ procs[p] \in Process /\ procs[p].at = "reading"
  BY DEF AuthInv, AuthTypeOK, ReadFile
<1>2. procs' = [procs EXCEPT ![p] = mine]
  BY DEF ReadFile
<1>3. mine \in Process
  BY <1>1 DEF Process, AuthTypeOK, Places
<1>4. /\ mine.auth = file /\ mine.used = procs[p].used
      /\ mine.at \in {"failed", "deciding"} /\ (mine.at = "deciding" => file # None)
  BY <1>1 DEF Process
<1>5. /\ procs' \in [Processes -> Process] /\ procs'[p] = mine
      /\ \A q \in Processes \ {p} : procs'[q] = procs[q]
  BY <1>1, <1>2, <1>3 DEF AuthTypeOK
<1>6. UNCHANGED <<file, temps, issued, spent, expired, spoilt>>
  BY DEF ReadFile
<1> HIDE DEF mine
<1>7. AuthTypeOK'
  BY <1>1, <1>5, <1>6 DEF AuthTypeOK
<1>8. FileInv'
  <2>1. RefreshTokenKept'
    BY <1>1, <1>4, <1>5, <1>6 DEF AuthInv, FileInv, RefreshTokenKept, Owes
  <2> QED
    BY <1>6, <2>1 DEF AuthInv, FileInv, FileWhole
<1>9. \A q \in Processes : ProcInv(q)'
  <2>1. ProcInv(p)'
    BY <1>1, <1>4, <1>5, <1>6 DEF AuthInv, ProcInv, FileInv, Early, Going, Temporary
  <2> QED
    BY <1>5, <1>6, <2>1 DEF AuthInv, ProcInv
<1>10. \A q, r \in Processes : PairInv(q, r)'
  BY <1>1, <1>4, <1>5, <1>6 DEF AuthInv, PairInv, ProcInv, Going
<1> QED
  BY <1>7, <1>8, <1>9, <1>10 DEF AuthInv

\* The vendor's new grant is nobody's yet, and the run owes the token spent.
LEMMA RefreshKeeps ==
  ASSUME AuthInv, NEW p \in Processes, Refresh(p)
  PROVE  AuthInv'
<1> DEFINE token == procs[p].auth.refresh
<1>1. AuthTypeOK /\ procs[p] \in Process /\ procs[p].at = "asking"
  BY DEF AuthInv, AuthTypeOK, Refresh
<1>2. token \in 0..issued /\ token # None
  BY <1>1, Numbers DEF AuthInv, ProcInv
<1>3. CASE Go(p, "failed") /\ UNCHANGED <<issued, spent>>
  <2>1. "failed" \in Places
    BY DEF Places
  <2> QED
    BY <1>1, <1>3, <2>1, GoEffect, MoveKeeps
    DEF Refresh, Others, AuthInv, AuthTypeOK, Going, Early, Temporary, ProcInv
<1>4. ASSUME NEW place \in {"granted", "failed"}, issued < MaxGrants,
             issued' = issued + 1, spent' = spent \cup {token}, token \notin spent,
             procs' = [procs EXCEPT ![p].used = token, ![p].at = place,
                                    ![p].grant = issued + 1]
      PROVE  AuthInv'
  <2> DEFINE mine == [procs[p] EXCEPT !.used = token, !.at = place, !.grant = issued + 1]
  <2>1. procs' = [procs EXCEPT ![p] = mine]
    BY <1>4
  <2>2. issued \in Nat /\ issued + 1 \in Grants /\ issued + 1 \notin 0..issued
        /\ issued + 1 # None /\ 0..issued \subseteq 0..(issued + 1)
    BY <1>1, <1>4, Numbers, AuthAssumption DEF Grants
  <2>3. mine \in Process
    BY <1>1, <1>2, <1>4, <2>2, Numbers DEF Process, Places
  <2>4. /\ mine.at = place /\ mine.used = token /\ mine.grant = issued + 1
        /\ mine.auth = procs[p].auth
    BY <1>1 DEF Process
  <2>5. /\ procs' \in [Processes -> Process] /\ procs'[p] = mine
        /\ \A q \in Processes \ {p} : procs'[q] = procs[q]
    BY <1>1, <2>1, <2>3 DEF AuthTypeOK
  <2>6. UNCHANGED <<file, temps, expired, spoilt>>
    BY DEF Refresh
  <2>7. spent \subseteq 0..issued
    BY DEF AuthInv, FileInv
  <2> HIDE DEF mine
  <2>8. AuthTypeOK'
    BY <1>1, <1>2, <1>4, <2>2, <2>5, <2>6, Numbers DEF AuthTypeOK
  <2>9. FileInv'
    <3>1. RefreshTokenKept'
      <4> SUFFICES ASSUME file # None, file.refresh \in spent'
                   PROVE  \E q \in Processes :
                            procs'[q].used = file.refresh /\ procs'[q].at # "done"
        BY <2>6 DEF RefreshTokenKept, Owes
      <4>1. CASE file.refresh = token
        BY <4>1, <1>4, <2>4, <2>5
      <4>2. CASE file.refresh \in spent
        <5>1. PICK q \in Processes : procs[q].used = file.refresh /\ procs[q].at # "done"
          BY <4>2 DEF AuthInv, FileInv, RefreshTokenKept, Owes
        <5>2. q # p
          BY <5>1, <4>2, <1>1, <2>7, Numbers DEF AuthInv, ProcInv, Early
        <5> QED
          BY <5>1, <5>2, <2>5
      <4> QED
        BY <4>1, <4>2, <1>4
    <3> QED
      BY <1>2, <1>4, <2>2, <2>6, <2>7, <3>1 DEF AuthInv, FileInv, FileWhole
  <2>10. ProcInv(p)'
    <3>1. issued + 1 \notin spent' /\ (file # None => file.refresh # issued + 1)
      BY <1>2, <1>4, <2>2, <2>7 DEF AuthInv, FileInv
    <3>2. procs[p].auth # None => procs[p].auth.refresh \in (0..issued') \cup {None}
      BY <1>4, <2>2 DEF AuthInv, ProcInv
    <3>3. issued + 1 \in 0..issued' /\ procs[p].auth # None
      BY <1>1, <1>4, <2>2 DEF AuthInv, ProcInv
    <3>4. temps[p] # None => p \in spoilt
      BY <1>1 DEF AuthInv, ProcInv, Temporary
    <3> QED
      BY <1>4, <2>4, <2>5, <2>6, <3>1, <3>2, <3>3, <3>4
      DEF ProcInv, Early, Going
  <2>11. ASSUME NEW q \in Processes \ {p} PROVE ProcInv(q)'
    <3>1. procs[q].at \in Going => procs[q].grant # token
      BY <1>1, <1>2 DEF AuthInv, ProcInv, PairInv
    <3>2. procs[q].auth # None => procs[q].auth.refresh \in (0..issued') \cup {None}
      BY <1>4, <2>2 DEF AuthInv, ProcInv
    <3>3. procs[q].at \in Going => procs[q].grant \in 0..issued'
      BY <1>4, <2>2 DEF AuthInv, ProcInv
    <3> QED
      BY <1>4, <2>5, <2>6, <3>1, <3>2, <3>3 DEF AuthInv, ProcInv
  <2>12. ASSUME NEW q \in Processes, NEW r \in Processes PROVE PairInv(q, r)'
    <3>1. procs[r].auth # None => procs[r].auth.refresh # issued + 1
      BY <2>2 DEF AuthInv, ProcInv
    <3>2. procs[q].at \in Going => procs[q].grant # issued + 1
      BY <2>2 DEF AuthInv, ProcInv
    <3>3. procs[r].at \in Going => procs[r].grant # issued + 1
      BY <2>2 DEF AuthInv, ProcInv
    <3>4. PairInv(q, r)
      BY DEF AuthInv
    <3> QED
      BY <1>1, <1>4, <2>4, <2>5, <3>1, <3>2, <3>3, <3>4 DEF PairInv, Going
  <2> QED
    BY <2>8, <2>9, <2>10, <2>11, <2>12 DEF AuthInv
<1> QED
  BY <1>3, <1>4 DEF Refresh

\* The file becomes that of the grant, whose refresh token is not spent.
LEMMA RenameKeeps ==
  ASSUME AuthInv, NEW p \in Processes, RenameTemp(p)
  PROVE  AuthInv'
<1> DEFINE grant == procs[p].grant
           mine == [procs[p] EXCEPT !.key = grant, !.at = "done"]
<1>1. AuthTypeOK /\ procs[p] \in Process /\ procs[p].at = "synced"
  BY DEF AuthInv, AuthTypeOK, RenameTemp
<1>2. grant \in 0..issued /\ grant \notin spent /\ grant \in Grants /\ grant # None
      /\ temps[p] = Whole(grant) /\ Whole(grant).refresh = grant
  BY <1>1, Numbers DEF AuthInv, ProcInv, Going, Whole
<1>3. CASE Go(p, "removing") /\ UNCHANGED <<file, temps>>
  <2>1. "removing" \in Places
    BY DEF Places
  <2> QED
    BY <1>1, <1>3, <2>1, GoEffect, MoveKeeps
    DEF RenameTemp, Others, AuthInv, AuthTypeOK, Going, Early, Temporary, ProcInv
<1>4. ASSUME file' = temps[p], temps' = [temps EXCEPT ![p] = None],
             procs' = [procs EXCEPT ![p].key = grant, ![p].at = "done"]
      PROVE  AuthInv'
  <2>1. procs' = [procs EXCEPT ![p] = mine]
    BY <1>4
  <2>2. mine \in Process
    BY <1>1, <1>2 DEF Process, Places
  <2>3. mine.at = "done" /\ mine.auth = procs[p].auth
    BY <1>1 DEF Process
  <2>4. /\ procs' \in [Processes -> Process] /\ procs'[p] = mine
        /\ \A q \in Processes \ {p} : procs'[q] = procs[q]
    BY <1>1, <2>1, <2>2 DEF AuthTypeOK
  <2>5. UNCHANGED <<issued, spent, expired, spoilt>> /\ file' = Whole(grant)
    BY <1>2, <1>4 DEF RenameTemp
  <2>6. temps'[p] = None /\ \A q \in Processes \ {p} : temps'[q] = temps[q]
    BY <1>1, <1>4 DEF AuthTypeOK
  <2>7. Whole(grant) \in Auth
    BY <1>2 DEF Whole, Auth
  <2> HIDE DEF mine
  <2>8. AuthTypeOK'
    BY <1>1, <1>4, <2>4, <2>5, <2>7 DEF AuthTypeOK
  <2>9. FileInv'
    <3>1. FileWhole'
      BY <1>2, <2>5 DEF FileWhole
    <3>2. RefreshTokenKept'
      BY <1>2, <2>5 DEF RefreshTokenKept
    <3> QED
      BY <1>2, <2>5, <3>1, <3>2 DEF AuthInv, FileInv
  <2>10. ProcInv(p)'
    BY <1>1, <2>3, <2>4, <2>5, <2>6 DEF AuthInv, ProcInv, Early, Going
  <2>11. ASSUME NEW q \in Processes \ {p} PROVE ProcInv(q)'
    <3>1. procs[q].at \in Going => procs[q].grant # grant
      BY <1>1 DEF AuthInv, PairInv, Going
    <3> QED
      BY <1>2, <2>4, <2>5, <2>6, <3>1 DEF AuthInv, ProcInv
  <2>12. \A q, r \in Processes : PairInv(q, r)'
    BY <2>3, <2>4 DEF AuthInv, PairInv, Going
  <2> QED
    BY <2>8, <2>9, <2>10, <2>11, <2>12 DEF AuthInv
<1> QED
  BY <1>3, <1>4 DEF RenameTemp

\* A log-in elsewhere brings a grant nobody has.
LEMMA LogInKeeps ==
  ASSUME AuthInv, LogIn
  PROVE  AuthInv'
<1>1. AuthTypeOK
  BY DEF AuthInv
<1>2. /\ issued \in Nat /\ issued' = issued + 1 /\ issued' \in Grants
      /\ issued' \notin 0..issued /\ issued' # None
      /\ 0..issued \subseteq 0..issued' /\ issued' \in 0..issued'
  BY <1>1, Numbers, AuthAssumption DEF LogIn, Grants
<1>3. file' = Whole(issued') /\ Whole(issued').refresh = issued'
      /\ UNCHANGED <<temps, procs, spent, expired, spoilt>>
  BY DEF LogIn, Whole
<1>4. Whole(issued') \in Auth
  BY <1>2 DEF Whole, Auth
<1>5. AuthTypeOK'
  BY <1>1, <1>2, <1>3, <1>4 DEF AuthTypeOK
<1>6. spent \subseteq 0..issued /\ issued' \notin spent
  BY <1>2 DEF AuthInv, FileInv
<1>7. FileInv'
  <2>1. FileWhole'
    BY <1>2, <1>3 DEF FileWhole
  <2>2. RefreshTokenKept'
    BY <1>3, <1>6 DEF RefreshTokenKept
  <2>3. spent \subseteq 0..issued'
    BY <1>2, <1>6
  <2> QED
    BY <1>2, <1>3, <2>1, <2>2, <2>3 DEF FileInv
<1>8. ASSUME NEW p \in Processes PROVE ProcInv(p)'
  <2>1. procs[p].auth # None => procs[p].auth.refresh \in (0..issued') \cup {None}
    BY <1>2 DEF AuthInv, ProcInv
  <2>2. procs[p].at \in Going => procs[p].grant \in 0..issued' /\ procs[p].grant # issued'
    BY <1>2 DEF AuthInv, ProcInv
  <2> QED
    BY <1>3, <2>1, <2>2 DEF AuthInv, ProcInv
<1>9. \A p, q \in Processes : PairInv(p, q)'
  BY <1>3 DEF AuthInv, PairInv
<1> QED
  BY <1>5, <1>7, <1>8, <1>9 DEF AuthInv

LEMMA ExpireKeeps ==
  ASSUME AuthInv, Expire
  PROVE  AuthInv'
<1>1. AuthTypeOK /\ 0..issued \subseteq Grants
  BY Numbers DEF AuthInv
<1>2. expired' \subseteq Grants /\ UNCHANGED <<file, temps, procs, issued, spent, spoilt>>
  BY <1>1 DEF Expire, AuthTypeOK
<1>3. AuthTypeOK'
  BY <1>1, <1>2 DEF AuthTypeOK
<1> QED
  BY <1>2, <1>3
  DEF AuthInv, FileInv, FileWhole, RefreshTokenKept, Owes, ProcInv, PairInv

LEMMA StillKeeps ==
  ASSUME AuthInv, UNCHANGED authVars
  PROVE  AuthInv'
BY DEF authVars, AuthInv, AuthTypeOK, FileInv, FileWhole, RefreshTokenKept, Owes,
       ProcInv, PairInv

LEMMA AuthStep ==
  ASSUME AuthInv, [AuthNext]_authVars
  PROVE  AuthInv'
<1>1. ASSUME NEW p \in Processes, Load(p)
      PROVE  AuthInv'
  BY <1>1, ReadingMoves, WritingMoves, ReadKeeps, RefreshKeeps, RenameKeeps DEF Load
<1>2. ASSUME NEW p \in Processes, Crash(p)
      PROVE  AuthInv'
  BY <1>2, WritingMoves
<1> QED
  BY <1>1, <1>2, ExpireKeeps, LogInKeeps, StillKeeps DEF AuthNext

LEMMA InvImpliesSound == AuthInv => AuthFileSound
BY DEF AuthInv, FileInv, ProcInv, AuthFileSound, NoStrayTemps, Temporary

\* Whatever the number of runs that race for the file, crash and find the
\* vendor unreachable, the credentials stay those of one grant, the spent
\* refresh token is in the file only while a run owes the new one or broke
\* off, and no temporary file is left but by a crash or a failed removal
\* (config.rs: apply_codex_auth_json_with_refresher, replace_file_atomically).
THEOREM AuthFileStaysSound == AuthSpec => []AuthFileSound
<1>1. AuthSpec => []AuthInv
  BY InitAuth, AuthStep, PTL DEF AuthSpec
<1> QED
  BY <1>1, InvImpliesSound, PTL

\* The loop does not touch the credentials: a run of the program is a run of
\* theirs.
LEMMA ProgramIsAuth == Spec => AuthSpec
<1>1. Init => AuthInit
  BY DEF Init
<1>2. [Next]_vars => [AuthNext]_authVars
  BY DEF Next, Credentials, Settled, TurnStep, vars
<1> QED
  BY <1>1, <1>2, PTL DEF Spec, AuthSpec

\* The same of the program as it runs.
THEOREM ProgramKeepsAuthSound == Spec => []AuthFileSound
BY ProgramIsAuth, AuthFileStaysSound, PTL

----------------------------------------------------------------------------
(***************************************************************************)
(* The turns.  A Cancel names no turn, so that it can reach none but the   *)
(* one it was meant for rests on what is on its way at each stage: while   *)
(* an input waits, the Cancels of earlier turns are before it in the       *)
(* mailbox and the session has no turn; while its turn runs, whatever is   *)
(* in the mailbox was sent for it; once it is over, its end is the last    *)
(* event in the subscription, so the prompt comes back to an empty one.    *)
(***************************************************************************)
Kinds == {"thinking", "thought", "other", "started", "ended", "turn_ended"}
AnyEvents == [turn: Nat, kind: Kinds, calls: SUBSET Calls]
AnyMessages == [op: {"cancel", "input"}, input: Nat]

OnlyCancels == \A i \in 1..Len(mailbox) : mailbox[i] = Cancel

\* No input is under way.
Quiet == OnlyCancels /\ turn = 0 /\ subscription = <<>>

\* The input is in the mailbox, behind what was there.
Waiting ==
  /\ turn = 0 /\ subscription = <<>>
  /\ mailbox # <<>> /\ mailbox[Len(mailbox)] = Input(input)
  /\ \A i \in 1..Len(mailbox) - 1 : mailbox[i] = Cancel

\* Its turn runs.
Running ==
  /\ turn = input /\ OnlyCancels
  /\ mailbox # <<>> => input \in presses
  /\ \A i \in 1..Len(subscription) :
       subscription[i].turn = input /\ subscription[i].kind # "turn_ended"

\* Its turn is over.
TurnOver ==
  /\ turn = 0 /\ OnlyCancels
  /\ \A i \in 1..Len(subscription) :
       /\ subscription[i].turn = input
       /\ subscription[i].kind = "turn_ended" => i = Len(subscription)

Stage ==
  \/ at \in {"loading", "prompt", "closing", "closed"} /\ Quiet
  \/ at = "asking" /\ Waiting
  \/ at \in {"asking", "turn", "cancelling"} /\ (Running \/ TurnOver)
  \/ at \in {"bailed", "quit"}

LoopInv ==
  /\ input \in Nat /\ turn \in Nat
  /\ mailbox \in Seq(AnyMessages) /\ subscription \in Seq(AnyEvents)
  /\ Stage
  /\ at = "cancelling" => input \in presses
  /\ cancelled \subseteq presses
  /\ foreign = FALSE
  /\ at \in {"loading", "prompt", "closing", "closed", "bailed"} =>
       thinking = FALSE /\ tools = {}

LEMMA EventTypes ==
  ASSUME NEW n \in Nat
  PROVE  /\ TurnEnded(n) \in AnyEvents /\ TurnEnded(n).turn = n
         /\ TurnEnded(n).kind = "turn_ended"
         /\ \A e \in Events(n) :
              e \in AnyEvents /\ e.turn = n /\ e.kind # "turn_ended"
         /\ Cancel \in AnyMessages /\ Input(n) \in AnyMessages /\ Input(n) # Cancel
         /\ Input(n).input = n
BY DEF TurnEnded, Events, Event, AnyEvents, Kinds, AnyMessages, Cancel, Input

LEMMA NothingLeft ==
  ASSUME NEW S, NEW s \in Seq(S)
  PROVE  Len(s) = 0 <=> s = <<>>
OBVIOUS

LEMMA LoopInit == TurnInit => LoopInv
BY DEF TurnInit, LoopInv, Stage, Quiet, OnlyCancels

LEMMA SubmitKeeps ==
  ASSUME LoopInv, Submit
  PROVE  LoopInv'
<1>1. PICK m \in Seq(AnyMessages) : m = mailbox
  BY DEF LoopInv
<1>2. PICK n \in Nat : n = input + 1
  BY DEF LoopInv
<1>3. /\ turn = 0 /\ subscription = <<>> /\ \A i \in 1..Len(m) : m[i] = Cancel
  BY <1>1 DEF LoopInv, Stage, Submit, Quiet, OnlyCancels
<1>4. Input(n) \in AnyMessages
  BY EventTypes
<1>5. PICK x \in AnyMessages : x = Input(n)
  BY <1>4
<1>6. /\ mailbox' = Append(m, x) /\ input' = n /\ at' = "asking" /\ turn' = 0
      /\ subscription' = <<>> /\ cancelled' = cancelled /\ presses' = presses
      /\ foreign' = foreign
  BY <1>1, <1>2, <1>3, <1>5 DEF Submit
<1>7. /\ Append(m, x) \in Seq(AnyMessages) /\ Append(m, x) # <<>>
      /\ Len(Append(m, x)) = Len(m) + 1 /\ Append(m, x)[Len(m) + 1] = x
      /\ \A i \in 1..Len(m) : Append(m, x)[i] = m[i]
  OBVIOUS
<1>8. Waiting'
  BY <1>3, <1>5, <1>6, <1>7 DEF Waiting
<1>. QED BY <1>6, <1>7, <1>8 DEF LoopInv, Stage

\* An input that is no longer in the mailbox has its turn, or had it.
LEMMA BeginTurnKeeps ==
  ASSUME LoopInv, BeginTurn
  PROVE  LoopInv'
<1>1. ~Waiting
  <2>1. SUFFICES ASSUME Waiting
                 PROVE  FALSE
    OBVIOUS
  <2>2. Len(mailbox) \in 1..Len(mailbox)
    BY <2>1 DEF Waiting, LoopInv
  <2>. QED BY <2>1, <2>2 DEF Waiting, BeginTurn
<1>2. Running \/ TurnOver
  BY <1>1 DEF LoopInv, Stage, BeginTurn
<1>. QED BY <1>2 DEF BeginTurn, LoopInv, Stage, Running, TurnOver, OnlyCancels,
                      sessionVars

LEMMA CloseKeeps ==
  ASSUME LoopInv, Close \/ Closed
  PROVE  LoopInv'
BY DEF Close, Closed, LoopInv, Stage, Quiet, OnlyCancels, sessionVars

LEMMA CtrlCKeeps ==
  ASSUME LoopInv, Press \/ TakeCtrlC
  PROVE  LoopInv'
<1>1. Running \/ TurnOver
  BY DEF LoopInv, Stage, Press, TakeCtrlC
<1>2. presses \subseteq presses' /\ UNCHANGED <<input, sessionVars, foreign>>
  BY DEF Press, TakeCtrlC
<1>3. (Running \/ TurnOver)'
  BY <1>1, <1>2 DEF Running, TurnOver, OnlyCancels, sessionVars
<1>4. /\ at' \in {"turn", "cancelling", "quit"}
      /\ at' = "cancelling" => input \in presses'
  BY DEF Press, TakeCtrlC
<1>. QED BY <1>2, <1>3, <1>4 DEF LoopInv, Stage, sessionVars

LEMMA SendCancelKeeps ==
  ASSUME LoopInv, SendCancel
  PROVE  LoopInv'
<1>1. (Running \/ TurnOver) /\ input \in presses
  BY DEF LoopInv, Stage, SendCancel
<1>2. PICK m \in Seq(AnyMessages) : m = mailbox
  BY DEF LoopInv
<1>3. PICK x \in AnyMessages : x = Cancel
  BY EventTypes DEF LoopInv
<1>4. /\ mailbox' = Append(m, x) /\ at' = "turn"
      /\ UNCHANGED <<input, presses, turn, subscription, cancelled, foreign>>
  BY <1>2, <1>3 DEF SendCancel
<1>5. /\ Append(m, x) \in Seq(AnyMessages) /\ Len(Append(m, x)) = Len(m) + 1
      /\ Append(m, x)[Len(m) + 1] = x
      /\ \A i \in 1..Len(m) : Append(m, x)[i] = m[i]
  OBVIOUS
<1>6. OnlyCancels'
  BY <1>1, <1>2, <1>3, <1>4, <1>5 DEF Running, TurnOver, OnlyCancels
<1>7. (Running \/ TurnOver)'
  BY <1>1, <1>4, <1>6 DEF Running, TurnOver
<1>. QED BY <1>4, <1>5, <1>7 DEF LoopInv, Stage

LEMMA TakeEventKeeps ==
  ASSUME LoopInv, TakeEvent
  PROVE  LoopInv'
<1>1. Running \/ TurnOver
  BY DEF LoopInv, Stage, TakeEvent
<1>2. PICK q \in Seq(AnyEvents) : q = subscription
  BY DEF LoopInv
<1>3. PICK e : e = Head(q)
  OBVIOUS
<1>4. /\ q # <<>> /\ Len(q) \in Nat \ {0} /\ Tail(q) \in Seq(AnyEvents) /\ e = q[1]
      /\ Len(Tail(q)) = Len(q) - 1 /\ \A i \in 1..Len(q) - 1 : Tail(q)[i] = q[i + 1]
      /\ 1 \in 1..Len(q) /\ \A i \in 1..Len(q) - 1 : i + 1 \in 1..Len(q)
  <2>1. q # <<>>
    BY <1>2 DEF TakeEvent
  <2>. QED BY <1>3, <2>1
<1>5. /\ subscription' = Tail(q) /\ foreign' = (foreign \/ e.turn # input)
      /\ IF e = TurnEnded(e.turn) THEN at' = "prompt" /\ DropRenderer
         ELSE UNCHANGED at
      /\ UNCHANGED <<input, presses, mailbox, turn, cancelled>>
  BY <1>2, <1>3 DEF TakeEvent
<1>6. e.turn = input
  BY <1>1, <1>2, <1>4 DEF Running, TurnOver
<1>7. CASE e = TurnEnded(e.turn)
  <2>1. e.kind = "turn_ended"
    BY <1>6, <1>7, EventTypes DEF LoopInv
  <2>2. TurnOver /\ 1 = Len(q)
    BY <1>1, <1>2, <1>4, <2>1 DEF Running, TurnOver
  <2>3. Tail(q) = <<>>
    <3>1. PICK t \in Seq(AnyEvents) : t = Tail(q) /\ Len(t) = Len(q) - 1
      BY <1>4
    <3>. QED BY <2>2, <3>1, NothingLeft
  <2>4. Quiet'
    BY <1>5, <2>2, <2>3 DEF Quiet, TurnOver, OnlyCancels
  <2>. QED BY <1>4, <1>5, <1>6, <1>7, <2>4 DEF LoopInv, Stage, DropRenderer
<1>8. CASE e # TurnEnded(e.turn)
  <2>1. CASE Running
    <3>1. \A i \in 1..Len(q) - 1 :
            Tail(q)[i].turn = input /\ Tail(q)[i].kind # "turn_ended"
      BY <1>2, <1>4, <2>1 DEF Running
    <3>2. Running'
      BY <1>4, <1>5, <2>1, <3>1 DEF Running, OnlyCancels
    <3>. QED BY <1>4, <1>5, <1>6, <1>8, <3>2 DEF LoopInv, Stage, TakeEvent
  <2>2. CASE TurnOver
    <3>1. \A i \in 1..Len(q) - 1 :
            /\ Tail(q)[i].turn = input
            /\ Tail(q)[i].kind = "turn_ended" => i = Len(q) - 1
      <4>1. ASSUME NEW i \in 1..Len(q) - 1
            PROVE  /\ Tail(q)[i].turn = input
                   /\ Tail(q)[i].kind = "turn_ended" => i = Len(q) - 1
        <5>1. Tail(q)[i] = q[i + 1] /\ i + 1 \in 1..Len(q)
          BY <1>4
        <5>2. /\ q[i + 1].turn = input
              /\ q[i + 1].kind = "turn_ended" => i + 1 = Len(q)
          BY <1>2, <2>2, <5>1 DEF TurnOver
        <5>3. PICK k \in Nat : k = Len(q)
          OBVIOUS
        <5>4. i + 1 = k => i = k - 1
          OBVIOUS
        <5>. QED BY <5>1, <5>2, <5>3, <5>4
      <4>. QED BY <4>1
    <3>2. TurnOver'
      BY <1>4, <1>5, <2>2, <3>1 DEF TurnOver, OnlyCancels
    <3>. QED BY <1>4, <1>5, <1>6, <1>8, <3>2 DEF LoopInv, Stage, TakeEvent
  <2>. QED BY <1>1, <2>1, <2>2
<1>. QED BY <1>7, <1>8

LEMMA TakeEndKeeps ==
  ASSUME LoopInv, TakeEnd
  PROVE  LoopInv'
BY DEF TakeEnd, LoopInv, Stage, DropRenderer, sessionVars

\* A Cancel that finds a turn was sent for it; an input that is taken leaves
\* no Cancel behind.
LEMMA SessionTakesKeeps ==
  ASSUME LoopInv, SessionTakes
  PROVE  LoopInv'
<1>1. PICK m \in Seq(AnyMessages) : m = mailbox
  BY DEF LoopInv
<1>2. /\ m # <<>> /\ Len(m) \in Nat \ {0} /\ Tail(m) \in Seq(AnyMessages)
      /\ Head(m) = m[1] /\ Len(Tail(m)) = Len(m) - 1
      /\ \A i \in 1..Len(m) - 1 : Tail(m)[i] = m[i + 1] /\ i + 1 \in 1..Len(m)
      /\ 1 \in 1..Len(m)
  <2>1. m # <<>>
    BY <1>1 DEF SessionTakes
  <2>. QED BY <2>1
<1>3. /\ mailbox' = Tail(m) /\ at \notin Over
      /\ UNCHANGED <<at, input, presses, thinking, tools, foreign, subscription>>
  BY <1>1 DEF SessionTakes, cliVars
<1>4. CASE m[1] = Cancel
  <2>1. /\ cancelled' = IF turn = 0 THEN cancelled ELSE cancelled \cup {turn}
        /\ turn' = turn
    BY <1>1, <1>2, <1>4 DEF SessionTakes
  <2>2. CASE Quiet
    BY <1>1, <1>2, <1>3, <2>1, <2>2 DEF LoopInv, Stage, Quiet, OnlyCancels, Waiting,
       Running, TurnOver
  <2>3. CASE at = "asking" /\ Waiting
    <3>1. Len(m) # 1
      BY <1>1, <1>4, <2>3, EventTypes DEF Waiting, LoopInv
    <3>2. /\ Tail(m) # <<>> /\ Tail(m)[Len(m) - 1] = Input(input)
          /\ \A i \in 1..Len(m) - 2 : Tail(m)[i] = Cancel
      <4>1. m[Len(m)] = Input(input) /\ \A i \in 1..Len(m) - 1 : m[i] = Cancel
        BY <1>1, <2>3 DEF Waiting
      <4>2. PICK t \in Seq(AnyMessages) : t = Tail(m)
        BY <1>2
      <4>3. Len(t) = Len(m) - 1 /\ Len(t) # 0 /\ t # <<>>
        <5>1. Len(t) = Len(m) - 1 /\ Len(m) \in Nat
          BY <1>2, <4>2
        <5>2. Len(t) # 0
          BY <3>1, <5>1
        <5>3. Len(t) = 0 <=> t = <<>>
          BY NothingLeft
        <5>. QED BY <5>1, <5>2, <5>3
      <4>4. t[Len(m) - 1] = m[(Len(m) - 1) + 1] /\ (Len(m) - 1) + 1 = Len(m)
        BY <1>2, <3>1, <4>2
      <4>5. ASSUME NEW i \in 1..Len(m) - 2
            PROVE  t[i] = Cancel
        <5>1. i \in 1..Len(m) - 1 /\ i + 1 \in 1..Len(m) - 1
          BY <1>2
        <5>. QED BY <1>2, <4>1, <4>2, <5>1
      <4>. QED BY <4>1, <4>2, <4>3, <4>4, <4>5
    <3>3. Waiting'
      BY <1>2, <1>3, <2>1, <2>3, <3>2 DEF Waiting
    <3>4. turn = 0
      BY <2>3 DEF Waiting
    <3>. QED BY <1>2, <1>3, <2>1, <2>3, <3>3, <3>4 DEF LoopInv, Stage
  <2>4. CASE at \in {"asking", "turn", "cancelling"} /\ Running
    <3>1. input \in presses /\ turn = input
      BY <1>1, <1>2, <2>4 DEF Running
    <3>2. Running'
      BY <1>1, <1>2, <1>3, <2>1, <2>4, <3>1 DEF Running, OnlyCancels
    <3>. QED BY <1>2, <1>3, <2>1, <2>4, <3>1, <3>2 DEF LoopInv, Stage
  <2>5. CASE at \in {"asking", "turn", "cancelling"} /\ TurnOver
    <3>1. TurnOver'
      BY <1>1, <1>2, <1>3, <2>1, <2>5 DEF TurnOver, OnlyCancels
    <3>2. turn = 0
      BY <2>5 DEF TurnOver
    <3>. QED BY <1>2, <1>3, <2>1, <2>5, <3>1, <3>2 DEF LoopInv, Stage
  <2>. QED BY <1>3, <2>2, <2>3, <2>4, <2>5 DEF LoopInv, Stage, Over
<1>5. CASE m[1] # Cancel
  <2>1. at = "asking" /\ Waiting
    BY <1>1, <1>2, <1>3, <1>5 DEF LoopInv, Stage, Over, Quiet, Running, TurnOver,
       OnlyCancels
  <2>2. Len(m) = 1 /\ m[1] = Input(input)
    BY <1>1, <1>2, <1>5, <2>1 DEF Waiting
  <2>3. turn' = input /\ cancelled' = cancelled
    BY <1>1, <1>2, <1>5, <2>2, EventTypes DEF SessionTakes, LoopInv
  <2>4. Tail(m) = <<>>
    <3>1. PICK t \in Seq(AnyMessages) : t = Tail(m) /\ Len(t) = Len(m) - 1
      BY <1>2
    <3>. QED BY <2>2, <3>1, NothingLeft
  <2>5. Running'
    <3>1. mailbox' = <<>> /\ subscription' = <<>> /\ turn' = input' /\ Len(<<>>) = 0
      BY <1>3, <2>1, <2>3, <2>4 DEF Waiting
    <3>. QED BY <3>1 DEF Running, OnlyCancels
  <2>. QED BY <1>2, <1>3, <2>1, <2>3, <2>5 DEF LoopInv, Stage
<1>. QED BY <1>4, <1>5

LEMMA EmitAppends ==
  ASSUME LoopInv, NEW e \in AnyEvents, Emit(e)
  PROVE  /\ subscription' \in Seq(AnyEvents)
         /\ Len(subscription') \in {Len(subscription), Len(subscription) + 1}
         /\ \A i \in 1..Len(subscription) : subscription'[i] = subscription[i]
         /\ Len(subscription') = Len(subscription) + 1 =>
              subscription'[Len(subscription) + 1] = e
<1>1. PICK q \in Seq(AnyEvents) : q = subscription
  BY DEF LoopInv
<1>2. subscription' = q \/ subscription' = Append(q, e)
  BY <1>1 DEF Emit
<1>3. /\ Append(q, e) \in Seq(AnyEvents) /\ Len(Append(q, e)) = Len(q) + 1
      /\ Append(q, e)[Len(q) + 1] = e /\ Len(q) # Len(q) + 1
      /\ \A i \in 1..Len(q) : Append(q, e)[i] = q[i]
  OBVIOUS
<1>. QED BY <1>1, <1>2, <1>3

\* A session that has a turn has that of the last input.
LEMMA HasTurn ==
  ASSUME LoopInv, at \notin Over, turn # 0
  PROVE  at \in {"asking", "turn", "cancelling"} /\ Running
BY DEF LoopInv, Stage, Over, Quiet, Waiting, TurnOver

LEMMA SessionEmitsKeeps ==
  ASSUME LoopInv, SessionEmits
  PROVE  LoopInv'
<1>1. at \in {"asking", "turn", "cancelling"} /\ Running
  BY HasTurn DEF SessionEmits
<1>2. PICK e \in Events(turn) : Emit(e)
  BY DEF SessionEmits
<1>3. e \in AnyEvents /\ e.turn = input /\ e.kind # "turn_ended"
  BY <1>1, <1>2, EventTypes DEF Running, LoopInv
<1>4. UNCHANGED <<cliVars, mailbox, turn, cancelled>>
  BY DEF SessionEmits
<1>5. Len(subscription) \in Nat
  BY DEF LoopInv
<1>6. \A i \in 1..Len(subscription') :
        subscription'[i].turn = input /\ subscription'[i].kind # "turn_ended"
  BY <1>1, <1>2, <1>3, <1>5, EmitAppends DEF Running
<1>7. Running' /\ subscription' \in Seq(AnyEvents)
  BY <1>1, <1>2, <1>3, <1>4, <1>6, EmitAppends DEF Running, OnlyCancels, cliVars
<1>. QED BY <1>1, <1>4, <1>7 DEF LoopInv, Stage, cliVars

LEMMA SessionEndsTurnKeeps ==
  ASSUME LoopInv, SessionEndsTurn
  PROVE  LoopInv'
<1>1. at \in {"asking", "turn", "cancelling"} /\ Running
  BY HasTurn DEF SessionEndsTurn
<1>2. PICK e \in AnyEvents : Emit(e) /\ e.turn = input
  BY <1>1, EventTypes DEF SessionEndsTurn, Running, LoopInv
<1>3. turn' = 0 /\ UNCHANGED <<cliVars, mailbox, cancelled>>
  BY DEF SessionEndsTurn
<1>4. Len(subscription) \in Nat
  BY DEF LoopInv
<1>5. \A i \in 1..Len(subscription') :
        /\ subscription'[i].turn = input
        /\ subscription'[i].kind = "turn_ended" => i = Len(subscription')
  BY <1>1, <1>2, <1>4, EmitAppends DEF Running
<1>6. TurnOver' /\ subscription' \in Seq(AnyEvents)
  BY <1>1, <1>2, <1>3, <1>5, EmitAppends DEF Running, TurnOver, OnlyCancels, cliVars
<1>. QED BY <1>1, <1>3, <1>6 DEF LoopInv, Stage, cliVars

LEMMA LoopStep ==
  ASSUME LoopInv, [Next]_vars
  PROVE  LoopInv'
<1>1. CASE UNCHANGED turnVars
  BY <1>1 DEF turnVars, cliVars, sessionVars, LoopInv, Stage, Quiet, Waiting,
              Running, TurnOver, OnlyCancels
<1>2. CASE Settled
  BY <1>2 DEF Settled, LoopInv, Stage, Quiet, OnlyCancels, sessionVars
<1>3. CASE TurnNext
  BY <1>3, SubmitKeeps, BeginTurnKeeps, CloseKeeps, CtrlCKeeps, SendCancelKeeps,
     TakeEventKeeps, TakeEndKeeps, SessionTakesKeeps, SessionEmitsKeeps,
     SessionEndsTurnKeeps DEF TurnNext, Loop, Session
<1>. QED BY <1>1, <1>2, <1>3 DEF Next, Credentials, TurnStep, vars

(***************************************************************************)
(* For any mailbox, buffer, number of lines and order of key presses,      *)
(* events and drops, a Ctrl+C cancels its own turn or none, each turn      *)
(* renders its own events only, and no spinner is left at the prompt       *)
(* (main.rs: run_turn; harness.rs: the handler of Cancel).                 *)
(***************************************************************************)
THEOREM TurnsDoNotMix == Spec => []TurnsStayApart
<1>1. Init => LoopInv
  BY LoopInit DEF Init
<1>2. LoopInv /\ [Next]_vars => LoopInv'
  BY LoopStep
<1>3. LoopInv => TurnsStayApart
  BY DEF LoopInv, TurnsStayApart
<1>. QED BY <1>1, <1>2, <1>3, PTL DEF Spec
=============================================================================
