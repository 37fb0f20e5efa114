--------------------------- MODULE AuthSessionsProofs ---------------------------
(***************************************************************************)
(* Seed commands are atomic, for any number of commands, users and         *)
(* workspaces, however their statements interleave and wherever they fail; *)
(* they stay so beside the requests, of which only those with a session    *)
(* are served; and only quality requests can starve each other.            *)
(***************************************************************************)
EXTENDS AuthSessions, FiniteSetTheorems, TLAPS

(* The columns of a command's record, one by one.                          *)
LEMMA SeedColumns ==
  ASSUME SeedTypeOK, NEW s \in Seeds
  PROVE  /\ seed[s].step \in SeedSteps
         /\ seed[s].email \in Emails \cup {Nobody}
         /\ seed[s].slug \in Slugs \cup {Nobody}
         /\ seed[s].isNew \in BOOLEAN /\ seed[s].inserts \in BOOLEAN
         /\ seed[s].sawDisabled \in BOOLEAN
         /\ seed[s].step \notin {"new", "failed"} => seed[s].email \in Emails /\ seed[s].slug \in Slugs
BY DEF SeedTypeOK, SeedRecord

(* One command moves on and keeps its columns, or those it does not set.   *)
Others(s) == \A t \in Seeds \ {s} : seed'[t] = seed[t]

LEMMA Moved ==
  ASSUME SeedTypeOK, NEW s \in Seeds, NEW step \in SeedSteps, MoveTo(s, step)
  PROVE  /\ Others(s)
         /\ seed'[s] = [seed[s] EXCEPT !.step = step]
         /\ seed'[s].step = step
         /\ seed'[s].email = seed[s].email /\ seed'[s].slug = seed[s].slug
         /\ seed'[s].isNew = seed[s].isNew /\ seed'[s].inserts = seed[s].inserts
         /\ seed' \in [Seeds -> SeedRecord]
BY DEF SeedTypeOK, SeedRecord, MoveTo, Others

(* Initially no command has begun.                                         *)
LEMMA SeedInitially == SeedInit => SeedInv
<1> SUFFICES ASSUME SeedInit PROVE SeedInv
  OBVIOUS
<1>1. SeedTypeOK
  BY NobodyAssumption, FirstOwnerAssumption
     DEF SeedInit, SeedTypeOK, SeedRecord, NoUser, NewSeed, SeedSteps
<1>2. SeedsAreAtomic
  BY NobodyAssumption, FirstOwnerAssumption
     DEF SeedInit, SeedsAreAtomic, SeedsTookEffect, PasswordsAreOfSeeds, WorkspacesAreKept, Succeeded, SeedAt, NewSeed, Known, NoUser
<1>3. \A s \in Seeds : HoldsRows(s)
  BY DEF SeedInit, HoldsRows, SeedAt, NewSeed
<1> QED
  BY <1>1, <1>2, <1>3, NobodyAssumption DEF SeedInit, SeedInv

(* What a step that keeps the rows, and the commands that succeeded, keeps.*)
LEMMA RowsKeepSeeds ==
  ASSUME SeedsAreAtomic, users' = users, owner' = owner, Succeeded' = Succeeded,
         \A t \in Succeeded : seed'[t] = seed[t]
  PROVE  SeedsAreAtomic'
<1>1. SeedsTookEffect'
  BY DEF SeedsAreAtomic, SeedsTookEffect, Known
<1>2. PasswordsAreOfSeeds'
  BY DEF SeedsAreAtomic, PasswordsAreOfSeeds, Known
<1>3. WorkspacesAreKept'
  BY DEF SeedsAreAtomic, WorkspacesAreKept
<1> QED
  BY <1>1, <1>2, <1>3 DEF SeedsAreAtomic

(* What does not concern a command leaves its part of the invariant alone. *)
LEMMA Unmoved ==
  ASSUME NEW t \in Seeds, seed'[t] = seed[t]
  PROVE  /\ IsNew(t)' <=> IsNew(t)
         /\ Inserts(t)' <=> Inserts(t)
         /\ \A e \in Emails : HoldsUser(t, e) => HoldsUser(t, e)'
         /\ \A g \in Slugs : HoldsSlug(t, g) => HoldsSlug(t, g)'
<1>1. (IsNew(t)' <=> IsNew(t)) /\ (Inserts(t)' <=> Inserts(t))
  BY DEF IsNew, Inserts
<1> QED
  BY <1>1 DEF HoldsUser, HoldsSlug, SeedAt

(* A step of one command keeps the invariant when it keeps the atomicity   *)
(* of commands, the locks and the workspaces of the others, and its own    *)
(* part.                                                                   *)
KeepsLocks(s) ==
  /\ \A e \in Emails, t \in Seeds \ {s} : userLock'[e] = t <=> userLock[e] = t
  /\ \A g \in Slugs, t \in Seeds \ {s} : slugLock'[g] = t <=> slugLock[g] = t

LEMMA OneCommandMoves ==
  ASSUME SeedInv, NEW s \in Seeds, Others(s), KeepsLocks(s),
         SeedTypeOK', SeedsAreAtomic',
         \A e \in Emails : userLock'[e] = s => HoldsUser(s, e)',
         \A g \in Slugs : slugLock'[g] = s => HoldsSlug(s, g)',
         HoldsRows(s)',
         \A t \in Seeds \ {s} : SeedAt(t, "commit") /\ Inserts(t) =>
            owner'[seed[t].slug] = owner[seed[t].slug],
         \A t \in Seeds \ {s} :
            seed[t].step \in {"update user", "write workspace", "commit"} /\ ~Inserts(t) =>
            owner'[seed[t].slug] = owner[seed[t].slug]
  PROVE  SeedInv'
<1>1. ASSUME NEW t \in Seeds \ {s}, NEW e \in Emails, userLock'[e] = t
      PROVE  HoldsUser(t, e)'
  <2>1. seed'[t] = seed[t] /\ userLock[e] = t
    BY <1>1 DEF Others, KeepsLocks
  <2> QED
    BY <2>1, Unmoved DEF SeedInv
<1>2. ASSUME NEW t \in Seeds \ {s}, NEW g \in Slugs, slugLock'[g] = t
      PROVE  HoldsSlug(t, g)'
  <2>1. seed'[t] = seed[t] /\ slugLock[g] = t
    BY <1>2 DEF Others, KeepsLocks
  <2> QED
    BY <2>1, Unmoved DEF SeedInv
<1>3. ASSUME NEW t \in Seeds \ {s} PROVE HoldsRows(t)'
  <2>1. /\ seed'[t] = seed[t] /\ HoldsRows(t)
        /\ seed[t].step \notin {"new", "failed"} => seed[t].email \in Emails /\ seed[t].slug \in Slugs
    BY SeedColumns DEF SeedInv, Others
  <2>2. (IsNew(t)' <=> IsNew(t)) /\ (Inserts(t)' <=> Inserts(t))
    BY <2>1, Unmoved
  <2>3. /\ seed[t].step \notin {"new", "failed"} /\ userLock[seed[t].email] = t =>
             userLock'[seed[t].email] = t
        /\ seed[t].step \notin {"new", "failed"} /\ slugLock[seed[t].slug] = t =>
             slugLock'[seed[t].slug] = t
    BY <2>1 DEF KeepsLocks
  <2> QED
    BY <2>1, <2>2, <2>3 DEF HoldsRows, SeedAt
<1> QED
  BY <1>1, <1>2, <1>3 DEF SeedInv

(* The rows, the locks and what the others know stay; the command gets     *)
(* into a step in which it holds no lock.                                  *)
LEMMA QuietStepKeeps ==
  ASSUME SeedInv, NEW s \in Seeds, Others(s), SeedTypeOK',
         users' = users, owner' = owner, userLock' = userLock, slugLock' = slugLock,
         seed[s].step \in {"new", "find user"},
         seed'[s].step \in {"failed", "find user", "insert user", "find workspace"},
         seed'[s].step = "find workspace" => ~IsNew(s)',
         seed'[s].step = "insert user" => IsNew(s)'
  PROVE  SeedInv'
<1>1. Succeeded' = Succeeded /\ \A t \in Succeeded : seed'[t] = seed[t]
  BY DEF Succeeded, SeedAt, Others
<1>2. SeedsAreAtomic'
  BY <1>1, RowsKeepSeeds DEF SeedInv
<1>3. /\ \A e \in Emails : userLock[e] # s
      /\ \A g \in Slugs : slugLock[g] # s
  BY DEF SeedInv, HoldsUser, HoldsSlug, SeedAt
<1>4. HoldsRows(s)'
  BY DEF HoldsRows, SeedAt
<1> QED
  BY <1>2, <1>3, <1>4, OneCommandMoves DEF KeepsLocks

LEMMA StartKeeps ==
  ASSUME SeedInv, NEW s \in Seeds, StartSeed(s)
  PROVE  SeedInv'
<1>1. CASE MoveTo(s, "failed")
  <2>1. Others(s) /\ seed'[s].step = "failed" /\ SeedTypeOK'
    BY <1>1, Moved, SeedColumns DEF SeedInv, SeedTypeOK, StartSeed, SeedSteps, Others
  <2> QED
    BY <2>1, QuietStepKeeps DEF StartSeed, SeedAt
<1>2. CASE ~MoveTo(s, "failed")
  <2>1. PICK e \in Emails, g \in Slugs :
          seed' = [seed EXCEPT ![s] = [NewSeed EXCEPT !.step = "find user", !.email = e,
                                                      !.slug = g]]
    BY <1>2 DEF StartSeed
  <2> DEFINE started == [NewSeed EXCEPT !.step = "find user", !.email = e, !.slug = g]
  <2>2. /\ started \in SeedRecord
        /\ started.step = "find user" /\ started.email = e /\ started.slug = g
    BY DEF NewSeed, SeedSteps, SeedRecord
  <2> HIDE DEF started
  <2>3. /\ seed' \in [Seeds -> SeedRecord]
        /\ seed'[s].step = "find user" /\ seed'[s].email \in Emails
        /\ seed'[s].slug \in Slugs /\ Others(s)
    <3>1. seed' = [seed EXCEPT ![s] = started]
      BY <2>1 DEF started
    <3> QED
      BY <3>1, <2>2 DEF SeedInv, SeedTypeOK, Others
  <2>4. SeedTypeOK'
    BY <2>3 DEF SeedInv, SeedTypeOK, StartSeed, Others
  <2> QED
    BY <2>3, <2>4, QuietStepKeeps DEF StartSeed, SeedAt
<1> QED
  BY <1>1, <1>2

LEMMA FindUserKeeps ==
  ASSUME SeedInv, NEW s \in Seeds, FindSeedUser(s)
  PROVE  SeedInv'
<1> DEFINE step == IF Known(seed[s].email) THEN "find workspace" ELSE "insert user"
           new == ~Known(seed[s].email)
           disabled == users[seed[s].email].disabled
           found == [seed[s] EXCEPT !.step = step, !.isNew = new, !.sawDisabled = disabled]
<1>1. /\ seed[s].email \in Emails /\ seed[s].slug \in Slugs
      /\ seed[s].step = "find user"
  BY SeedColumns DEF SeedInv, FindSeedUser, SeedAt
<1>2. seed' = [seed EXCEPT ![s] = found]
  BY DEF FindSeedUser
<1>3. step \in SeedSteps /\ new \in BOOLEAN /\ disabled \in BOOLEAN
  BY <1>1 DEF SeedInv, SeedTypeOK, SeedSteps, Known
<1>4. /\ step \in {"insert user", "find workspace"}
      /\ step = "find workspace" => ~new
      /\ step = "insert user" => new
  OBVIOUS
<1> HIDE DEF step, new, disabled
<1>5. /\ found \in SeedRecord
      /\ found.step = step /\ found.isNew = new
      /\ found.email = seed[s].email /\ found.slug = seed[s].slug
  BY <1>3 DEF SeedInv, SeedTypeOK, SeedRecord
<1> HIDE DEF found
<1>6. /\ Others(s) /\ seed'[s] = found
      /\ seed' \in [Seeds -> SeedRecord]
  BY <1>2, <1>5 DEF SeedInv, SeedTypeOK, Others
<1>7. SeedTypeOK'
  BY <1>1, <1>5, <1>6 DEF SeedInv, SeedTypeOK, FindSeedUser, Others
<1>8. (step = "find workspace" => ~IsNew(s)') /\ (step = "insert user" => IsNew(s)')
  <2>1. IsNew(s)' = new
    BY <1>5, <1>6 DEF IsNew
  <2> QED
    BY <2>1, <1>4
<1>9. users' = users /\ owner' = owner /\ userLock' = userLock /\ slugLock' = slugLock
  BY DEF FindSeedUser
<1>a. seed'[s].step = step
  BY <1>5, <1>6
<1> QED
  BY <1>1, <1>4, <1>6, <1>7, <1>8, <1>9, <1>a, QuietStepKeeps

(* A failure gives back the locks of the command and nothing else.         *)
LEMMA FailKeeps ==
  ASSUME SeedInv, NEW s \in Seeds, FailSeed(s), ~SeedAt(s, "done")
  PROVE  SeedInv'
<1>1. /\ Others(s) /\ seed'[s].step = "failed"
      /\ seed' \in [Seeds -> SeedRecord]
  BY Moved DEF SeedInv, FailSeed, SeedSteps
<1>2. SeedTypeOK'
  BY <1>1 DEF SeedInv, SeedTypeOK, FailSeed, Others
<1>3. Succeeded' = Succeeded /\ \A t \in Succeeded : seed'[t] = seed[t]
  BY <1>1 DEF Succeeded, SeedAt, Others
<1>4. SeedsAreAtomic'
  BY <1>3, RowsKeepSeeds DEF SeedInv, FailSeed
<1>5. /\ KeepsLocks(s)
      /\ \A e \in Emails : userLock'[e] # s
      /\ \A g \in Slugs : slugLock'[g] # s
  BY NobodyAssumption DEF FailSeed, KeepsLocks
<1>6. HoldsRows(s)' /\ owner' = owner
  BY <1>1 DEF HoldsRows, SeedAt, FailSeed
<1> QED
  BY <1>1, <1>2, <1>4, <1>5, <1>6, OneCommandMoves
(* The command takes the lock of its user's row and moves on; this is the  *)
(* insertion of a user as well as the update of one.                       *)
LEMMA LockUserKeeps ==
  ASSUME SeedInv, NEW s \in Seeds, NEW step \in SeedSteps, MoveTo(s, step),
         seed[s].step \in {"insert user", "update user"},
         IF seed[s].step = "insert user" THEN step = "find workspace" /\ IsNew(s)
                                         ELSE step = "write workspace",
         userLock[seed[s].email] = Nobody,
         userLock' = [userLock EXCEPT ![seed[s].email] = s],
         users' = users, owner' = owner, slugLock' = slugLock
  PROVE  SeedInv'
<1>1. seed[s].email \in Emails /\ seed[s].slug \in Slugs
  BY SeedColumns DEF SeedInv
<1>2. /\ Others(s) /\ seed'[s].step = step /\ seed' \in [Seeds -> SeedRecord]
      /\ seed'[s].email = seed[s].email /\ seed'[s].slug = seed[s].slug
      /\ seed'[s].isNew = seed[s].isNew /\ seed'[s].inserts = seed[s].inserts
  BY Moved DEF SeedInv
<1>3. SeedTypeOK'
  BY <1>1, <1>2 DEF SeedInv, SeedTypeOK, Others
<1>4. Succeeded' = Succeeded /\ \A t \in Succeeded : seed'[t] = seed[t]
  BY <1>2 DEF Succeeded, SeedAt, Others
<1>5. SeedsAreAtomic'
  BY <1>4, RowsKeepSeeds DEF SeedInv
<1>6. /\ userLock'[seed[s].email] = s
      /\ \A e \in Emails : e # seed[s].email => userLock'[e] = userLock[e]
  BY <1>1 DEF SeedInv, SeedTypeOK
<1>7. KeepsLocks(s)
  BY <1>6, NobodyAssumption DEF KeepsLocks
<1>8. /\ \A e \in Emails : userLock[e] # s
      /\ \A g \in Slugs : slugLock[g] # s
  BY DEF SeedInv, HoldsUser, HoldsSlug, SeedAt
<1>9. (IsNew(s)' <=> IsNew(s)) /\ (Inserts(s)' <=> Inserts(s))
  <2>1. seed'[s].isNew = seed[s].isNew /\ seed'[s].inserts = seed[s].inserts
    BY <1>2
  <2>2. IsNew(s)' = IsNew(s) /\ Inserts(s)' = Inserts(s)
    BY <2>1, Zenon DEF IsNew, Inserts
  <2> QED
    BY <2>2, Zenon
<1>10. ASSUME NEW e \in Emails, userLock'[e] = s PROVE HoldsUser(s, e)'
  <2>1. e = seed[s].email
    BY <1>6, <1>8, <1>10
  <2> QED
    BY <2>1, <1>2, <1>9 DEF HoldsUser, SeedAt
<1>12. HoldsRows(s)'
  BY <1>2, <1>6, <1>9 DEF SeedInv, HoldsRows, SeedAt
<1> QED
  BY <1>2, <1>3, <1>5, <1>7, <1>8, <1>10, <1>12, OneCommandMoves
LEMMA InsertUserKeeps ==
  ASSUME SeedInv, NEW s \in Seeds, InsertUser(s)
  PROVE  SeedInv'
<1>1. CASE Known(seed[s].email)
  BY <1>1, FailKeeps DEF InsertUser, SeedAt
<1>2. CASE ~Known(seed[s].email)
  <2>1. /\ seed[s].step = "insert user" /\ MoveTo(s, "find workspace")
        /\ userLock[seed[s].email] = Nobody
        /\ userLock' = [userLock EXCEPT ![seed[s].email] = s]
        /\ users' = users /\ owner' = owner /\ slugLock' = slugLock
    BY <1>2 DEF InsertUser, SeedAt
  <2>2. IsNew(s)
    BY <2>1 DEF SeedInv, HoldsRows, SeedAt
  <2> QED
    BY <2>1, <2>2, LockUserKeeps DEF SeedSteps
<1> QED
  BY <1>1, <1>2

LEMMA UpdateUserKeeps ==
  ASSUME SeedInv, NEW s \in Seeds, UpdateUser(s)
  PROVE  SeedInv'
<1>1. /\ seed[s].step = "update user" /\ MoveTo(s, "write workspace")
      /\ userLock[seed[s].email] = Nobody
      /\ userLock' = [userLock EXCEPT ![seed[s].email] = s]
      /\ users' = users /\ owner' = owner /\ slugLock' = slugLock
  BY DEF UpdateUser, SeedAt
<1> QED
  BY <1>1, LockUserKeeps DEF SeedSteps

(* The workspace is free or the user's own: the command goes on with what  *)
(* it saw, and keeps the lock of a user it inserted.                       *)
LEMMA FindWorkspaceKeeps ==
  ASSUME SeedInv, NEW s \in Seeds, FindWorkspace(s)
  PROVE  SeedInv'
<1>1. CASE owner[seed[s].slug] \notin {Nobody, seed[s].email}
  BY <1>1, FailKeeps DEF FindWorkspace, SeedAt
<1>2. CASE owner[seed[s].slug] \in {Nobody, seed[s].email}
  <2> DEFINE step == IF seed[s].isNew THEN "write workspace" ELSE "update user"
             free == owner[seed[s].slug] = Nobody
             found == [seed[s] EXCEPT !.step = step, !.inserts = free]
  <2>1. /\ seed' = [seed EXCEPT ![s] = found] /\ seed[s].step = "find workspace"
        /\ users' = users /\ owner' = owner /\ userLock' = userLock /\ slugLock' = slugLock
    BY <1>2 DEF FindWorkspace, SeedAt
  <2>2. seed[s].email \in Emails /\ seed[s].slug \in Slugs
    BY <2>1, SeedColumns DEF SeedInv
  <2>3. /\ step \in SeedSteps /\ free \in BOOLEAN
        /\ step \in {"write workspace", "update user"}
        /\ step = "write workspace" <=> IsNew(s)
        /\ ~free => owner[seed[s].slug] = seed[s].email
    BY <1>2 DEF SeedSteps, IsNew
  <2> HIDE DEF step, free
  <2>4. /\ found \in SeedRecord /\ found.step = step /\ found.inserts = free
        /\ found.email = seed[s].email /\ found.slug = seed[s].slug
    BY <2>3 DEF SeedInv, SeedTypeOK, SeedRecord
  <2> HIDE DEF found
  <2>5. Others(s) /\ seed'[s] = found /\ seed' \in [Seeds -> SeedRecord]
    BY <2>1, <2>4 DEF SeedInv, SeedTypeOK, Others
  <2>6. SeedTypeOK'
    BY <2>1, <2>2, <2>4, <2>5 DEF SeedInv, SeedTypeOK, Others
  <2>7. Succeeded' = Succeeded /\ \A t \in Succeeded : seed'[t] = seed[t]
    BY <2>1, <2>3, <2>4, <2>5 DEF Succeeded, SeedAt, Others
  <2>8. SeedsAreAtomic'
    BY <2>1, <2>7, RowsKeepSeeds DEF SeedInv
  <2>9. Inserts(s)' = free
    BY <2>4, <2>5 DEF Inserts
  <2>10. ~Inserts(s)' => owner[seed[s].slug] = seed[s].email
    BY <2>3, <2>9
  <2>11. \A e \in Emails : userLock[e] = s => seed[s].email = e /\ IsNew(s)
    BY <2>1 DEF SeedInv, HoldsUser, SeedAt
  <2>12. ASSUME NEW e \in Emails, userLock'[e] = s PROVE HoldsUser(s, e)'
    BY <2>1, <2>3, <2>4, <2>5, <2>11, <2>12 DEF HoldsUser
  <2>13. \A g \in Slugs : slugLock[g] # s
    BY <2>1 DEF SeedInv, HoldsSlug, SeedAt
  <2>14. IsNew(s) => userLock[seed[s].email] = s
    BY <2>1 DEF SeedInv, HoldsRows, SeedAt
  <2>15. HoldsRows(s)'
    BY <2>1, <2>3, <2>4, <2>5, <2>10, <2>14 DEF HoldsRows, SeedAt
  <2> QED
    BY <2>1, <2>5, <2>6, <2>8, <2>12, <2>13, <2>15, OneCommandMoves DEF KeepsLocks
<1> QED
  BY <1>1, <1>2
(* The insertion or the update of the workspace.                           *)
LEMMA WriteWorkspaceKeeps ==
  ASSUME SeedInv, NEW s \in Seeds, WriteWorkspace(s)
  PROVE  SeedInv'
<1>1. CASE seed[s].inserts /\ owner[seed[s].slug] # Nobody
  BY <1>1, FailKeeps DEF WriteWorkspace, SeedAt
<1>2. CASE ~(seed[s].inserts /\ owner[seed[s].slug] # Nobody)
  <2>1. /\ seed[s].step = "write workspace" /\ MoveTo(s, "commit")
        /\ slugLock[seed[s].slug] = Nobody
        /\ slugLock' = [slugLock EXCEPT ![seed[s].slug] = s]
        /\ users' = users /\ owner' = owner /\ userLock' = userLock
    BY <1>2 DEF WriteWorkspace, SeedAt
  <2>2. Inserts(s) => owner[seed[s].slug] = Nobody
    BY <1>2 DEF Inserts
  <2>3. seed[s].email \in Emails /\ seed[s].slug \in Slugs
    BY <2>1, SeedColumns DEF SeedInv
  <2>4. /\ Others(s) /\ seed'[s].step = "commit" /\ seed' \in [Seeds -> SeedRecord]
        /\ seed'[s].email = seed[s].email /\ seed'[s].slug = seed[s].slug
        /\ seed'[s].isNew = seed[s].isNew /\ seed'[s].inserts = seed[s].inserts
    BY <2>1, Moved DEF SeedInv, SeedSteps
  <2>5. SeedTypeOK'
    BY <2>1, <2>3, <2>4 DEF SeedInv, SeedTypeOK, Others
  <2>6. Succeeded' = Succeeded /\ \A t \in Succeeded : seed'[t] = seed[t]
    BY <2>1, <2>4 DEF Succeeded, SeedAt, Others
  <2>7. SeedsAreAtomic'
    BY <2>1, <2>6, RowsKeepSeeds DEF SeedInv
  <2>8. Inserts(s)' <=> Inserts(s)
    <3>1. Inserts(s)' = Inserts(s)
      BY <2>4, Zenon DEF Inserts
    <3> QED
      BY <3>1, Zenon
  <2>9. /\ slugLock'[seed[s].slug] = s
        /\ \A g \in Slugs : g # seed[s].slug => slugLock'[g] = slugLock[g]
    BY <2>1, <2>3 DEF SeedInv, SeedTypeOK
  <2>10. KeepsLocks(s)
    BY <2>1, <2>9, NobodyAssumption DEF KeepsLocks
  <2>11. \A e \in Emails : userLock[e] = s => seed[s].email = e
    BY DEF SeedInv, HoldsUser
  <2>12. \A g \in Slugs : slugLock[g] # s
    BY <2>1 DEF SeedInv, HoldsSlug, SeedAt
  <2>13. ASSUME NEW e \in Emails, userLock'[e] = s PROVE HoldsUser(s, e)'
    BY <2>1, <2>4, <2>11, <2>13 DEF HoldsUser
  <2>14. ASSUME NEW g \in Slugs, slugLock'[g] = s PROVE HoldsSlug(s, g)'
    BY <2>4, <2>9, <2>12, <2>14 DEF HoldsSlug, SeedAt
  <2>15. userLock[seed[s].email] = s /\ (~Inserts(s) => owner[seed[s].slug] = seed[s].email)
    BY <2>1 DEF SeedInv, HoldsRows
  <2>16. HoldsRows(s)'
    BY <2>1, <2>2, <2>4, <2>8, <2>9, <2>15 DEF HoldsRows, SeedAt
  <2> QED
    BY <2>1, <2>4, <2>5, <2>7, <2>10, <2>13, <2>14, <2>16, OneCommandMoves
<1> QED
  BY <1>1, <1>2
(* The commit: the rows of the command appear at once, and no command      *)
(* under way has seen them otherwise than under its own lock.              *)
LEMMA CommitKeeps ==
  ASSUME SeedInv, NEW s \in Seeds, CommitSeed(s)
  PROVE  SeedInv'
<1> DEFINE email == seed[s].email
           slug == seed[s].slug
           user == [password |-> s, disabled |-> users[email].disabled /\ ~seed[s].sawDisabled]
<1>1. seed[s].step = "commit" /\ MoveTo(s, "done") /\ email \in Emails /\ slug \in Slugs
  BY SeedColumns DEF SeedInv, CommitSeed, SeedAt
<1>2. /\ Others(s) /\ seed'[s].step = "done" /\ seed' \in [Seeds -> SeedRecord]
      /\ seed'[s].email = email /\ seed'[s].slug = slug
  BY <1>1, Moved DEF SeedInv, SeedSteps
<1>3. /\ users' = [users EXCEPT ![email] = user]
      /\ userLock' = [userLock EXCEPT ![email] = Nobody]
      /\ slugLock' = [slugLock EXCEPT ![slug] = Nobody]
      /\ Inserts(s) => owner' = [owner EXCEPT ![slug] = email]
      /\ ~Inserts(s) => owner' = owner
  BY DEF CommitSeed, Inserts
<1>4. user \in [password : Seeds \cup Emails \cup {Nobody}, disabled : BOOLEAN]
      /\ user.password = s
  OBVIOUS
<1> HIDE DEF user
<1>5. /\ users'[email] = user /\ \A e \in Emails : e # email => users'[e] = users[e]
      /\ users' \in [Emails -> [password : Seeds \cup Emails \cup {Nobody}, disabled : BOOLEAN]]
  BY <1>1, <1>3, <1>4 DEF SeedInv, SeedTypeOK
<1>6. /\ HoldsRows(s) /\ userLock[email] = s /\ slugLock[slug] = s
      /\ Inserts(s) => owner[slug] = Nobody
      /\ ~Inserts(s) => owner[slug] = email
  BY <1>1 DEF SeedInv, HoldsRows, SeedAt
<1>7. /\ owner'[slug] = email /\ \A g \in Slugs : g # slug => owner'[g] = owner[g]
      /\ owner' \in [Slugs -> Emails \cup {Nobody}]
  BY <1>1, <1>3, <1>6 DEF SeedInv, SeedTypeOK
<1>8. /\ userLock'[email] = Nobody /\ \A e \in Emails : e # email => userLock'[e] = userLock[e]
      /\ slugLock'[slug] = Nobody /\ \A g \in Slugs : g # slug => slugLock'[g] = slugLock[g]
      /\ userLock' \in [Emails -> Seeds \cup {Nobody}]
      /\ slugLock' \in [Slugs -> Seeds \cup {Nobody}]
  BY <1>1, <1>3 DEF SeedInv, SeedTypeOK
<1>9. SeedTypeOK'
  BY <1>1, <1>2, <1>5, <1>7, <1>8 DEF SeedInv, SeedTypeOK, Others
<1>10. Succeeded' = Succeeded \cup {s} /\ \A t \in Succeeded : t # s /\ seed'[t] = seed[t]
  BY <1>1, <1>2 DEF Succeeded, SeedAt, Others
<1>11. ASSUME NEW t \in Succeeded
       PROVE  /\ seed[t].email \in Emails /\ seed[t].slug \in Slugs
              /\ Known(seed[t].email) /\ owner[seed[t].slug] = seed[t].email
  BY SeedColumns DEF SeedInv, SeedsAreAtomic, SeedsTookEffect, Succeeded, SeedAt
<1>12. users'[email] # NoUser
  BY <1>4, <1>5, NobodyAssumption DEF NoUser
<1>13. SeedsTookEffect'
  <2>1. ASSUME NEW t \in Succeeded
        PROVE  users'[seed[t].email] # NoUser /\ owner'[seed[t].slug] = seed[t].email
    <3>1. seed[t].slug = slug => ~Inserts(s)
      BY <1>6, <1>11, NobodyAssumption
    <3> QED
      BY <3>1, <1>3, <1>5, <1>7, <1>11, <1>12 DEF Known
  <2> QED
    BY <2>1, <1>2, <1>7, <1>10, <1>12 DEF SeedsTookEffect, Known
<1>14. PasswordsAreOfSeeds'
  <2> SUFFICES ASSUME NEW e \in Emails, users'[e] # NoUser
               PROVE  \/ users'[e].password = e
                      \/ \E t \in Succeeded' : users'[e].password = t /\ seed'[t].email = e
    BY DEF PasswordsAreOfSeeds, Known
  <2>1. CASE e = email
    BY <2>1, <1>2, <1>4, <1>5, <1>10
  <2>2. CASE e # email
    BY <2>2, <1>5, <1>10 DEF SeedInv, SeedsAreAtomic, PasswordsAreOfSeeds, Known
  <2> QED
    BY <2>1, <2>2
<1>15. WorkspacesAreKept'
  <2> SUFFICES ASSUME NEW g \in Slugs
               PROVE  /\ FirstOwner[g] # Nobody => owner'[g] = FirstOwner[g]
                      /\ owner'[g] # FirstOwner[g] => \E t \in Succeeded' : seed'[t].slug = g
    BY DEF WorkspacesAreKept
  <2>1. CASE g = slug
    BY <2>1, <1>2, <1>3, <1>6, <1>7, <1>10 DEF SeedInv, SeedsAreAtomic, WorkspacesAreKept
  <2>2. CASE g # slug
    BY <2>2, <1>7, <1>10 DEF SeedInv, SeedsAreAtomic, WorkspacesAreKept
  <2> QED
    BY <2>1, <2>2
<1>16. SeedsAreAtomic'
  BY <1>13, <1>14, <1>15 DEF SeedsAreAtomic
<1>17. /\ \A e \in Emails : userLock[e] = s => e = email
       /\ \A g \in Slugs : slugLock[g] = s => g = slug
  BY DEF SeedInv, HoldsUser, HoldsSlug
<1>18. /\ \A e \in Emails : userLock'[e] # s
       /\ \A g \in Slugs : slugLock'[g] # s
  BY <1>8, <1>17, NobodyAssumption
<1>19. KeepsLocks(s)
  BY <1>6, <1>8, NobodyAssumption DEF KeepsLocks
<1>20. HoldsRows(s)'
  BY <1>2 DEF HoldsRows, SeedAt
<1>21. ASSUME NEW t \in Seeds \ {s}, seed[t].step = "commit"
       PROVE  owner'[seed[t].slug] = owner[seed[t].slug]
  <2>1. seed[t].slug \in Slugs /\ slugLock[seed[t].slug] = t
    BY <1>21, SeedColumns DEF SeedInv, HoldsRows, SeedAt
  <2> QED
    BY <2>1, <1>6, <1>7
<1>22. ASSUME NEW t \in Seeds \ {s}, ~Inserts(t),
              seed[t].step \in {"update user", "write workspace", "commit"}
       PROVE  owner'[seed[t].slug] = owner[seed[t].slug]
  <2>1. seed[t].slug \in Slugs /\ seed[t].email \in Emails
        /\ owner[seed[t].slug] = seed[t].email
    BY <1>22, SeedColumns DEF SeedInv, HoldsRows
  <2>2. seed[t].slug = slug => ~Inserts(s)
    BY <2>1, <1>6, NobodyAssumption
  <2> QED
    BY <2>1, <2>2, <1>3, <1>7
<1> QED
  BY <1>2, <1>9, <1>16, <1>18, <1>19, <1>20, <1>21, <1>22, OneCommandMoves DEF SeedAt

(* The user stays the one that a command made, or the first one.           *)
LEMMA DisableKeeps ==
  ASSUME SeedInv, NEW e \in Emails, DisableUser(e)
  PROVE  SeedInv'
<1>1. /\ owner' = owner /\ userLock' = userLock /\ slugLock' = slugLock /\ seed' = seed
      /\ Known(e) /\ users' = [users EXCEPT ![e].disabled = TRUE]
  BY DEF DisableUser
<1>2. /\ users'[e].password = users[e].password /\ users'[e].disabled = TRUE
      /\ \A f \in Emails : f # e => users'[f] = users[f]
      /\ users' \in [Emails -> [password : Seeds \cup Emails \cup {Nobody}, disabled : BOOLEAN]]
  BY <1>1 DEF SeedInv, SeedTypeOK
<1>3. SeedTypeOK'
  BY <1>1, <1>2 DEF SeedInv, SeedTypeOK
<1>4. \A f \in Emails : Known(f)' <=> Known(f)
  BY <1>1, <1>2 DEF Known, NoUser
<1>5. Succeeded' = Succeeded
  BY <1>1 DEF Succeeded, SeedAt
<1>6. SeedsTookEffect'
  <2>1. \A s \in Succeeded : seed[s].email \in Emails
    BY SeedColumns DEF SeedInv, Succeeded, SeedAt
  <2> QED
    BY <2>1, <1>1, <1>4, <1>5 DEF SeedInv, SeedsAreAtomic, SeedsTookEffect
<1>7. PasswordsAreOfSeeds'
  BY <1>1, <1>2, <1>4, <1>5 DEF SeedInv, SeedsAreAtomic, PasswordsAreOfSeeds
<1>8. WorkspacesAreKept'
  BY <1>1, <1>5 DEF SeedInv, SeedsAreAtomic, WorkspacesAreKept
<1>9. \A s \in Seeds : HoldsRows(s)'
  BY <1>1 DEF SeedInv, HoldsRows, SeedAt, Inserts, IsNew
<1>10. \A s \in Seeds, f \in Emails : userLock'[f] = s => HoldsUser(s, f)'
  BY <1>1 DEF SeedInv, HoldsUser, SeedAt, IsNew
<1>11. \A s \in Seeds, g \in Slugs : slugLock'[g] = s => HoldsSlug(s, g)'
  BY <1>1 DEF SeedInv, HoldsSlug, SeedAt
<1> QED
  BY <1>3, <1>6, <1>7, <1>8, <1>9, <1>10, <1>11 DEF SeedInv, SeedsAreAtomic

(* The inductive invariant holds in every step of every seed command.      *)
THEOREM SeedInvariant == SeedSpec => []SeedInv
<1>1. ASSUME SeedInv, NEW s \in Seeds, RunSeed(s) \/ SeedFails(s) PROVE SeedInv'
  <2>1. CASE SeedFails(s)
    BY <1>1, <2>1, FailKeeps DEF SeedFails, SeedAt
  <2>2. CASE RunSeed(s)
    BY <1>1, <2>2, StartKeeps, FindUserKeeps, InsertUserKeeps, FindWorkspaceKeeps,
       UpdateUserKeeps, WriteWorkspaceKeeps, CommitKeeps DEF RunSeed, BeforeCommit
  <2> QED
    BY <1>1, <2>1, <2>2
<1>2. ASSUME SeedInv, UNCHANGED seedVars PROVE SeedInv'
  <2>1. users' = users /\ owner' = owner /\ userLock' = userLock /\ slugLock' = slugLock
        /\ seed' = seed
    BY <1>2 DEF seedVars
  <2>2. SeedTypeOK'
    BY <1>2, <2>1 DEF SeedInv, SeedTypeOK
  <2>3. SeedsAreAtomic'
    BY <1>2, <2>1 DEF SeedInv, SeedsAreAtomic, SeedsTookEffect, PasswordsAreOfSeeds,
                      WorkspacesAreKept, Succeeded, SeedAt, Known
  <2>4. \A s \in Seeds : HoldsRows(s)'
    BY <1>2, <2>1 DEF SeedInv, HoldsRows, SeedAt, Inserts, IsNew
  <2>5. \A s \in Seeds, e \in Emails : userLock'[e] = s => HoldsUser(s, e)'
    BY <1>2, <2>1 DEF SeedInv, HoldsUser, SeedAt, IsNew
  <2>6. \A s \in Seeds, g \in Slugs : slugLock'[g] = s => HoldsSlug(s, g)'
    BY <1>2, <2>1 DEF SeedInv, HoldsSlug, SeedAt
  <2> QED
    BY <2>2, <2>3, <2>4, <2>5, <2>6 DEF SeedInv
<1>3. SeedInv /\ [SeedNext]_seedVars => SeedInv'
  BY <1>1, <1>2, DisableKeeps DEF SeedNext
<1> QED
  BY <1>3, SeedInitially, PTL DEF SeedSpec

(* A seed command that succeeded has done all it says, one that failed     *)
(* nothing, and none takes a workspace from its owner.                     *)
THEOREM SeedCommandsAreAtomic == SeedSpec => []SeedsAreAtomic
<1>1. SeedInv => SeedsAreAtomic
  BY DEF SeedInv
<1> QED
  BY <1>1, SeedInvariant, PTL

-----------------------------------------------------------------------------
(* The sessions of the requests.  A token that a login has drawn is nobody *)
(* else's; a token that was logged out is revoked; and while a request     *)
(* looks for its session and its user, whatever made them unfit since it   *)
(* began is still there to see.                                            *)
LoggingIn == {"find user", "create session"}
Checking == {"resolve", "load user", "owned workspace"} \cup Evaluating

RequestRecord ==
  [step : Steps, email : Emails \cup {Nobody}, token : Tokens \cup {Nobody},
   live : BOOLEAN, enabled : BOOLEAN, quality : BOOLEAN]

LogoutsAreKept ==
  \A t \in Tokens : /\ t \in loggedOut => Issued(t) /\ session[t].revoked
                    /\ Issued(t) => session[t].email \in Emails

(* The part of request r: its record, its token, and what it has checked.  *)
DrawsToken(r) ==
  request[r].step \in LoggingIn =>
    /\ request[r].email \in Emails /\ TokenOf(r) \in Tokens /\ ~Issued(TokenOf(r))
    /\ \A q \in Slots \ {r} : TokenOf(q) # TokenOf(r)

HasSession(r) ==
  request[r].step \in Checking \cup {"find session", "revoke"} =>
    TokenOf(r) \in Tokens /\ Issued(TokenOf(r))

UnfitIsSeen(r) ==
  /\ At(r, "resolve") =>
       \/ request[r].live \/ TokenOf(r) \in loggedOut \/ session[TokenOf(r)].expiresAt <= now
  /\ request[r].step \in {"resolve", "load user"} =>
       request[r].enabled \/ users[UserOf(r)].disabled

Served(r) ==
  /\ request[r].step \in {"load user", "owned workspace"} \cup Evaluating => request[r].live
  /\ request[r].step \in {"owned workspace"} \cup Evaluating => request[r].enabled
  /\ At(r, "idle") => held[r] = 0

RequestInv(r) == DrawsToken(r) /\ HasSession(r) /\ UnfitIsSeen(r) /\ Served(r)

AuthInv == AuthTypeOK /\ LogoutsAreKept /\ \A r \in Slots : RequestInv(r)

(* The seed commands beside the requests are those of SeedUser.            *)
LEMMA SeedsBesideRequests ==
  /\ AuthInit => SeedInit
  /\ [AuthNext]_vars => [SeedNext]_seedVars
<1>1. AuthInit => SeedInit
  BY DEF AuthInit
<1>2. ASSUME AuthNext PROVE SeedNext \/ UNCHANGED seedVars
  <2>1. CASE Tick
    BY <2>1 DEF Tick
  <2>2. ASSUME NEW r \in Slots, Begin(r) \/ Proceed(r) PROVE UNCHANGED seedVars
    <3>1. CASE Begin(r)
      BY <3>1 DEF Begin, BeginLogin, BeginLogout, BeginRequest, Rows
    <3>2. CASE Proceed(r)
      BY <3>2 DEF Proceed, FindUser, CreateSession, LoadWorkspaces, FindSession, Revoke,
         Resolve, LoadUser, OwnedWorkspace, OpenQuality, EvaluateQuality,
         UpsertCandles, RereadCandles, AnswerQuality, PoolTimeout, RereadTimeout, End, Continue, Rows
    <3> QED
      BY <2>2, <3>1, <3>2
  <2>3. ASSUME NEW s \in Seeds, Seed(s) \/ SeedBreaks(s) PROVE SeedNext
    BY <2>3 DEF Seed, SeedBreaks, SeedNext
  <2>4. ASSUME NEW e \in Emails, Disable(e) PROVE SeedNext
    BY <2>4 DEF Disable, SeedNext
  <2> QED
    BY <1>2, <2>1, <2>2, <2>3, <2>4 DEF AuthNext
<1>3. UNCHANGED vars => UNCHANGED seedVars
  BY DEF vars
<1> QED
  BY <1>1, <1>2, <1>3

LEMMA AuthInitially == AuthInit => AuthInv
<1> SUFFICES ASSUME AuthInit PROVE AuthInv
  OBVIOUS
<1>1. SeedTypeOK
  BY SeedInitially DEF AuthInit, SeedInv
<1>2. Idle \in RequestRecord /\ Idle.step = "idle"
  BY DEF Idle, RequestRecord, Steps
<1>3. \A r \in Slots : request[r] = Idle /\ held[r] = 0
  BY DEF AuthInit, PoolInit
<1>4. AuthTypeOK
  BY <1>1, <1>2, LifetimeAssumption DEF AuthInit, AuthTypeOK, RequestRecord, PoolInit, NoSession
<1>5. LogoutsAreKept
  BY DEF AuthInit, LogoutsAreKept, Issued
<1>6. \A r \in Slots : RequestInv(r)
  BY <1>2, <1>3 DEF RequestInv, DrawsToken, HasSession, UnfitIsSeen, Served, At,
     LoggingIn, Checking, Evaluating
<1> QED
  BY <1>4, <1>5, <1>6 DEF AuthInv

(* What is to show of a step of request r.                                 *)
OnlyRequest(r) ==
  /\ UNCHANGED <<seedVars, now>>
  /\ request' \in [Slots -> RequestRecord]
  /\ \A q \in Slots \ {r} : request'[q] = request[q] /\ held'[q] = held[q]
  /\ held' \in [Slots -> 0..2]

SessionsGrow(r) ==
  /\ session' \in [Tokens -> [email : Emails \cup {Nobody}, expiresAt : 0..MaxTime + Lifetime,
                              revoked : BOOLEAN]]
  /\ loggedOut \subseteq loggedOut' /\ loggedOut' \subseteq Tokens
  /\ \A t \in Tokens :
       /\ Issued(t) => /\ session'[t] # NoSession
                       /\ session'[t].email = session[t].email
                       /\ session'[t].expiresAt = session[t].expiresAt
                       /\ session[t].revoked => session'[t].revoked
       /\ ~Issued(t) /\ session'[t] # NoSession =>
            /\ At(r, "create session") /\ t = TokenOf(r)
            /\ session'[t].email \in Emails
       /\ t \in loggedOut' \ loggedOut => Issued(t) /\ session'[t].revoked

DrawsNoOther(r) ==
  request'[r].token \in Tokens =>
    \/ request'[r].token = TokenOf(r)
    \/ Issued(request'[r].token)
    \/ \A q \in Slots : TokenOf(q) # request'[r].token

LEMMA RequestStep ==
  ASSUME AuthInv, NEW r \in Slots, OnlyRequest(r), SessionsGrow(r), DrawsNoOther(r),
         RequestInv(r)'
  PROVE  AuthInv'
<1>1. users' = users /\ now' = now
  BY DEF OnlyRequest, seedVars
<1>2. AuthTypeOK'
  <2>1. SeedTypeOK'
    BY DEF OnlyRequest, seedVars, AuthInv, AuthTypeOK, SeedTypeOK
  <2> QED
    BY <2>1 DEF OnlyRequest, SessionsGrow, AuthInv, AuthTypeOK, RequestRecord
<1>3. LogoutsAreKept'
  <2> SUFFICES ASSUME NEW t \in Tokens
               PROVE  /\ t \in loggedOut' => session'[t] # NoSession /\ session'[t].revoked
                      /\ session'[t] # NoSession => session'[t].email \in Emails
    BY DEF LogoutsAreKept, Issued, NoSession
  <2>1. /\ t \in loggedOut => Issued(t) /\ session[t].revoked
        /\ Issued(t) => session[t].email \in Emails
    BY DEF AuthInv, LogoutsAreKept
  <2> QED
    BY <2>1 DEF SessionsGrow
<1>4. ASSUME NEW q \in Slots \ {r} PROVE RequestInv(q)'
  <2>1. request'[q] = request[q] /\ held'[q] = held[q]
    BY DEF OnlyRequest
  <2>2. RequestInv(q)
    BY DEF AuthInv
  <2>3. DrawsToken(q)'
    <3> SUFFICES ASSUME request[q].step \in LoggingIn
                 PROVE  /\ request[q].email \in Emails /\ request[q].token \in Tokens
                        /\ session'[request[q].token] = NoSession
                        /\ \A p \in Slots \ {q} : request'[p].token # request[q].token
      BY <2>1 DEF DrawsToken, TokenOf, Issued, LoggingIn, NoSession
    <3>1. /\ request[q].email \in Emails /\ request[q].token \in Tokens
          /\ ~Issued(request[q].token)
          /\ \A p \in Slots \ {q} : request[p].token # request[q].token
      BY <2>2 DEF RequestInv, DrawsToken, TokenOf
    <3>2. session'[request[q].token] = NoSession
      BY <3>1 DEF SessionsGrow, TokenOf
    <3>3. request'[r].token # request[q].token
      BY <3>1 DEF DrawsNoOther, TokenOf
    <3> QED
      BY <3>1, <3>2, <3>3 DEF OnlyRequest
  <2>4. HasSession(q)'
    BY <2>1, <2>2 DEF RequestInv, HasSession, SessionsGrow, Issued, TokenOf, NoSession, Checking
  <2>5. UnfitIsSeen(q)'
    <3>1. CASE request[q].step \notin {"resolve", "load user"}
      BY <2>1, <3>1 DEF UnfitIsSeen, At
    <3>2. CASE request[q].step \in {"resolve", "load user"}
      <4>1. TokenOf(q) \in Tokens /\ Issued(TokenOf(q))
        BY <2>2, <3>2 DEF RequestInv, HasSession, Checking
      <4>2. /\ session'[request[q].token].email = session[request[q].token].email
            /\ session'[request[q].token].expiresAt = session[request[q].token].expiresAt
            /\ loggedOut \subseteq loggedOut'
        BY <4>1 DEF SessionsGrow, TokenOf
      <4>3. UnfitIsSeen(q)
        BY <2>2 DEF RequestInv
      <4> QED
        BY <1>1, <2>1, <4>2, <4>3 DEF UnfitIsSeen, At, TokenOf, UserOf
    <3> QED
      BY <3>1, <3>2
  <2>6. Served(q)'
    BY <2>1, <2>2 DEF RequestInv, Served, At
  <2> QED
    BY <2>3, <2>4, <2>5, <2>6 DEF RequestInv
<1> QED
  BY <1>2, <1>3, <1>4 DEF AuthInv

-----------------------------------------------------------------------------
(* The columns of a request's record.                                      *)
LEMMA RequestColumns ==
  ASSUME AuthTypeOK, NEW r \in Slots
  PROVE  /\ request \in [Slots -> RequestRecord] /\ request[r] \in RequestRecord
         /\ held \in [Slots -> 0..2] /\ held[r] \in 0..2
         /\ UNCHANGED session => session' \in
              [Tokens -> [email : Emails \cup {Nobody}, expiresAt : 0..MaxTime + Lifetime,
                          revoked : BOOLEAN]]
BY DEF AuthTypeOK, RequestRecord

(* Most steps write no session.                                            *)
LEMMA SessionsStay ==
  ASSUME AuthInv, NEW r \in Slots, UNCHANGED <<session, loggedOut>>
  PROVE  SessionsGrow(r)
BY DEF AuthInv, AuthTypeOK, SessionsGrow, Issued

(* The end of a request, whatever its answer.                              *)
LEMMA EndKeeps ==
  ASSUME AuthInv, NEW r \in Slots, UNCHANGED <<seedVars, now>>,
         request' = [request EXCEPT ![r] = Idle], Release(r), SessionsGrow(r)
  PROVE  AuthInv'
<1>1. Idle \in RequestRecord /\ Idle.step = "idle" /\ Idle.token = Nobody
  BY DEF Idle, RequestRecord, Steps
<1>2. request'[r] = Idle /\ held'[r] = 0
  BY RequestColumns DEF AuthInv, Release
<1>3. OnlyRequest(r)
  BY <1>1, RequestColumns DEF AuthInv, OnlyRequest, Release
<1>4. DrawsNoOther(r)
  BY <1>1, <1>2, TokensAssumption DEF DrawsNoOther
<1>5. RequestInv(r)'
  BY <1>1, <1>2 DEF RequestInv, DrawsToken, HasSession, UnfitIsSeen, Served, At,
     LoggingIn, Checking, Evaluating
<1> QED
  BY <1>3, <1>4, <1>5, RequestStep

LEMMA EndStep ==
  ASSUME AuthInv, NEW r \in Slots, End(r)
  PROVE  AuthInv'
BY EndKeeps, SessionsStay DEF End, Rows

(* A statement of a first or second session takes at most a second one.    *)
LEMMA AtMostTwo == \A h \in 0..2, n \in 1..2 : (IF h < n THEN n ELSE h) \in 0..2
OBVIOUS

(* A step to the next statement: the record stays but for the step.        *)
MayMove(r, step) ==
  /\ step \in Steps \ {"idle", "resolve"}
  /\ step \in LoggingIn => request[r].step \in LoggingIn
  /\ step \in Checking \cup {"find session", "revoke"} =>
       request[r].step \in Checking \cup {"find session", "revoke"}
  /\ step = "load user" => At(r, "resolve")
  /\ step \in {"load user", "owned workspace"} \cup Evaluating => request[r].live
  /\ step \in {"owned workspace"} \cup Evaluating => request[r].enabled

LEMMA MovesOn ==
  ASSUME AuthInv, NEW r \in Slots, NEW step, MayMove(r, step),
         GoTo(r, step), UNCHANGED <<Rows, loggedOut>>,
         NEW h \in 0..2, held' = [held EXCEPT ![r] = h]
  PROVE  AuthInv'
<1> USE DEF MayMove
<1>1. request[r] \in RequestRecord
  BY RequestColumns DEF AuthInv
<1>2. request'[r] = [request[r] EXCEPT !.step = step]
  BY RequestColumns DEF AuthInv, GoTo
<1>3. /\ request'[r].step = step /\ request'[r].email = request[r].email
      /\ request'[r].token = request[r].token /\ request'[r].live = request[r].live
      /\ request'[r].enabled = request[r].enabled
  BY <1>1, <1>2 DEF RequestRecord
<1>4. OnlyRequest(r)
  <2>1. request' \in [Slots -> RequestRecord]
    BY <1>1, RequestColumns DEF AuthInv, GoTo, RequestRecord
  <2>2. held' \in [Slots -> 0..2]
    BY RequestColumns DEF AuthInv
  <2>3. \A q \in Slots \ {r} : request'[q] = request[q] /\ held'[q] = held[q]
    BY RequestColumns DEF AuthInv, GoTo
  <2> QED
    BY <2>1, <2>2, <2>3 DEF OnlyRequest, Rows
<1>5. DrawsNoOther(r)
  BY <1>3 DEF DrawsNoOther, TokenOf
<1>6. RequestInv(r)
  BY DEF AuthInv
<1>7. /\ session' = session /\ loggedOut' = loggedOut /\ users' = users /\ now' = now
  BY DEF Rows, seedVars
<1>8. \A q \in Slots \ {r} : request'[q].token = request[q].token
  BY <1>4 DEF OnlyRequest
<1>9. DrawsToken(r)'
  BY <1>3, <1>6, <1>7, <1>8 DEF RequestInv, DrawsToken, TokenOf, Issued
<1>10. HasSession(r)'
  BY <1>3, <1>6, <1>7 DEF RequestInv, HasSession, TokenOf, Issued
<1>11. UnfitIsSeen(r)'
  BY <1>3, <1>6, <1>7 DEF RequestInv, UnfitIsSeen, TokenOf, UserOf, At
<1>12. Served(r)'
  BY <1>3 DEF Served, At
<1> QED
  BY <1>4, <1>5, <1>7, <1>9, <1>10, <1>11, <1>12, SessionsStay, RequestStep DEF RequestInv

(* The connections a step takes, keeps or returns                          *)
LEMMA TakesConnections ==
  ASSUME AuthInv, NEW r \in Slots
  PROVE  /\ \A n \in 1..2 : Statement(r, n) => \E h \in 0..2 : held' = [held EXCEPT ![r] = h]
         /\ ReleaseSecond(r) => \E h \in 0..2 : held' = [held EXCEPT ![r] = h]
         /\ UNCHANGED held => \E h \in 0..2 : held' = [held EXCEPT ![r] = h]
<1>1. held \in [Slots -> 0..2] /\ held[r] \in 0..2
  BY RequestColumns DEF AuthInv
<1>2. ASSUME NEW n \in 1..2, Statement(r, n)
      PROVE  \E h \in 0..2 : held' = [held EXCEPT ![r] = h]
  <2> DEFINE h == IF held[r] < n THEN n ELSE held[r]
  <2>1. h \in 0..2
    BY <1>1, AtMostTwo, Zenon
  <2>2. held' = [held EXCEPT ![r] = h]
    BY <1>2 DEF Statement
  <2> QED
    BY <2>1, <2>2
<1>3. ASSUME ReleaseSecond(r)
      PROVE  \E h \in 0..2 : held' = [held EXCEPT ![r] = h]
  <2> DEFINE h == IF held[r] > 1 THEN 1 ELSE held[r]
  <2>1. h \in 0..2
    BY <1>1
  <2>2. held' = [held EXCEPT ![r] = h]
    BY <1>3 DEF ReleaseSecond
  <2> QED
    BY <2>1, <2>2
<1>4. ASSUME UNCHANGED held
      PROVE  \E h \in 0..2 : held' = [held EXCEPT ![r] = h]
  <2>1. held' = [held EXCEPT ![r] = held[r]]
    BY <1>1, <1>4
  <2> QED
    BY <1>1, <2>1
<1> QED
  BY <1>2, <1>3, <1>4

LEMMA ContinueKeeps ==
  ASSUME AuthInv, NEW r \in Slots, NEW step, MayMove(r, step), Continue(r, step)
  PROVE  AuthInv'
<1>1. 1 \in 1..2 /\ GoTo(r, step) /\ Statement(r, 1) /\ UNCHANGED <<Rows, loggedOut>>
  BY DEF Continue
<1>2. PICK h \in 0..2 : held' = [held EXCEPT ![r] = h]
  BY <1>1, TakesConnections
<1> QED
  BY <1>1, <1>2, MovesOn

LEMMA FindUserStep ==
  ASSUME AuthInv, NEW r \in Slots, FindUser(r)
  PROVE  AuthInv'
<1>1. CASE End(r)
  BY <1>1, EndStep
<1>2. CASE Continue(r, "create session")
  <2>1. MayMove(r, "create session")
    BY DEF FindUser, MayMove, At, Steps, LoggingIn, Checking, Evaluating
  <2> QED
    BY <1>2, <2>1, ContinueKeeps
<1> QED
  BY <1>1, <1>2 DEF FindUser

LEMMA FindSessionStep ==
  ASSUME AuthInv, NEW r \in Slots, FindSession(r)
  PROVE  AuthInv'
<1>1. CASE ~session[TokenOf(r)].revoked
  <2>1. Continue(r, "revoke") /\ At(r, "find session")
    BY <1>1 DEF FindSession
  <2>2. MayMove(r, "revoke")
    BY <2>1 DEF MayMove, At, Steps, LoggingIn, Checking, Evaluating
  <2> QED
    BY <2>1, <2>2, ContinueKeeps
<1>2. CASE session[TokenOf(r)].revoked
  <2>1. /\ request' = [request EXCEPT ![r] = Idle] /\ Release(r)
        /\ loggedOut' = loggedOut \cup {TokenOf(r)} /\ UNCHANGED Rows
    BY <1>2 DEF FindSession
  <2>2. TokenOf(r) \in Tokens /\ Issued(TokenOf(r))
    BY DEF AuthInv, RequestInv, HasSession, FindSession, At
  <2>3. SessionsGrow(r)
    BY <1>2, <2>1, <2>2 DEF AuthInv, AuthTypeOK, SessionsGrow, Rows, Issued
  <2> QED
    BY <2>1, <2>3, EndKeeps DEF Rows
<1> QED
  BY <1>1, <1>2

LEMMA RevokeStep ==
  ASSUME AuthInv, NEW r \in Slots, Revoke(r)
  PROVE  AuthInv'
<1>1. TokenOf(r) \in Tokens /\ Issued(TokenOf(r))
  BY DEF AuthInv, RequestInv, HasSession, Revoke, At
<1>2. SessionsGrow(r)
  <2>1. session \in [Tokens -> [email : Emails \cup {Nobody}, expiresAt : 0..MaxTime + Lifetime,
                                revoked : BOOLEAN]] /\ loggedOut \subseteq Tokens
    BY DEF AuthInv, AuthTypeOK
  <2>2. /\ session' = [session EXCEPT ![TokenOf(r)].revoked = TRUE]
        /\ loggedOut' = loggedOut \cup {TokenOf(r)}
    BY DEF Revoke
  <2>3. /\ session'[TokenOf(r)].email = session[TokenOf(r)].email
        /\ session'[TokenOf(r)].expiresAt = session[TokenOf(r)].expiresAt
        /\ session'[TokenOf(r)].revoked
        /\ \A t \in Tokens \ {TokenOf(r)} : session'[t] = session[t]
    BY <1>1, <2>1, <2>2
  <2>4. session'[TokenOf(r)] # NoSession
    BY <2>3 DEF NoSession
  <2>5. session' \in [Tokens -> [email : Emails \cup {Nobody}, expiresAt : 0..MaxTime + Lifetime,
                                 revoked : BOOLEAN]]
    BY <1>1, <2>1, <2>2
  <2> QED
    BY <1>1, <2>1, <2>2, <2>3, <2>4, <2>5 DEF SessionsGrow, Issued
<1> QED
  BY <1>2, EndKeeps DEF Revoke

LEMMA CreateSessionStep ==
  ASSUME AuthInv, NEW r \in Slots, CreateSession(r)
  PROVE  AuthInv'
<1> DEFINE new == [email |-> request[r].email, expiresAt |-> now + Lifetime, revoked |-> FALSE]
<1>1. /\ At(r, "create session") /\ GoTo(r, "workspaces") /\ Release(r)
      /\ session' = [session EXCEPT ![TokenOf(r)] = new]
      /\ UNCHANGED <<seedVars, now, loggedOut>>
  BY DEF CreateSession
<1>2. /\ request[r].email \in Emails /\ TokenOf(r) \in Tokens /\ ~Issued(TokenOf(r))
  BY <1>1 DEF AuthInv, RequestInv, DrawsToken, LoggingIn, At
<1>3. SessionsGrow(r)
  <2>1. session \in [Tokens -> [email : Emails \cup {Nobody}, expiresAt : 0..MaxTime + Lifetime,
                                revoked : BOOLEAN]] /\ loggedOut \subseteq Tokens
    BY DEF AuthInv, AuthTypeOK
  <2>2. now + Lifetime \in 0..MaxTime + Lifetime
    BY LifetimeAssumption DEF AuthInv, AuthTypeOK
  <2>3. /\ session'[TokenOf(r)].email \in Emails
        /\ \A t \in Tokens \ {TokenOf(r)} : session'[t] = session[t]
    BY <1>1, <1>2, <2>1
  <2>4. session' \in [Tokens -> [email : Emails \cup {Nobody}, expiresAt : 0..MaxTime + Lifetime,
                                 revoked : BOOLEAN]]
    BY <1>1, <1>2, <2>1, <2>2
  <2> QED
    BY <1>1, <1>2, <2>1, <2>3, <2>4 DEF SessionsGrow, Issued
<1>4. request[r] \in RequestRecord /\ request'[r] = [request[r] EXCEPT !.step = "workspaces"]
      /\ held'[r] = 0
  BY <1>1, RequestColumns DEF AuthInv, GoTo, Release
<1>5. OnlyRequest(r)
  <2>1. request' \in [Slots -> RequestRecord]
    <3>1. request \in [Slots -> RequestRecord] /\ request[r] \in RequestRecord
      BY RequestColumns DEF AuthInv
    <3>2. [request[r] EXCEPT !.step = "workspaces"] \in RequestRecord
      BY <3>1 DEF RequestRecord, Steps
    <3>3. request' = [request EXCEPT ![r] = [request[r] EXCEPT !.step = "workspaces"]]
      BY <1>1, <3>1 DEF GoTo
    <3> QED
      BY <3>1, <3>2, <3>3
  <2>2. held' \in [Slots -> 0..2]
    <3>1. held \in [Slots -> 0..2] /\ held' = [held EXCEPT ![r] = 0]
      BY <1>1, RequestColumns DEF AuthInv, Release
    <3> QED
      BY <3>1
  <2>3. \A q \in Slots \ {r} : request'[q] = request[q] /\ held'[q] = held[q]
    BY <1>1, RequestColumns DEF AuthInv, GoTo, Release
  <2> QED
    BY <1>1, <2>1, <2>2, <2>3 DEF OnlyRequest
<1>6. DrawsNoOther(r)
  BY <1>4 DEF DrawsNoOther, TokenOf, RequestRecord
<1>7. RequestInv(r)'
  <2>1. request'[r].step = "workspaces"
    BY <1>4 DEF RequestRecord
  <2> QED
    BY <2>1 DEF RequestInv, DrawsToken, HasSession, UnfitIsSeen, Served, At,
     LoggingIn, Checking, Evaluating
<1> QED
  BY <1>3, <1>5, <1>6, <1>7, RequestStep

(* Who is logged out at the check was so, or expired, when it began.       *)
LEMMA ResolveStep ==
  ASSUME AuthInv, NEW r \in Slots, Resolve(r)
  PROVE  AuthInv'
<1>1. CASE session[TokenOf(r)].revoked \/ session[TokenOf(r)].expiresAt <= now
  BY <1>1, EndStep DEF Resolve
<1>2. CASE ~(session[TokenOf(r)].revoked \/ session[TokenOf(r)].expiresAt <= now)
  <2>1. Continue(r, "load user") /\ At(r, "resolve")
    BY <1>2 DEF Resolve
  <2>2. TokenOf(r) \in Tokens /\ RequestInv(r)
    BY <2>1 DEF AuthInv, RequestInv, HasSession, At, Checking
  <2>3. TokenOf(r) \notin loggedOut
    BY <1>2, <2>2 DEF AuthInv, LogoutsAreKept
  <2>4. request[r].live
    BY <1>2, <2>1, <2>2, <2>3 DEF RequestInv, UnfitIsSeen
  <2>5. MayMove(r, "load user")
    BY <2>1, <2>4 DEF MayMove, At, Steps, LoggingIn, Checking, Evaluating
  <2> QED
    BY <2>1, <2>5, ContinueKeeps
<1> QED
  BY <1>1, <1>2

LEMMA LoadUserStep ==
  ASSUME AuthInv, NEW r \in Slots, LoadUser(r)
  PROVE  AuthInv'
<1>1. CASE users[UserOf(r)].disabled
  BY <1>1, EndStep DEF LoadUser
<1>2. CASE ~users[UserOf(r)].disabled
  <2>1. Continue(r, "owned workspace") /\ At(r, "load user")
    BY <1>2 DEF LoadUser
  <2>2. request[r].live /\ request[r].enabled
    BY <1>2, <2>1 DEF AuthInv, RequestInv, UnfitIsSeen, Served, At
  <2>3. MayMove(r, "owned workspace")
    BY <2>1, <2>2 DEF MayMove, At, Steps, LoggingIn, Checking, Evaluating
  <2> QED
    BY <2>1, <2>3, ContinueKeeps
<1> QED
  BY <1>1, <1>2

LEMMA OwnedWorkspaceStep ==
  ASSUME AuthInv, NEW r \in Slots, OwnedWorkspace(r)
  PROVE  AuthInv'
<1> DEFINE step == IF request[r].quality THEN "quality" ELSE "workspaces"
<1>1. CASE End(r)
  BY <1>1, EndStep
<1>2. CASE Continue(r, step)
  <2>1. request[r].live /\ request[r].enabled
    BY DEF AuthInv, RequestInv, Served, OwnedWorkspace, At
  <2>2. MayMove(r, step)
    BY <2>1 DEF OwnedWorkspace, MayMove, At, Steps, LoggingIn, Checking, Evaluating
  <2> HIDE DEF step
  <2> QED
    BY <1>2, <2>2, ContinueKeeps
<1> QED
  BY <1>1, <1>2 DEF OwnedWorkspace

LEMMA OpenQualityStep ==
  ASSUME AuthInv, NEW r \in Slots, OpenQuality(r)
  PROVE  AuthInv'
<1>1. request[r].live /\ request[r].enabled
  BY DEF AuthInv, RequestInv, Served, Evaluating, OpenQuality, At
<1>2. MayMove(r, "evaluate")
  BY <1>1 DEF OpenQuality, MayMove, At, Steps, LoggingIn, Checking, Evaluating
<1>3. PICK h \in 0..2 : held' = [held EXCEPT ![r] = h]
  BY TakesConnections DEF OpenQuality
<1> QED
  BY <1>2, <1>3, MovesOn DEF OpenQuality

(* The upsert and the reading after it: a step of a request that has passed*)
(* its checks.                                                             *)
LEMMA EvaluationStep ==
  ASSUME AuthInv, NEW r \in Slots, UpsertCandles(r) \/ RereadCandles(r) \/ RereadTimeout(r)
  PROVE  AuthInv'
<1>1. request[r].step \in Evaluating
  BY DEF UpsertCandles, RereadCandles, RereadTimeout, At, Evaluating
<1>2. request[r].live /\ request[r].enabled
  BY <1>1 DEF AuthInv, RequestInv, Served
<1>3. PICK step \in {"reread", "report"} : GoTo(r, step)
  BY DEF UpsertCandles, RereadCandles, RereadTimeout
<1>4. MayMove(r, step)
  BY <1>1, <1>2, <1>3 DEF MayMove, Steps, LoggingIn, Checking, Evaluating
<1>5. PICK h \in 0..2 : held' = [held EXCEPT ![r] = h]
  BY TakesConnections DEF UpsertCandles, RereadCandles, RereadTimeout
<1> QED
  BY <1>3, <1>4, <1>5, MovesOn DEF UpsertCandles, RereadCandles, RereadTimeout

(* The beginning of a request: a record of its own, before any statement.  *)
LEMMA Begins ==
  ASSUME AuthInv, NEW r \in Slots, At(r, "idle"), NEW begun \in RequestRecord,
         request' = [request EXCEPT ![r] = begun], UNCHANGED <<Rows, loggedOut, held>>,
         DrawsNoOther(r), RequestInv(r)'
  PROVE  AuthInv'
<1>1. OnlyRequest(r)
  BY RequestColumns DEF AuthInv, OnlyRequest, Rows
<1>2. SessionsGrow(r)
  BY SessionsStay DEF Rows
<1> QED
  BY <1>1, <1>2, RequestStep

LEMMA BeginLoginStep ==
  ASSUME AuthInv, NEW r \in Slots, BeginLogin(r)
  PROVE  AuthInv'
<1> PICK e \in Emails, t \in Tokens :
      /\ IsFresh(t)
      /\ request' = [request EXCEPT ![r] =
           [Idle EXCEPT !.step = "find user", !.email = e, !.token = t]]
  BY DEF BeginLogin
<1> DEFINE begun == [Idle EXCEPT !.step = "find user", !.email = e, !.token = t]
<1>1. /\ begun \in RequestRecord
      /\ begun.step = "find user" /\ begun.email = e /\ begun.token = t
  BY DEF Idle, RequestRecord, Steps
<1>2. request'[r] = begun /\ \A q \in Slots \ {r} : request'[q] = request[q]
  BY RequestColumns DEF AuthInv
<1> HIDE DEF begun
<1>3. ~Issued(t) /\ (\A q \in Slots : request[q].token # t) /\ session' = session
  BY DEF IsFresh, TokenOf, BeginLogin, Rows
<1>4. DrawsNoOther(r)
  BY <1>1, <1>2, <1>3 DEF DrawsNoOther, TokenOf
<1>5. RequestInv(r)'
  BY <1>1, <1>2, <1>3 DEF RequestInv, DrawsToken, HasSession, UnfitIsSeen, Served, Evaluating, At,
     LoggingIn, Checking, TokenOf, Issued
<1> QED
  BY <1>1, <1>4, <1>5, Begins DEF BeginLogin, begun

LEMMA BeginLogoutStep ==
  ASSUME AuthInv, NEW r \in Slots, BeginLogout(r)
  PROVE  AuthInv'
<1> PICK t \in Tokens :
      /\ Issued(t)
      /\ request' = [request EXCEPT ![r] = [Idle EXCEPT !.step = "find session", !.token = t]]
  BY DEF BeginLogout
<1> DEFINE begun == [Idle EXCEPT !.step = "find session", !.token = t]
<1>1. begun \in RequestRecord /\ begun.step = "find session" /\ begun.token = t
  BY DEF Idle, RequestRecord, Steps
<1>2. request'[r] = begun
  BY RequestColumns DEF AuthInv
<1> HIDE DEF begun
<1>3. session' = session
  BY DEF BeginLogout, Rows
<1>4. DrawsNoOther(r)
  BY <1>1, <1>2 DEF DrawsNoOther
<1>5. RequestInv(r)'
  BY <1>1, <1>2, <1>3 DEF RequestInv, DrawsToken, HasSession, UnfitIsSeen, Served, Evaluating, At,
     LoggingIn, Checking, TokenOf, Issued
<1> QED
  BY <1>1, <1>4, <1>5, Begins DEF BeginLogout, begun

LEMMA BeginRequestStep ==
  ASSUME AuthInv, NEW r \in Slots, BeginRequest(r)
  PROVE  AuthInv'
<1> PICK t \in Tokens, quality \in BOOLEAN :
      /\ Issued(t)
      /\ request' = [request EXCEPT ![r] =
            [Idle EXCEPT !.step = "resolve", !.token = t, !.quality = quality,
                         !.live = t \notin loggedOut /\ now < session[t].expiresAt,
                         !.enabled = ~users[session[t].email].disabled]]
  BY DEF BeginRequest
<1> DEFINE live == t \notin loggedOut /\ now < session[t].expiresAt
           enabled == ~users[session[t].email].disabled
           begun == [Idle EXCEPT !.step = "resolve", !.token = t, !.quality = quality,
                                 !.live = live, !.enabled = enabled]
<1>1. live \in BOOLEAN /\ enabled \in BOOLEAN
  OBVIOUS
<1>2. request' = [request EXCEPT ![r] = begun]
  OBVIOUS
<1>3. live \/ t \in loggedOut \/ session[t].expiresAt <= now
  BY LifetimeAssumption DEF AuthInv, AuthTypeOK
<1>4. enabled \/ users[session[t].email].disabled
  OBVIOUS
<1> HIDE DEF live, enabled
<1>5. /\ begun \in RequestRecord /\ begun.step = "resolve" /\ begun.token = t
      /\ begun.live = live /\ begun.enabled = enabled
  BY <1>1 DEF Idle, RequestRecord, Steps
<1> HIDE DEF begun
<1>6. request'[r] = begun
  BY <1>2, RequestColumns DEF AuthInv
<1>7. session' = session /\ loggedOut' = loggedOut /\ now' = now /\ users' = users
  BY DEF BeginRequest, Rows, seedVars
<1>8. DrawsNoOther(r)
  BY <1>5, <1>6 DEF DrawsNoOther
<1>9. RequestInv(r)'
  <2>1. /\ request'[r].step = "resolve" /\ request'[r].token = t
        /\ request'[r].live = live /\ request'[r].enabled = enabled
    BY <1>5, <1>6
  <2>2. DrawsToken(r)' /\ Served(r)'
    BY <2>1 DEF DrawsToken, Served, Evaluating, At, LoggingIn
  <2>3. HasSession(r)'
    BY <1>7, <2>1 DEF HasSession, TokenOf, Issued
  <2>4. UnfitIsSeen(r)'
    <3>1. live \/ t \in loggedOut' \/ session'[t].expiresAt <= now'
      BY <1>3, <1>7
    <3>2. enabled \/ users'[session'[t].email].disabled
      BY <1>4, <1>7
    <3> QED
      BY <2>1, <3>1, <3>2, Zenon DEF UnfitIsSeen, At, TokenOf, UserOf
  <2> QED
    BY <2>2, <2>3, <2>4 DEF RequestInv
<1> QED
  BY <1>2, <1>5, <1>8, <1>9, Begins DEF BeginRequest

-----------------------------------------------------------------------------
(* The clock makes sessions expire, never the contrary.                    *)
LEMMA AuthTickKeeps ==
  ASSUME AuthInv, Tick
  PROVE  AuthInv'
<1>1. now \in Nat /\ now' = now + 1 /\ now' \in 0..MaxTime
      /\ UNCHANGED <<users, held, session, loggedOut, request>>
  BY LifetimeAssumption DEF AuthInv, AuthTypeOK, Tick, seedVars
<1>2. AuthTypeOK'
  BY <1>1 DEF AuthInv, AuthTypeOK, Tick, SeedTypeOK, seedVars
<1>3. LogoutsAreKept'
  BY <1>1 DEF AuthInv, LogoutsAreKept, Issued
<1>4. ASSUME NEW r \in Slots PROVE RequestInv(r)'
  <2>1. RequestInv(r)
    BY DEF AuthInv
  <2>2. DrawsToken(r)' /\ HasSession(r)' /\ Served(r)'
    BY <1>1, <2>1 DEF RequestInv, DrawsToken, HasSession, Served, TokenOf, Issued, At
  <2>3. At(r, "resolve") /\ session[TokenOf(r)].expiresAt <= now =>
          session[TokenOf(r)].expiresAt <= now'
    <3> SUFFICES ASSUME At(r, "resolve"), session[TokenOf(r)].expiresAt <= now
                 PROVE  session[TokenOf(r)].expiresAt <= now'
      OBVIOUS
    <3>1. TokenOf(r) \in Tokens
      BY <2>1 DEF RequestInv, HasSession, At, Checking
    <3>2. session[TokenOf(r)].expiresAt \in Nat
      BY <3>1, LifetimeAssumption DEF AuthInv, AuthTypeOK
    <3> QED
      BY <1>1, <3>2
  <2>4. UnfitIsSeen(r)'
    BY <1>1, <2>1, <2>3 DEF RequestInv, UnfitIsSeen, TokenOf, UserOf, At
  <2> QED
    BY <2>2, <2>4 DEF RequestInv
<1> QED
  BY <1>2, <1>3, <1>4 DEF AuthInv

(* A seed command may enable the user of a request under way.              *)
LEMMA BesideKeeps ==
  ASSUME AuthInv, SeedTypeOK', Beside
  PROVE  AuthInv'
<1> DEFINE Unmarked(r) == At(r, "idle") \/ TokenOf(r) = Nobody \/ ~Issued(TokenOf(r))
<1>1. /\ UNCHANGED <<held, now, session, loggedOut>>
      /\ \A r \in Slots :
           request'[r] = IF Unmarked(r) THEN request[r]
                         ELSE [request[r] EXCEPT !.enabled = @ \/ ~users'[UserOf(r)].disabled]
      /\ request' = [r \in Slots |-> request'[r]]
  BY DEF Beside
<1> HIDE DEF Unmarked
<1>2. ASSUME NEW r \in Slots
      PROVE  /\ request'[r] \in RequestRecord
             /\ request'[r].step = request[r].step /\ request'[r].email = request[r].email
             /\ request'[r].token = request[r].token /\ request'[r].live = request[r].live
             /\ Unmarked(r) \/ request'[r].enabled = (request[r].enabled \/ ~users'[UserOf(r)].disabled)
             /\ request[r].enabled => request'[r].enabled
  <2>1. request[r] \in RequestRecord
    BY RequestColumns DEF AuthInv
  <2>2. CASE Unmarked(r)
    BY <1>1, <2>1, <2>2
  <2>3. CASE ~Unmarked(r)
    <3> DEFINE e == request[r].enabled \/ ~users'[UserOf(r)].disabled
    <3>1. e \in BOOLEAN /\ request'[r] = [request[r] EXCEPT !.enabled = e]
      BY <1>1, <2>1, <2>3
    <3>2. request[r].enabled => e
      OBVIOUS
    <3> HIDE DEF e
    <3>3. /\ request'[r] \in RequestRecord /\ request'[r].enabled = e
          /\ request'[r].step = request[r].step /\ request'[r].email = request[r].email
          /\ request'[r].token = request[r].token /\ request'[r].live = request[r].live
      BY <2>1, <3>1 DEF RequestRecord
    <3> QED
      BY <3>2, <3>3 DEF e
  <2> QED
    BY <2>2, <2>3
<1>3. AuthTypeOK'
  BY <1>1, <1>2 DEF AuthInv, AuthTypeOK, RequestRecord
<1>4. LogoutsAreKept'
  BY <1>1 DEF AuthInv, LogoutsAreKept, Issued
<1>5. ASSUME NEW r \in Slots PROVE RequestInv(r)'
  <2>1. RequestInv(r)
    BY DEF AuthInv
  <2>2. DrawsToken(r)'
    BY <1>1, <1>2, <2>1 DEF RequestInv, DrawsToken, TokenOf, Issued
  <2>3. HasSession(r)'
    BY <1>1, <1>2, <2>1 DEF RequestInv, HasSession, TokenOf, Issued
  <2>4. Served(r)'
    BY <1>1, <1>2, <2>1 DEF RequestInv, Served, At
  <2>5. ASSUME request[r].step \in {"resolve", "load user"}
        PROVE  request'[r].enabled \/ users'[UserOf(r)].disabled
    <3>1. ~Unmarked(r)
      BY <2>1, <2>5, TokensAssumption DEF Unmarked, RequestInv, HasSession, Checking, At
    <3> QED
      BY <1>2, <3>1
  <2>6. UnfitIsSeen(r)'
    BY <1>1, <1>2, <2>1, <2>5 DEF RequestInv, UnfitIsSeen, TokenOf, UserOf, At
  <2> QED
    BY <2>2, <2>3, <2>4, <2>6 DEF RequestInv
<1> QED
  BY <1>3, <1>4, <1>5 DEF AuthInv

LEMMA AuthDisableKeeps ==
  ASSUME AuthInv, SeedTypeOK', NEW e \in Emails, Disable(e)
  PROVE  AuthInv'
<1>1. UNCHANGED <<held, now, session, loggedOut, request>>
      /\ users' = [users EXCEPT ![e].disabled = TRUE]
  BY DEF Disable, DisableUser, authVars
<1>2. AuthTypeOK' /\ LogoutsAreKept'
  BY <1>1 DEF AuthInv, AuthTypeOK, LogoutsAreKept, Issued
<1>3. \A f \in Emails : users[f].disabled => users'[f].disabled
  BY <1>1 DEF AuthInv, AuthTypeOK, SeedTypeOK
<1>4. ASSUME NEW r \in Slots PROVE RequestInv(r)'
  <2>1. RequestInv(r)
    BY DEF AuthInv
  <2>2. DrawsToken(r)' /\ HasSession(r)' /\ Served(r)'
    BY <1>1, <2>1 DEF RequestInv, DrawsToken, HasSession, Served, TokenOf, Issued, At
  <2>3. request[r].step \in {"resolve", "load user"} => UserOf(r) \in Emails
    BY <2>1 DEF RequestInv, HasSession, Checking, AuthInv, LogoutsAreKept, UserOf
  <2>4. UnfitIsSeen(r)'
    BY <1>1, <1>3, <2>1, <2>3 DEF RequestInv, UnfitIsSeen, TokenOf, UserOf, At
  <2> QED
    BY <2>2, <2>4 DEF RequestInv
<1> QED
  BY <1>2, <1>4 DEF AuthInv

LEMMA AuthNextKeeps == AuthInv /\ SeedTypeOK' /\ [AuthNext]_vars => AuthInv'
<1> SUFFICES ASSUME AuthInv, SeedTypeOK', [AuthNext]_vars PROVE AuthInv'
  OBVIOUS
<1>1. CASE Tick
  BY <1>1, AuthTickKeeps
<1>2. ASSUME NEW r \in Slots, Begin(r) PROVE AuthInv'
  BY <1>2, BeginLoginStep, BeginLogoutStep, BeginRequestStep DEF Begin
<1>3. ASSUME NEW r \in Slots, Proceed(r) PROVE AuthInv'
  <2>1. LoadWorkspaces(r) \/ EvaluateQuality(r) \/ AnswerQuality(r) \/ PoolTimeout(r) => End(r)
    BY DEF LoadWorkspaces, EvaluateQuality, AnswerQuality, PoolTimeout
  <2> QED
    BY <1>3, <2>1, EndStep, FindUserStep, CreateSessionStep, FindSessionStep, RevokeStep,
       ResolveStep, LoadUserStep, OwnedWorkspaceStep, OpenQualityStep, EvaluationStep DEF Proceed
<1>4. ASSUME NEW s \in Seeds, Seed(s) \/ SeedBreaks(s) PROVE AuthInv'
  BY <1>4, BesideKeeps DEF Seed, SeedBreaks
<1>5. ASSUME NEW e \in Emails, Disable(e) PROVE AuthInv'
  BY <1>5, AuthDisableKeeps
<1>6. CASE UNCHANGED vars
  <2>1. UNCHANGED <<users, held, now, session, loggedOut, request>>
    BY <1>6 DEF vars, authVars, seedVars
  <2>2. \A r \in Slots : RequestInv(r)'
    BY <2>1 DEF AuthInv, RequestInv, DrawsToken, HasSession, UnfitIsSeen, Served, TokenOf,
       UserOf, Issued, At
  <2> QED
    BY <2>1, <2>2 DEF AuthInv, AuthTypeOK, LogoutsAreKept, Issued
<1> QED
  BY <1>1, <1>2, <1>3, <1>4, <1>5, <1>6 DEF AuthNext

(* The seed commands run beside the requests as they do alone: they stay   *)
(* atomic, whoever logs in, works and logs out meanwhile.                  *)
THEOREM SeedsBesideSessions == AuthSpec => [](SeedInv /\ SeedsAreAtomic)
<1>1. AuthSpec => SeedSpec
  BY SeedsBesideRequests, PTL DEF AuthSpec, SeedSpec
<1> QED
  BY <1>1, SeedInvariant, SeedCommandsAreAtomic, PTL

THEOREM AuthInvariant == AuthSpec => []AuthInv
<1>1. SeedInv' => SeedTypeOK'
  BY DEF SeedInv
<1> QED
  BY <1>1, SeedsBesideSessions, AuthInitially, AuthNextKeeps, PTL DEF AuthSpec

(* After the answer to a logout, the end of its session or the disabling   *)
(* of its user no request that begins is served.                           *)
THEOREM OnlySessionsAreServed == AuthSpec => []ServedOnlyWhileLoggedIn
<1>1. AuthInv => ServedOnlyWhileLoggedIn
  BY DEF AuthInv, RequestInv, Served, ServedOnlyWhileLoggedIn
<1> QED
  BY <1>1, AuthInvariant, PTL

(* When requests starve each other every connection is the first one of a  *)
(* quality request that waits for its second one, to read its inputs or to *)
(* read again what its upsert has committed.                               *)
THEOREM OnlyQualityStarves == AuthSpec => []StarvedByQualityOnly
<1>1. ASSUME AuthInv PROVE StarvedByQualityOnly
  <2>1. \A r \in Slots : At(r, "idle") => held[r] = 0
    BY <1>1 DEF AuthInv, RequestInv, Served
  <2>2. ASSUME Starved
        PROVE  Cardinality(WaitForSecond) = PoolSize
    <3> DEFINE Q == WaitForSecond
               first == [r \in Q |-> <<r, 1>>]
    <3>1. \A r \in Slots : held[r] \in 0..2 /\ (held[r] > 0 => r \in Q)
      BY <1>1, <2>2 DEF AuthInv, AuthTypeOK, Starved, WaitsForConnection, WaitForSecond
    <3>2. Q \subseteq Slots /\ \A r \in Q : held[r] = 1
      BY DEF WaitForSecond
    <3>3. Taken = {<<r, 1>> : r \in Q}
      <4> HIDE DEF Q
      <4> QED
        BY <3>1, <3>2 DEF Taken
    <3>4. first \in Bijection(Q, Taken)
      BY <3>3 DEF Bijection, Injection, Surjection, IsInjective
    <3>5. IsFiniteSet(Q)
      BY SlotsAssumption, FS_Subset DEF WaitForSecond
    <3>6. Cardinality(Taken) = Cardinality(Q) /\ Cardinality(Q) \in Nat
      BY <3>4, <3>5, FS_Bijection, FS_CardinalityType DEF ExistsBijection
    <3>7. PoolSize - Cardinality(Taken) = 0
      BY <2>2 DEF Starved, Free
    <3> HIDE DEF Q
    <3>8. Cardinality(Q) = PoolSize
      BY <3>6, <3>7, PoolAssumption
    <3> QED
      BY <3>8 DEF Q
  <2> QED
    BY <2>1, <2>2 DEF StarvedByQualityOnly
<1> QED
  BY <1>1, AuthInvariant, PTL
=============================================================================
