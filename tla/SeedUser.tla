------------------------------- MODULE SeedUser -------------------------------
(***************************************************************************)
(* upsert_seed_user: the command that creates or updates a user and a      *)
(* workspace in one transaction.  Several commands may run at once; each   *)
(* SELECT reads what is committed, each write waits for the transaction    *)
(* that has written the same row or inserted the same key.                 *)
(***************************************************************************)
EXTENDS Integers

CONSTANTS
  Emails,      \* normalised
  Slugs,       \* of workspaces
  Seeds,       \* runs of the command, each with a password of its own
  FirstOwner,  \* the owner of each workspace at first, Nobody for none
  Nobody

ASSUME NobodyAssumption == Nobody \notin Emails \cup Seeds
ASSUME FirstOwnerAssumption == FirstOwner \in [Slugs -> Emails \cup {Nobody}]

VARIABLES
  users,     \* the committed users by email
  owner,     \* of the committed workspaces by slug
  userLock,  \* who has written the user or inserted the email
  slugLock,  \* the same of the workspaces
  seed       \* what each run of the command does

seedVars == <<users, owner, userLock, slugLock, seed>>

NoUser == [password |-> Nobody, disabled |-> FALSE]
Known(email) == users[email] # NoUser

SeedSteps ==
  {"new", "find user", "insert user", "find workspace", "update user",
   "write workspace", "commit", "done", "failed"}

NewSeed == [step |-> "new", email |-> Nobody, slug |-> Nobody, isNew |-> FALSE,
            sawDisabled |-> FALSE, inserts |-> FALSE]

SeedRecord ==
  [step : SeedSteps, email : Emails \cup {Nobody}, slug : Slugs \cup {Nobody},
   isNew : BOOLEAN, sawDisabled : BOOLEAN, inserts : BOOLEAN]

SeedTypeOK ==
  /\ users \in [Emails -> [password : Seeds \cup Emails \cup {Nobody}, disabled : BOOLEAN]]
  /\ owner \in [Slugs -> Emails \cup {Nobody}]
  /\ userLock \in [Emails -> Seeds \cup {Nobody}]
  /\ slugLock \in [Slugs -> Seeds \cup {Nobody}]
  /\ seed \in [Seeds -> SeedRecord]
  /\ \A s \in Seeds : seed[s].step \notin {"new", "failed"} =>
       seed[s].email \in Emails /\ seed[s].slug \in Slugs

(* The first users have a password of their own, named by their email.     *)
SeedInit ==
  /\ users = [e \in Emails |->
       IF \E g \in Slugs : FirstOwner[g] = e THEN [password |-> e, disabled |-> FALSE]
       ELSE NoUser]
  /\ owner = FirstOwner
  /\ userLock = [e \in Emails |-> Nobody]
  /\ slugLock = [g \in Slugs |-> Nobody]
  /\ seed = [s \in Seeds |-> NewSeed]

SeedAt(s, step) == seed[s].step = step
MoveTo(s, step) == seed' = [seed EXCEPT ![s].step = step]

-----------------------------------------------------------------------------
(* _required_env, _require_workspace_slug and the empty workspace name are *)
(* refused before the first statement.                                     *)
StartSeed(s) ==
  /\ SeedAt(s, "new")
  /\ \/ \E e \in Emails, g \in Slugs :
          seed' = [seed EXCEPT ![s] = [NewSeed EXCEPT !.step = "find user", !.email = e,
                                                      !.slug = g]]
     \/ MoveTo(s, "failed")
  /\ UNCHANGED <<users, owner, userLock, slugLock>>

FindSeedUser(s) ==
  /\ SeedAt(s, "find user")
  /\ seed' = [seed EXCEPT
       ![s].step = IF Known(seed[s].email) THEN "find workspace" ELSE "insert user",
       ![s].isNew = ~Known(seed[s].email),
       ![s].sawDisabled = users[seed[s].email].disabled]
  /\ UNCHANGED <<users, owner, userLock, slugLock>>

(* Wrong variant: the transaction stays open.                              *)
FailSeedKeepingLocks(s) ==
  /\ MoveTo(s, "failed")
  /\ UNCHANGED <<users, owner, userLock, slugLock>>

(* Rollback: by the handler of AuthRepositoryError, or by the end of the   *)
(* session after any other error.                                          *)
FailSeed(s) ==
  /\ userLock' = [e \in Emails |-> IF userLock[e] = s THEN Nobody ELSE userLock[e]]
  /\ slugLock' = [g \in Slugs |-> IF slugLock[g] = s THEN Nobody ELSE slugLock[g]]
  /\ MoveTo(s, "failed")
  /\ UNCHANGED <<users, owner>>

(* Wrong variant: the user is committed before the workspace is looked up. *)
InsertUserCommitted(s) ==
  /\ SeedAt(s, "insert user") /\ userLock[seed[s].email] = Nobody
  /\ ~Known(seed[s].email)
  /\ users' = [users EXCEPT ![seed[s].email] = [password |-> s, disabled |-> FALSE]]
  /\ MoveTo(s, "find workspace")
  /\ UNCHANGED <<owner, userLock, slugLock>>

(* The flush after session.add(user); uq_users_email refuses a second one. *)
InsertUser(s) ==
  /\ SeedAt(s, "insert user") /\ userLock[seed[s].email] = Nobody
  /\ IF Known(seed[s].email) THEN FailSeed(s)
     ELSE /\ userLock' = [userLock EXCEPT ![seed[s].email] = s]
          /\ MoveTo(s, "find workspace")
          /\ UNCHANGED <<users, owner, slugLock>>

FindWorkspace(s) ==
  /\ SeedAt(s, "find workspace")
  /\ IF owner[seed[s].slug] \in {Nobody, seed[s].email}
       THEN /\ seed' = [seed EXCEPT
                 ![s].step = IF seed[s].isNew THEN "write workspace" ELSE "update user",
                 ![s].inserts = owner[seed[s].slug] = Nobody]
            /\ UNCHANGED <<users, owner, userLock, slugLock>>
       ELSE FailSeed(s)

(* The flush writes the changed user before the workspace.                 *)
UpdateUser(s) ==
  /\ SeedAt(s, "update user") /\ userLock[seed[s].email] = Nobody
  /\ userLock' = [userLock EXCEPT ![seed[s].email] = s]
  /\ MoveTo(s, "write workspace")
  /\ UNCHANGED <<users, owner, slugLock>>

(* INSERT, which uq_workspaces_slug may refuse, or UPDATE                  *)
WriteWorkspace(s) ==
  /\ SeedAt(s, "write workspace") /\ slugLock[seed[s].slug] = Nobody
  /\ IF seed[s].inserts /\ owner[seed[s].slug] # Nobody THEN FailSeed(s)
     ELSE /\ slugLock' = [slugLock EXCEPT ![seed[s].slug] = s]
          /\ MoveTo(s, "commit")
          /\ UNCHANGED <<users, owner, userLock>>

(* The UPDATE names only what changed since the user was read: disabled is *)
(* reset when it was seen.                                                 *)
CommitSeed(s) ==
  /\ SeedAt(s, "commit")
  /\ users' = [users EXCEPT ![seed[s].email] =
       [password |-> s, disabled |-> @.disabled /\ ~seed[s].sawDisabled]]
  /\ owner' = IF seed[s].inserts THEN [owner EXCEPT ![seed[s].slug] = seed[s].email]
              ELSE owner
  /\ userLock' = [userLock EXCEPT ![seed[s].email] = Nobody]
  /\ slugLock' = [slugLock EXCEPT ![seed[s].slug] = Nobody]
  /\ MoveTo(s, "done")

SeedFails(s) ==
  /\ seed[s].step \notin {"new", "done", "failed"}
  /\ FailSeed(s)

(* Someone disables a user in the database; no code of the system does.    *)
DisableUser(e) ==
  /\ Known(e) /\ ~users[e].disabled /\ userLock[e] = Nobody
  /\ users' = [users EXCEPT ![e].disabled = TRUE]
  /\ UNCHANGED <<owner, userLock, slugLock, seed>>

(* All but the commit, which AuthSessions has to see                       *)
BeforeCommit(s) ==
  \/ StartSeed(s) \/ FindSeedUser(s) \/ InsertUser(s) \/ FindWorkspace(s)
  \/ UpdateUser(s) \/ WriteWorkspace(s)

RunSeed(s) == BeforeCommit(s) \/ CommitSeed(s)

SeedNext ==
  \/ \E s \in Seeds : RunSeed(s) \/ SeedFails(s)
  \/ \E e \in Emails : DisableUser(e)

SeedSpec == SeedInit /\ [][SeedNext]_seedVars

-----------------------------------------------------------------------------
(* A seed command does all it says or nothing: after one that succeeded    *)
(* its user owns its workspace, every password is the first one or that of *)
(* a command that succeeded, and no command takes a workspace from the     *)
(* user who owns it, whatever runs beside it.                              *)
Succeeded == {s \in Seeds : SeedAt(s, "done")}

SeedsTookEffect ==
  \A s \in Succeeded : Known(seed[s].email) /\ owner[seed[s].slug] = seed[s].email

PasswordsAreOfSeeds ==
  \A e \in Emails : Known(e) =>
    \/ users[e].password = e
    \/ \E s \in Succeeded : users[e].password = s /\ seed[s].email = e

WorkspacesAreKept ==
  \A g \in Slugs :
    /\ FirstOwner[g] # Nobody => owner[g] = FirstOwner[g]
    /\ owner[g] # FirstOwner[g] => \E s \in Succeeded : seed[s].slug = g

SeedsAreAtomic == SeedsTookEffect /\ PasswordsAreOfSeeds /\ WorkspacesAreKept

(* The inductive invariant: who has a lock is past that write and not yet  *)
(* past the end, and a command past its writes still finds what it read.   *)
IsNew(s) == seed[s].isNew
Inserts(s) == seed[s].inserts

HoldsUser(s, e) ==
  /\ seed[s].email = e
  /\ \/ seed[s].step \in {"write workspace", "commit"}
     \/ SeedAt(s, "find workspace") /\ IsNew(s)

HoldsSlug(s, g) == seed[s].slug = g /\ SeedAt(s, "commit")

HoldsRows(s) ==
  /\ SeedAt(s, "insert user") => IsNew(s)
  /\ \/ seed[s].step \in {"write workspace", "commit"}
     \/ SeedAt(s, "find workspace") /\ IsNew(s)
     => userLock[seed[s].email] = s
  /\ SeedAt(s, "commit") => slugLock[seed[s].slug] = s
  /\ SeedAt(s, "commit") /\ Inserts(s) => owner[seed[s].slug] = Nobody
  /\ seed[s].step \in {"update user", "write workspace", "commit"} /\ ~Inserts(s)
       => owner[seed[s].slug] = seed[s].email

SeedInv ==
  /\ SeedTypeOK
  /\ SeedsAreAtomic
  /\ \A s \in Seeds, e \in Emails : userLock[e] = s => HoldsUser(s, e)
  /\ \A s \in Seeds, g \in Slugs : slugLock[g] = s => HoldsSlug(s, g)
  /\ \A s \in Seeds : HoldsRows(s)
=============================================================================
