--------------------------- MODULE EncryptedProofs ----------------------------
(***************************************************************************)
(* Proofs about the encrypted path: MembershipChain for all teams, devices *)
(* and bounds, EncryptedTaskLog for any number of records and losses,      *)
(* EncryptedHost for all concerns, EncryptedRun for all orders people send, *)
(* and the shapes of the whole path.                                       *)
(*                                                                         *)
(* In EncryptedRun, what the relay has, what is saved as pending and what  *)
(* a turn has still to send are treated alike: an entry is out as soon as  *)
(* the host can no longer take it back, and what is out must be true of the *)
(* disk.                                                                   *)
(***************************************************************************)
EXTENDS MCEncrypted, SequenceTheorems, TLAPS

-----------------------------------------------------------------------------
(* MembershipChain: the log of members, and what the hub writes of it.     *)

LEMMA ChainConstants ==
  /\ AccountOf \in [Devices -> Accounts] /\ TeamOwner \in Accounts /\ Nobody \notin Devices
  /\ MaxSeq \in Nat /\ MaxChecking \in Nat /\ MaxRequests \in Nat
  BY ChainAssumption

USE ChainConstants

-----------------------------------------------------------------------------
(* What an operation may do to the log's state.                            *)
Marks == {"absent", "pending", "verified", "revoked"}
Roles == Live \cup {"none", "revoked", "reset"}
Shares == Projects \X Accounts
States == [seq : Nat, owner : Devices \cup {Nobody}, endpoint : [Devices -> Marks],
           grant : [Shares -> Roles], deleted : SUBSET Projects, kit : SUBSET Kits,
           generation : Nat, kits : SUBSET Kits, epochs : SUBSET Epochs]

LEMMA OperationKinds ==
  ASSUME NEW r \in Operations
  PROVE  /\ r.by \in Devices
         /\ \/ r.action \in {"bootstrap", "recovery.revoke"}
            \/ r.action \in {"confirm", "revoke-endpoint"} /\ r.on \in Devices
            \/ r.action \in {"own-project", "project.delete"} /\ r.on \in Projects
            \/ r.action = "grant" /\ r.on \in Projects \X Accounts \X Live
            \/ r.action = "revoke-grant" /\ r.on \in Shares
            \/ r.action = "recovery.configure" /\ r.on \in Kits
            \/ r.action = "owner.recover" /\ r.on \in (1..MaxSeq) \X Epochs
  BY DEF Operations, Shares

(* The state an operation leads to, before its length is counted.          *)
LEMMA AppliedIs ==
  ASSUME NEW c, NEW r \in Operations, NEW s \in ApplyOperation(c, r)
  PROVE  \E n :
           /\ s = [n EXCEPT !.seq = @ + 1]
           /\ r.action = "bootstrap" => n \in Bootstrapped(c, r)
           /\ r.action = "owner.recover" => n \in Recovered(c, r)
           /\ r.action = "confirm" => n \in Confirmed(c, r)
           /\ r.action = "revoke-endpoint" => n \in EndpointRevoked(c, r)
           /\ r.action = "own-project" => n \in ProjectOwned(c, r)
           /\ r.action = "grant" => n \in Granted(c, r)
           /\ r.action = "revoke-grant" => n \in GrantRevoked(c, r)
           /\ r.action = "project.delete" => n \in ProjectDeleted(c, r)
           /\ r.action = "recovery.configure" => n \in Configured(c, r)
           /\ r.action = "recovery.revoke" => n \in KitRevoked(c, r)
  BY OperationKinds DEF ApplyOperation, ByVerified

LEMMA AppliedKeeps ==
  ASSUME NEW c \in States, c.generation <= c.seq, NEW r \in Operations, NEW s \in ApplyOperation(c, r)
  PROVE  s \in States /\ s.seq = c.seq + 1 /\ s.generation <= s.seq
<1>1. PICK n :
        /\ s = [n EXCEPT !.seq = @ + 1]
        /\ r.action = "bootstrap" => n \in Bootstrapped(c, r)
        /\ r.action = "owner.recover" => n \in Recovered(c, r)
        /\ r.action = "confirm" => n \in Confirmed(c, r)
        /\ r.action = "revoke-endpoint" => n \in EndpointRevoked(c, r)
        /\ r.action = "own-project" => n \in ProjectOwned(c, r)
        /\ r.action = "grant" => n \in Granted(c, r)
        /\ r.action = "revoke-grant" => n \in GrantRevoked(c, r)
        /\ r.action = "project.delete" => n \in ProjectDeleted(c, r)
        /\ r.action = "recovery.configure" => n \in Configured(c, r)
        /\ r.action = "recovery.revoke" => n \in KitRevoked(c, r)
  BY AppliedIs
<1>2. SUFFICES n \in States /\ n.seq = c.seq /\ n.generation <= n.seq + 1
  BY <1>1 DEF States
<1>3. r.by \in Devices /\ Actor(r) \in Accounts
  BY OperationKinds DEF Actor
<1>4. CASE r.action = "bootstrap"
  <2>1. PICK e \in [Devices -> Marks] : n = [c EXCEPT !.owner = r.by, !.endpoint = e]
    <3>1. n = [c EXCEPT !.owner = r.by, !.endpoint = [c.endpoint EXCEPT ![r.by] = "verified"]]
      BY <1>1, <1>4 DEF Bootstrapped, Only, States
    <3> QED BY <1>3, <3>1 DEF States, Marks
  <2>2. n \in States
    <3>1. [c EXCEPT !.owner = r.by] \in States
      BY <1>3 DEF States
    <3> QED BY <2>1, <3>1 DEF States
  <2>3. n.seq = c.seq /\ n.generation = c.generation
    BY <2>1 DEF States
  <2> QED BY <2>2, <2>3 DEF States
<1>5. CASE r.action = "owner.recover"
  <2>1. PICK e \in [Devices -> Marks], g \in [Shares -> Roles] :
          n = [c EXCEPT !.endpoint = e, !.grant = g, !.epochs = @ \cup {r.on[2]}]
    <3>1. n = [c EXCEPT !.endpoint = [d \in Devices |-> IF d = r.by THEN "verified"
                                        ELSE IF @[d] = "verified" THEN "pending" ELSE @[d]],
                        !.grant = [pa \in DOMAIN @ |-> IF @[pa] \in Live THEN "reset" ELSE @[pa]],
                        !.epochs = @ \cup {r.on[2]}]
      BY <1>1, <1>5 DEF Recovered, Only
    <3>2. [d \in Devices |-> IF d = r.by THEN "verified"
             ELSE IF c.endpoint[d] = "verified" THEN "pending" ELSE c.endpoint[d]] \in [Devices -> Marks]
      BY DEF States, Marks
    <3>3. [pa \in DOMAIN c.grant |-> IF c.grant[pa] \in Live THEN "reset" ELSE c.grant[pa]]
            \in [Shares -> Roles]
      BY DEF States, Roles
    <3> QED BY <3>1, <3>2, <3>3
  <2>2. r.on[2] \in Epochs
    BY <1>5, OperationKinds
  <2>3. n \in States
    <3>1. [c EXCEPT !.endpoint = e] \in States
      BY <2>2 DEF States
    <3>2. [c EXCEPT !.endpoint = e, !.grant = g] \in States
      BY <2>2, <3>1 DEF States
    <3> QED BY <2>1, <2>2, <3>2 DEF States
  <2>4. n.seq = c.seq /\ n.generation = c.generation
    BY <2>1 DEF States
  <2> QED BY <2>3, <2>4 DEF States
<1>6. CASE r.action = "confirm"
  BY <1>1, <1>6, OperationKinds DEF Confirmed, Only, States, Marks
<1>7. CASE r.action = "revoke-endpoint"
  BY <1>1, <1>7, OperationKinds DEF EndpointRevoked, Only, States, Marks
<1>8. CASE r.action = "own-project"
  <2>1. <<r.on, Actor(r)>> \in Shares /\ "owner" \in Roles
    BY <1>3, <1>8, OperationKinds DEF Shares, Roles, Live
  <2> QED BY <1>1, <1>8, <2>1 DEF ProjectOwned, Only, States
<1>9. CASE r.action = "grant"
  <2>1. <<r.on[1], r.on[2]>> \in Shares /\ r.on[3] \in Roles
    BY <1>9, OperationKinds DEF Shares, Roles
  <2> QED BY <1>1, <1>9, <2>1 DEF Granted, Only, States
<1>10. CASE r.action = "revoke-grant"
  <2>1. r.on \in Shares /\ "revoked" \in Roles
    BY <1>10, OperationKinds DEF Roles
  <2> QED BY <1>1, <1>10, <2>1 DEF GrantRevoked, Only, States
<1>11. CASE r.action = "project.delete"
  <2>1. PICK g \in [Shares -> Roles] : n = [c EXCEPT !.deleted = @ \cup {r.on}, !.grant = g]
    <3>1. n = [c EXCEPT !.deleted = @ \cup {r.on},
                 !.grant = [pa \in DOMAIN @ |-> IF pa[1] = r.on /\ @[pa] \in Live THEN "revoked"
                                                ELSE @[pa]]]
      BY <1>1, <1>11 DEF ProjectDeleted, Only
    <3>2. [pa \in DOMAIN c.grant |-> IF pa[1] = r.on /\ c.grant[pa] \in Live THEN "revoked"
                                     ELSE c.grant[pa]] \in [Shares -> Roles]
      BY DEF States, Roles
    <3> QED BY <3>1, <3>2
  <2>2. r.on \in Projects
    BY <1>11, OperationKinds
  <2>3. n \in States
    <3>1. [c EXCEPT !.deleted = @ \cup {r.on}] \in States
      BY <2>2 DEF States
    <3> QED BY <2>1, <2>2, <3>1 DEF States
  <2>4. n.seq = c.seq /\ n.generation = c.generation
    BY <2>1 DEF States
  <2> QED BY <2>3, <2>4 DEF States
<1>12. CASE r.action = "recovery.configure"
  <2>1. r.on \in Kits
    BY <1>12, OperationKinds
  <2>2. n = [c EXCEPT !.kit = {r.on}, !.generation = @ + 1, !.kits = @ \cup {r.on}]
    BY <1>1, <1>12 DEF Configured, Only
  <2>3. n \in States
    <3>1. [c EXCEPT !.kit = {r.on}] \in States
      BY <2>1 DEF States
    <3>2. [c EXCEPT !.kit = {r.on}, !.generation = @ + 1] \in States
      <4>1. c.generation + 1 \in Nat /\ [c EXCEPT !.kit = {r.on}].generation = c.generation
        BY DEF States
      <4> QED BY <3>1, <4>1 DEF States
    <3> QED BY <2>1, <2>2, <3>2 DEF States
  <2>4. n.seq = c.seq /\ n.generation = c.generation + 1
    BY <2>2 DEF States
  <2> QED BY <2>3, <2>4 DEF States
<1>13. CASE r.action = "recovery.revoke"
  BY <1>1, <1>13 DEF KitRevoked, Only, States
<1> QED BY <1>4, <1>5, <1>6, <1>7, <1>8, <1>9, <1>10, <1>11, <1>12, <1>13, OperationKinds

-----------------------------------------------------------------------------
(* What the hub's tables are to the log's state.                           *)
Tables == [Devices -> {"none", "pending", "verified", "revoked"}]
Grants == [Shares -> Live \cup {"none", "revoked"}]

EndpointsFollow(c, rs) ==
  \A d \in Devices : /\ rs[d] = "verified" <=> c.endpoint[d] = "verified"
                     /\ rs[d] = "revoked" <=> c.endpoint[d] = "revoked"
(* The hub may give an owner of its own, who creates a task unsigned; it   *)
(* never gives a participant whom the log does not.                        *)
GrantsFollow(c, gs) ==
  \A pa \in Shares : /\ c.grant[pa] \in Live => gs[pa] = c.grant[pa]
                     /\ gs[pa] = "participant" => c.grant[pa] = "participant"

StartsEmpty == chain.seq = 0 => \A d \in Devices : chain.endpoint[d] = "absent"

(* What an operation does to the endpoints and to the grants.              *)
Fields(c, r, s) ==
  /\ r.action \notin {"bootstrap", "owner.recover", "confirm", "revoke-endpoint"} =>
       s.endpoint = c.endpoint
  /\ r.action \notin {"owner.recover", "own-project", "grant", "revoke-grant", "project.delete"} =>
       s.grant = c.grant
  /\ r.action = "bootstrap" => c.seq = 0 /\ s.endpoint = [c.endpoint EXCEPT ![r.by] = "verified"]
  /\ r.action = "owner.recover" =>
       /\ c.endpoint[r.by] = "absent"
       /\ s.endpoint = [d \in Devices |-> IF d = r.by THEN "verified"
                          ELSE IF c.endpoint[d] = "verified" THEN "pending" ELSE c.endpoint[d]]
       /\ s.grant = [pa \in Shares |-> IF c.grant[pa] \in Live THEN "reset" ELSE c.grant[pa]]
  /\ r.action = "confirm" => s.endpoint = [c.endpoint EXCEPT ![r.on] = "verified"]
  /\ r.action = "revoke-endpoint" => s.endpoint = [c.endpoint EXCEPT ![r.on] = "revoked"]
  /\ r.action = "own-project" =>
       /\ r.on \notin c.deleted
       /\ s.grant = IF c.grant[<<r.on, Actor(r)>>] \in Live THEN c.grant
                    ELSE [c.grant EXCEPT ![<<r.on, Actor(r)>>] = "owner"]
  /\ r.action = "grant" => s.grant = [c.grant EXCEPT ![<<r.on[1], r.on[2]>>] = r.on[3]]
  /\ r.action = "revoke-grant" => s.grant = [c.grant EXCEPT ![r.on] = "revoked"]
  /\ r.action = "project.delete" =>
       s.grant = [pa \in Shares |-> IF pa[1] = r.on /\ c.grant[pa] \in Live THEN "revoked"
                                    ELSE c.grant[pa]]

LEMMA AppliedFields ==
  ASSUME NEW c \in States, NEW r \in Operations, NEW s \in ApplyOperation(c, r)
  PROVE  Fields(c, r, s)
<1> USE DEF Fields
<1>1. PICK n :
        /\ s = [n EXCEPT !.seq = @ + 1]
        /\ r.action = "bootstrap" => n \in Bootstrapped(c, r)
        /\ r.action = "owner.recover" => n \in Recovered(c, r)
        /\ r.action = "confirm" => n \in Confirmed(c, r)
        /\ r.action = "revoke-endpoint" => n \in EndpointRevoked(c, r)
        /\ r.action = "own-project" => n \in ProjectOwned(c, r)
        /\ r.action = "grant" => n \in Granted(c, r)
        /\ r.action = "revoke-grant" => n \in GrantRevoked(c, r)
        /\ r.action = "project.delete" => n \in ProjectDeleted(c, r)
        /\ r.action = "recovery.configure" => n \in Configured(c, r)
        /\ r.action = "recovery.revoke" => n \in KitRevoked(c, r)
  BY AppliedIs
<1>2. CASE r.action = "bootstrap"
  BY <1>1, <1>2 DEF Bootstrapped, Only, States
<1>3. CASE r.action = "owner.recover"
  BY <1>1, <1>3 DEF Recovered, Only, States
<1>4. CASE r.action = "confirm"
  BY <1>1, <1>4 DEF Confirmed, Only, States
<1>5. CASE r.action = "revoke-endpoint"
  BY <1>1, <1>5 DEF EndpointRevoked, Only, States
<1>6. CASE r.action = "own-project"
  BY <1>1, <1>6 DEF ProjectOwned, Only, States
<1>7. CASE r.action = "grant"
  BY <1>1, <1>7 DEF Granted, Only, States
<1>8. CASE r.action = "revoke-grant"
  BY <1>1, <1>8 DEF GrantRevoked, Only, States
<1>9. CASE r.action = "project.delete"
  BY <1>1, <1>9 DEF ProjectDeleted, Only, States
<1>10. CASE r.action \in {"recovery.configure", "recovery.revoke"}
  BY <1>1, <1>10 DEF Configured, KitRevoked, Only, States
<1> QED BY <1>2, <1>3, <1>4, <1>5, <1>6, <1>7, <1>8, <1>9, <1>10, OperationKinds

(* An operation that both accept leaves them in agreement.                 *)
LEMMA WritesFollow ==
  ASSUME chain \in States, StartsEmpty, rows \in Tables, grants \in Grants,
         EndpointsFollow(chain, rows), GrantsFollow(chain, grants),
         NEW r \in Operations, NEW s \in ApplyOperation(chain, r), HubWrites(r).ok
  PROVE  LET w == HubWrites(r)
         IN  /\ w.rows \in Tables /\ w.grants \in Grants
             /\ EndpointsFollow(s, w.rows) /\ GrantsFollow(s, w.grants)
<1> DEFINE w == HubWrites(r)
<1> USE DEF Writes, Refuse
<1> SUFFICES /\ w.rows \in Tables /\ w.grants \in Grants
             /\ EndpointsFollow(s, w.rows) /\ GrantsFollow(s, w.grants)
  OBVIOUS
<1>0. Fields(chain, r, s)
  BY AppliedFields
<1>1. r.by \in Devices /\ Actor(r) \in Accounts
  BY OperationKinds DEF Actor
<1>2. /\ chain.endpoint \in [Devices -> Marks] /\ chain.grant \in [Shares -> Roles]
  BY DEF States
<1>3. CASE r.action = "bootstrap"
  <2>1. /\ s.endpoint = [chain.endpoint EXCEPT ![r.by] = "verified"] /\ s.grant = chain.grant
        /\ \A d \in Devices : chain.endpoint[d] = "absent"
    BY <1>0, <1>3 DEF Fields, StartsEmpty
  <2>2. /\ w.rows = [d \in Devices |-> IF d = r.by THEN "verified"
                                       ELSE IF rows[d] = "verified" THEN "pending" ELSE rows[d]]
        /\ w.grants = grants
    BY <1>3 DEF HubWrites, HubBootstraps
  <2> HIDE DEF w
  <2> QED BY <1>1, <1>2, <2>1, <2>2 DEF Tables, EndpointsFollow, GrantsFollow
<1>4. CASE r.action = "owner.recover"
  <2>1. /\ chain.endpoint[r.by] = "absent"
        /\ s.endpoint = [d \in Devices |-> IF d = r.by THEN "verified"
                            ELSE IF chain.endpoint[d] = "verified" THEN "pending" ELSE chain.endpoint[d]]
        /\ s.grant = [pa \in Shares |-> IF chain.grant[pa] \in Live THEN "reset" ELSE chain.grant[pa]]
    BY <1>0, <1>4 DEF Fields
  <2>2. /\ w.rows = [d \in Devices |-> IF d = r.by THEN "verified"
                                       ELSE IF rows[d] = "verified" THEN "pending" ELSE rows[d]]
        /\ w.grants = [pa \in DOMAIN grants |-> IF grants[pa] \in Live THEN "revoked" ELSE grants[pa]]
    BY <1>4 DEF HubWrites, HubRecovers
  <2> HIDE DEF w
  <2>3. w.rows \in Tables /\ EndpointsFollow(s, w.rows)
    BY <1>1, <1>2, <2>1, <2>2 DEF Tables, EndpointsFollow
  <2>4. w.grants \in Grants /\ GrantsFollow(s, w.grants)
    BY <1>2, <2>1, <2>2 DEF Grants, GrantsFollow, Live
  <2> QED BY <2>3, <2>4
<1>5. CASE r.action = "confirm"
  <2>1. s.endpoint = [chain.endpoint EXCEPT ![r.on] = "verified"] /\ s.grant = chain.grant
    BY <1>0, <1>5 DEF Fields
  <2>2. w.rows = [rows EXCEPT ![r.on] = "verified"] /\ w.grants = grants
    BY <1>5 DEF HubWrites, HubConfirms
  <2> HIDE DEF w
  <2> QED BY <1>2, <1>5, <2>1, <2>2, OperationKinds DEF Tables, EndpointsFollow, GrantsFollow
<1>6. CASE r.action = "revoke-endpoint"
  <2>1. s.endpoint = [chain.endpoint EXCEPT ![r.on] = "revoked"] /\ s.grant = chain.grant
    BY <1>0, <1>6 DEF Fields
  <2>2. w.rows = [rows EXCEPT ![r.on] = "revoked"] /\ w.grants = grants
    BY <1>6 DEF HubWrites, HubRevokesEndpoint
  <2> HIDE DEF w
  <2> QED BY <1>2, <1>6, <2>1, <2>2, OperationKinds DEF Tables, EndpointsFollow, GrantsFollow
<1>7. CASE r.action = "own-project"
  <2> DEFINE mine == <<r.on, Actor(r)>>
  <2>1. /\ r.on \notin chain.deleted /\ s.endpoint = chain.endpoint
        /\ s.grant = IF chain.grant[mine] \in Live THEN chain.grant
                     ELSE [chain.grant EXCEPT ![mine] = "owner"]
    BY <1>0, <1>7 DEF Fields
  <2>2. w.rows = rows /\ w.grants = OwnedBy(r.on, Actor(r))
    BY <1>7 DEF HubWrites, HubOwnsProject
  <2>3. w.grants = IF grants[mine] \in Live THEN grants ELSE [grants EXCEPT ![mine] = "owner"]
    BY <2>1, <2>2 DEF OwnedBy, Participant
  <2>4. mine \in Shares
    BY <1>1, <1>7, OperationKinds DEF Shares
  <2> HIDE DEF w, mine
  <2> QED BY <1>2, <2>1, <2>2, <2>3, <2>4 DEF Grants, EndpointsFollow, GrantsFollow, Live
<1>8. CASE r.action = "grant"
  <2>1. /\ s.endpoint = chain.endpoint
        /\ s.grant = [chain.grant EXCEPT ![<<r.on[1], r.on[2]>>] = r.on[3]]
    BY <1>0, <1>8 DEF Fields
  <2>2. w.rows = rows /\ w.grants = [grants EXCEPT ![<<r.on[1], r.on[2]>>] = r.on[3]]
    BY <1>8 DEF HubWrites, HubGrants
  <2>3. <<r.on[1], r.on[2]>> \in Shares /\ r.on[3] \in Live
    BY <1>8, OperationKinds DEF Shares
  <2> HIDE DEF w
  <2> QED BY <1>2, <2>1, <2>2, <2>3 DEF Grants, EndpointsFollow, GrantsFollow, Live
<1>9. CASE r.action = "revoke-grant"
  <2>1. s.endpoint = chain.endpoint /\ s.grant = [chain.grant EXCEPT ![r.on] = "revoked"]
    BY <1>0, <1>9 DEF Fields
  <2>2. w.rows = rows /\ w.grants = [grants EXCEPT ![r.on] = "revoked"]
    BY <1>9 DEF HubWrites, HubRevokesGrant
  <2>3. r.on \in Shares
    BY <1>9, OperationKinds
  <2> HIDE DEF w
  <2> QED BY <1>2, <2>1, <2>2, <2>3 DEF Grants, EndpointsFollow, GrantsFollow, Live
<1>10. CASE r.action = "project.delete"
  <2>1. /\ s.endpoint = chain.endpoint
        /\ s.grant = [pa \in Shares |-> IF pa[1] = r.on /\ chain.grant[pa] \in Live THEN "revoked"
                                        ELSE chain.grant[pa]]
    BY <1>0, <1>10 DEF Fields
  <2>2. /\ w.rows = rows
        /\ w.grants = [pa \in DOMAIN grants |-> IF pa[1] = r.on /\ grants[pa] # "none" THEN "revoked"
                                               ELSE grants[pa]]
    BY <1>10 DEF HubWrites, HubDeletesProject
  <2> HIDE DEF w
  <2> QED BY <1>2, <2>1, <2>2 DEF Grants, EndpointsFollow, GrantsFollow, Live
<1>11. CASE r.action \in {"recovery.configure", "recovery.revoke"}
  <2>1. s.endpoint = chain.endpoint /\ s.grant = chain.grant
    BY <1>0, <1>11 DEF Fields
  <2>2. w.rows = rows /\ w.grants = grants
    BY <1>11 DEF HubWrites
  <2> HIDE DEF w
  <2> QED BY <2>1, <2>2 DEF EndpointsFollow, GrantsFollow
<1> QED BY <1>3, <1>4, <1>5, <1>6, <1>7, <1>8, <1>9, <1>10, <1>11, OperationKinds

-----------------------------------------------------------------------------
(* The inductive invariant.  A check made on the log as it is stays valid  *)
(* until the log grows, and the log's length tells whether it has.         *)
ChecksInv == \A m \in checking : m.seen <= chain.seq /\ m.seen < MaxSeq
AnswersInv ==
  /\ asked.id <= requests
  /\ \A n \in answering :
       /\ n.id <= requests /\ n.seen <= chain.seq
       /\ n.id = asked.id /\ n.seen = chain.seq => OwnerEndpoint(asked.signer)
TablesInv == EndpointsFollow(chain, rows) /\ GrantsFollow(chain, grants)

ChainInv ==
  /\ ChainTypeOK /\ chain.generation <= chain.seq /\ StartsEmpty
  /\ TablesInv /\ ChecksInv /\ AnswersInv

LEMMA ChainNow ==
  ASSUME ChainInv
  PROVE  /\ chain \in States /\ chain.seq \in 0 .. MaxSeq /\ rows \in Tables /\ grants \in Grants
         /\ checking \subseteq [op : Operations, seen : 0 .. MaxSeq]
         /\ answering \subseteq [id : 1 .. MaxRequests, seen : 0 .. MaxSeq]
         /\ asked \in [id : 0 .. MaxRequests, signer : Devices \cup {Nobody}, proof : BOOLEAN]
         /\ requests \in 0 .. MaxRequests /\ seats \subseteq Accounts
  BY DEF ChainInv, ChainTypeOK, States, Tables, Grants, Shares, Marks, Roles

LEMMA StateTyped ==
  ASSUME NEW c \in States, c.seq \in 0 .. MaxSeq, c.generation <= c.seq
  PROVE  c \in [seq : 0..MaxSeq, owner : Devices \cup {Nobody},
                endpoint : [Devices -> {"absent", "pending", "verified", "revoked"}],
                grant : [Projects \X Accounts -> Live \cup {"none", "revoked", "reset"}],
                deleted : SUBSET Projects, kit : SUBSET Kits, generation : 0..MaxSeq,
                kits : SUBSET Kits, epochs : SUBSET Epochs]
<1>1. c.generation \in 0 .. MaxSeq
  BY DEF States
<1> QED BY <1>1 DEF States, Marks, Roles, Shares

LEMMA ChainInvInit == ChainInit => ChainInv
<1> SUFFICES ASSUME ChainInit PROVE ChainInv
  OBVIOUS
<1>1. /\ chain \in States /\ chain.seq = 0 /\ chain.generation = 0
      /\ \A d \in Devices : chain.endpoint[d] = "absent"
      /\ \A pa \in Shares : chain.grant[pa] = "none"
  BY DEF ChainInit, InitialMembership, States, Marks, Roles, Shares
<1>2. ChainTypeOK
  <2>1. 0 \in 0 .. MaxSeq /\ 0 \in 0 .. MaxRequests
    OBVIOUS
  <2>2. /\ rows \in [Devices -> {"none", "pending", "verified", "revoked"}]
        /\ grants \in [Projects \X Accounts -> Live \cup {"none", "revoked"}]
        /\ seats \subseteq Accounts /\ requests \in 0 .. MaxRequests
        /\ checking \subseteq [op : Operations, seen : 0..MaxSeq]
        /\ answering \subseteq [id : 1..MaxRequests, seen : 0..MaxSeq]
    BY <2>1 DEF ChainInit
  <2>3. asked \in [id : 0..MaxRequests, signer : Devices \cup {Nobody}, proof : BOOLEAN]
    BY <2>1 DEF ChainInit, NoChallenge
  <2> QED BY <1>1, <2>1, <2>2, <2>3, StateTyped DEF ChainTypeOK
<1>3. TablesInv
  BY <1>1 DEF ChainInit, TablesInv, EndpointsFollow, GrantsFollow, Live, Shares
<1>4. ChecksInv /\ AnswersInv
  BY DEF ChainInit, ChecksInv, AnswersInv, NoChallenge
<1> QED BY <1>1, <1>2, <1>3, <1>4 DEF ChainInv, StartsEmpty

LEMMA WrittenInv ==
  ASSUME ChainInv, NEW m \in checking, MutationWritten(m)
  PROVE  ChainInv'
<1>1. /\ m.op \in Operations /\ m.seen \in 0 .. MaxSeq /\ m.seen < MaxSeq
      /\ checking' = checking \ {m} /\ UNCHANGED <<seats, asked, answering, requests>>
  BY ChainNow DEF MutationWritten, ChainInv, ChecksInv
<1>2. CASE m.seen = chain.seq /\ HubWrites(m.op).ok
  <2>1. /\ chain' \in ApplyOperation(chain, m.op)
        /\ rows' = HubWrites(m.op).rows /\ grants' = HubWrites(m.op).grants
    BY <1>2 DEF MutationWritten
  <2>2. /\ chain \in States /\ chain.generation <= chain.seq /\ StartsEmpty
        /\ rows \in Tables /\ grants \in Grants
        /\ EndpointsFollow(chain, rows) /\ GrantsFollow(chain, grants)
    BY ChainNow DEF ChainInv, TablesInv
  <2>3. chain' \in States /\ chain'.seq = chain.seq + 1 /\ chain'.generation <= chain'.seq
    BY <1>1, <2>1, <2>2, AppliedKeeps
  <2>4. /\ rows' \in Tables /\ grants' \in Grants
        /\ EndpointsFollow(chain', rows') /\ GrantsFollow(chain', grants')
    BY <1>1, <1>2, <2>1, <2>2, WritesFollow
  <2>5. chain.seq \in Nat /\ chain'.seq \in 0 .. MaxSeq
    BY <1>1, <1>2, <2>3, ChainNow
  <2>6. ChainTypeOK'
    BY <1>1, <2>3, <2>4, <2>5, StateTyped, ChainNow DEF ChainTypeOK, Tables, Grants, Shares
  <2>7. StartsEmpty'
    BY <2>3, <2>5 DEF StartsEmpty
  <2>8. TablesInv'
    BY <2>4 DEF TablesInv
  <2>9. ChecksInv'
    BY <1>1, <2>3, <2>5, ChainNow DEF ChainInv, ChecksInv
  <2>10. AnswersInv'
    BY <1>1, <2>3, <2>5, ChainNow DEF ChainInv, AnswersInv
  <2> QED BY <2>3, <2>6, <2>7, <2>8, <2>9, <2>10 DEF ChainInv
<1>3. CASE ~(m.seen = chain.seq /\ HubWrites(m.op).ok)
  <2>1. UNCHANGED <<chain, rows, grants>>
    BY <1>3 DEF MutationWritten
  <2>2. ChainTypeOK'
    BY <1>1, <2>1 DEF ChainInv, ChainTypeOK
  <2>3. ChecksInv' /\ AnswersInv'
    BY <1>1, <2>1 DEF ChainInv, ChecksInv, AnswersInv, OwnerEndpoint
  <2> QED BY <2>1, <2>2, <2>3 DEF ChainInv, StartsEmpty, TablesInv
<1> QED BY <1>2, <1>3

LEMMA TablesMoveInv ==
  ASSUME ChainInv,
         \/ \E d \in Devices : EndpointAnnounced(d)
         \/ \E p \in Projects, a \in Accounts : ProjectOwnedByTask(p, a)
  PROVE  ChainInv'
<1>1. UNCHANGED <<chain, seats, checking, asked, answering, requests>>
  BY DEF EndpointAnnounced, ProjectOwnedByTask
<1>2. rows' \in Tables /\ EndpointsFollow(chain, rows')
  <2>1. rows \in Tables /\ EndpointsFollow(chain, rows)
    BY ChainNow DEF ChainInv, TablesInv
  <2>2. CASE rows' = rows
    BY <2>1, <2>2
  <2>3. ASSUME NEW d \in Devices, EndpointAnnounced(d)
        PROVE  rows' \in Tables /\ EndpointsFollow(chain, rows')
    BY <2>1, <2>3 DEF EndpointAnnounced, Announced, Tables, EndpointsFollow
  <2> QED BY <2>2, <2>3 DEF ProjectOwnedByTask
<1>3. grants' \in Grants /\ GrantsFollow(chain, grants')
  <2>1. grants \in Grants /\ GrantsFollow(chain, grants)
    BY ChainNow DEF ChainInv, TablesInv
  <2>2. CASE grants' = grants
    BY <2>1, <2>2
  <2>3. ASSUME NEW p \in Projects, NEW a \in Accounts, ProjectOwnedByTask(p, a)
        PROVE  grants' \in Grants /\ GrantsFollow(chain, grants')
    <3>1. grants[<<p, a>>] \notin Live /\ grants' = [grants EXCEPT ![<<p, a>>] = "owner"]
      BY <2>3 DEF ProjectOwnedByTask, OwnedBy, Participant
    <3>2. <<p, a>> \in Shares
      BY DEF Shares
    <3> QED BY <2>1, <3>1, <3>2 DEF Grants, GrantsFollow, Live
  <2> QED BY <2>2, <2>3 DEF EndpointAnnounced
<1>4. ChainTypeOK'
  BY <1>1, <1>2, <1>3 DEF ChainInv, ChainTypeOK, Tables, Grants, Shares
<1>5. TablesInv'
  BY <1>1, <1>2, <1>3 DEF TablesInv
<1>6. ChecksInv' /\ AnswersInv'
  BY <1>1 DEF ChainInv, ChecksInv, AnswersInv, OwnerEndpoint
<1> QED BY <1>1, <1>4, <1>5, <1>6 DEF ChainInv, StartsEmpty

LEMMA ChallengesInv ==
  ASSUME ChainInv,
         \/ \E d \in Devices : ChallengeAsked(d)
         \/ ChallengeExpires \/ AnswerChecked \/ \E n \in answering : AnswerPublished(n)
  PROVE  ChainInv'
<1>1. UNCHANGED <<chain, rows, grants, seats, checking>>
  BY DEF ChallengeAsked, ChallengeExpires, AnswerChecked, AnswerPublished
<1>2. /\ asked \in [id : 0 .. MaxRequests, signer : Devices \cup {Nobody}, proof : BOOLEAN]
      /\ answering \subseteq [id : 1 .. MaxRequests, seen : 0 .. MaxSeq]
      /\ requests \in 0 .. MaxRequests /\ chain.seq \in 0 .. MaxSeq /\ AnswersInv
  BY ChainNow DEF ChainInv
<1> DEFINE Good == /\ asked' \in [id : 0 .. MaxRequests, signer : Devices \cup {Nobody}, proof : BOOLEAN]
                   /\ answering' \subseteq [id : 1 .. MaxRequests, seen : 0 .. MaxSeq]
                   /\ requests' \in 0 .. MaxRequests /\ AnswersInv'
<1>3. ASSUME NEW d \in Devices, ChallengeAsked(d) PROVE Good
  <2>1. /\ requests' = requests + 1 /\ requests' \in 0 .. MaxRequests /\ answering' = answering
        /\ asked' = [id |-> requests', signer |-> d, proof |-> FALSE]
    BY <1>2, <1>3 DEF ChallengeAsked
  <2>2. asked' \in [id : 0 .. MaxRequests, signer : Devices \cup {Nobody}, proof : BOOLEAN]
    BY <2>1
  <2>3. AnswersInv'
    BY <1>1, <1>2, <2>1 DEF AnswersInv
  <2> QED BY <1>2, <2>1, <2>2, <2>3
<1>4. ASSUME ChallengeExpires PROVE Good
  <2>1. asked' = NoChallenge /\ UNCHANGED <<answering, requests>>
    BY <1>4 DEF ChallengeExpires
  <2>2. asked' \in [id : 0 .. MaxRequests, signer : Devices \cup {Nobody}, proof : BOOLEAN]
    BY <2>1 DEF NoChallenge
  <2>3. AnswersInv'
    BY <1>1, <1>2, <2>1 DEF AnswersInv, NoChallenge
  <2>4. answering' = answering /\ requests' = requests
    BY <2>1
  <2> QED BY <1>2, <2>2, <2>3, <2>4
<1>5. ASSUME AnswerChecked PROVE Good
  <2>1. /\ asked.id # 0 /\ OwnerEndpoint(asked.signer) /\ UNCHANGED <<asked, requests>>
        /\ answering' = answering \cup {[id |-> asked.id, seen |-> chain.seq]}
    BY <1>5 DEF AnswerChecked
  <2>2. [id |-> asked.id, seen |-> chain.seq] \in [id : 1 .. MaxRequests, seen : 0 .. MaxSeq]
    BY <1>2, <2>1
  <2>3. OwnerEndpoint(asked.signer)'
    BY <1>1, <2>1 DEF OwnerEndpoint
  <2>4. AnswersInv'
    BY <1>1, <1>2, <2>1, <2>3 DEF AnswersInv
  <2>5. answering' \subseteq [id : 1 .. MaxRequests, seen : 0 .. MaxSeq]
    BY <1>2, <2>1, <2>2
  <2>6. asked' = asked /\ requests' = requests
    BY <2>1
  <2> QED BY <1>2, <2>4, <2>5, <2>6
<1>6. ASSUME NEW n \in answering, AnswerPublished(n) PROVE Good
  <2>1. /\ answering' = answering \ {n} /\ requests' = requests
        /\ asked' \in {asked, [asked EXCEPT !.proof = TRUE]}
    BY <1>6 DEF AnswerPublished
  <2>2. /\ asked' \in [id : 0 .. MaxRequests, signer : Devices \cup {Nobody}, proof : BOOLEAN]
        /\ asked'.id = asked.id /\ asked'.signer = asked.signer
    BY <1>2, <2>1
  <2>3. AnswersInv'
    BY <1>1, <1>2, <2>1, <2>2 DEF AnswersInv, OwnerEndpoint
  <2> QED BY <1>2, <2>1, <2>2, <2>3
<1> HIDE DEF Good
<1>7. Good
  BY <1>3, <1>4, <1>5, <1>6
<1>8. ChainTypeOK'
  BY <1>1, <1>7 DEF Good, ChainInv, ChainTypeOK
<1>9. AnswersInv'
  BY <1>7 DEF Good
<1> QED BY <1>1, <1>8, <1>9 DEF ChainInv, StartsEmpty, TablesInv, ChecksInv

LEMMA ChainInvStep == ChainInv /\ [ChainNext]_chainVars => ChainInv'
<1> SUFFICES ASSUME ChainInv, [ChainNext]_chainVars PROVE ChainInv'
  OBVIOUS
<1>1. ASSUME NEW r \in Operations, MutationChecked(r) PROVE ChainInv'
  <2>1. /\ chain.seq < MaxSeq /\ checking' = checking \cup {[op |-> r, seen |-> chain.seq]}
        /\ UNCHANGED <<chain, rows, grants, seats, asked, answering, requests>>
    BY <1>1 DEF MutationChecked
  <2>2. ChainTypeOK'
    <3>1. [op |-> r, seen |-> chain.seq] \in [op : Operations, seen : 0..MaxSeq]
      BY ChainNow
    <3> QED BY <2>1, <3>1 DEF ChainInv, ChainTypeOK
  <2>3. ChecksInv'
    BY <2>1, ChainNow DEF ChainInv, ChecksInv
  <2>4. AnswersInv'
    BY <2>1 DEF ChainInv, AnswersInv, OwnerEndpoint
  <2> QED BY <2>1, <2>2, <2>3, <2>4 DEF ChainInv, StartsEmpty, TablesInv
<1>2. ASSUME NEW m \in checking, MutationWritten(m) PROVE ChainInv'
  BY <1>2, WrittenInv
<1>3. ASSUME NEW a \in Accounts, SeatTaken(a) PROVE ChainInv'
  <2>1. seats' \subseteq seats /\ UNCHANGED <<chain, rows, grants, checking, asked, answering, requests>>
    BY <1>3 DEF SeatTaken
  <2> QED BY <2>1 DEF ChainInv, ChainTypeOK, StartsEmpty, TablesInv, ChecksInv, AnswersInv, OwnerEndpoint
<1>4. CASE UNCHANGED chainVars
  BY <1>4 DEF chainVars, ChainInv, ChainTypeOK, StartsEmpty, TablesInv, ChecksInv, AnswersInv,
     OwnerEndpoint
<1> QED BY <1>1, <1>2, <1>3, <1>4, TablesMoveInv, ChallengesInv DEF ChainNext

LEMMA ChainInvariant == ChainSpec => []ChainInv
  BY ChainInvInit, ChainInvStep, PTL DEF ChainSpec

-----------------------------------------------------------------------------
(* Every variable of the chain and of the hub's tables keeps its shape,    *)
(* and so does what waits for a signature to be checked (enrollment.js).   *)
THEOREM ChainTypeCorrect == ChainSpec => []ChainTypeOK
<1>1. ChainInv => ChainTypeOK
  BY DEF ChainInv
<1> QED BY <1>1, ChainInvariant, PTL

(* However the checks of signatures overlap, the endpoints the hub calls   *)
(* verified or removed are the log's, and a grant the log knows has the    *)
(* role the log gives it: what was checked is written only at the head it  *)
(* was checked against.                                                    *)
THEOREM HubFollowsChainHolds == ChainSpec => []HubFollowsChain
<1>1. ChainInv => HubFollowsChain
  <2> SUFFICES ASSUME ChainInv PROVE HubFollowsChain
    OBVIOUS
  <2>1. EndpointsFollow(chain, rows) /\ GrantsFollow(chain, grants)
    BY DEF ChainInv, TablesInv
  <2>2. \A d \in Devices, s \in {"verified", "revoked"} : rows[d] = s <=> chain.endpoint[d] = s
    BY <2>1 DEF EndpointsFollow
  <2>3. \A pa \in Projects \X Accounts : chain.grant[pa] \in Live => grants[pa] = chain.grant[pa]
    BY <2>1 DEF GrantsFollow, Shares
  <2> QED BY <2>2, <2>3 DEF HubFollowsChain
<1> QED BY <1>1, ChainInvariant, PTL

(* A statement of the log's head is published only while its signer is a   *)
(* verified endpoint of the owner: a removal during the check of the       *)
(* signature wins.                                                         *)
THEOREM ProofsAreCurrentHolds == ChainSpec => ProofsAreCurrent
<1>1. ChainInv /\ [ChainNext]_chainVars =>
        [asked'.proof /\ ~asked.proof => OwnerEndpoint(asked.signer)]_chainVars
  <2> SUFFICES ASSUME ChainInv, ChainNext, asked'.proof, ~asked.proof
               PROVE  OwnerEndpoint(asked.signer)
    BY DEF chainVars
  <2>1. asked' # asked
    OBVIOUS
  <2>2. ~\E d \in Devices : ChallengeAsked(d)
    BY DEF ChallengeAsked
  <2>3. ~ChallengeExpires
    BY DEF ChallengeExpires, NoChallenge
  <2>4. PICK n \in answering : AnswerPublished(n)
    BY <2>1, <2>2, <2>3 DEF ChainNext, MutationChecked, MutationWritten, EndpointAnnounced,
       ProjectOwnedByTask, SeatTaken, AnswerChecked
  <2>5. n.id = asked.id /\ n.seen = chain.seq
    BY <2>1, <2>4 DEF AnswerPublished
  <2> QED BY <2>5 DEF ChainInv, AnswersInv
<1> QED BY <1>1, ChainInvariant, PTL DEF ChainSpec, ProofsAreCurrent

-----------------------------------------------------------------------------
(* EncryptedTaskLog: one history of a task.                                *)

LEMMA LogConstants ==
  None \notin EventIds /\ None \notin Record /\ PageSize \in Nat /\ PageSize > 0 /\ MaxSealed \in Nat /\ MaxLosses \in Nat
  BY LogAssumption

USE LogConstants

-----------------------------------------------------------------------------
(* Beginnings of each other.                                               *)
Histories == {s \in Seq(Record) : Len(s) <= MaxSealed}
Begins(s, t) == Len(s) <= Len(t) /\ \A i \in 1 .. Len(s) : s[i] = t[i]

LEMMA HistoryMeans ==
  ASSUME NEW s \in Seq(Record)
  PROVE  History(s) <=> s \in Histories
  BY DEF History, Histories

LEMMA PrefixIsBegins ==
  ASSUME NEW s \in Seq(Record), NEW t \in Seq(Record)
  PROVE  IsPrefix(s, t) <=> Begins(s, t)
<1>1. SubSeq(s, 1, Len(s)) = s
  BY SubSeqFull
<1>2. CASE Len(s) <= Len(t)
  <2> DEFINE u == SubSeq(t, 1, Len(s))
  <2>1. u \in Seq(Record) /\ Len(u) = Len(s) /\ \A i \in 1 .. Len(s) : u[i] = t[i]
    <3>1. 1 \in Int /\ Len(s) \in Int /\ Len(s) \in Nat /\ \A i \in 1 .. Len(s) : t[i] \in Record
      BY <1>2
    <3>2. /\ u \in Seq(Record) /\ Len(u) = IF 1 <= Len(s) THEN Len(s) - 1 + 1 ELSE 0
          /\ \A i \in 1 .. Len(s) - 1 + 1 : u[i] = t[1 + i - 1]
      BY <3>1, SubSeqProperties
    <3> QED BY <3>1, <3>2
  <2> HIDE DEF u
  <2>2. s = u <=> \A i \in 1 .. Len(s) : s[i] = t[i]
    <3>1. ASSUME \A i \in 1 .. Len(s) : s[i] = u[i] PROVE s = u
      BY <2>1, <3>1
    <3> QED BY <2>1, <3>1
  <2> QED BY <1>1, <1>2, <2>2 DEF IsPrefix, Begins, u
<1>3. CASE ~(Len(s) <= Len(t))
  BY <1>3 DEF IsPrefix, Begins
<1> QED BY <1>2, <1>3

LEMMA BeginsFacts ==
  /\ \A s \in Seq(Record) : Begins(s, s) /\ Begins(<<>>, s)
  /\ \A s, t \in Seq(Record), r \in Record : Begins(s, t) => Begins(s, Append(t, r))
  /\ \A s, t, u \in Seq(Record) : Begins(s, u) /\ Begins(t, u) => Begins(s, t) \/ Begins(t, s)
  /\ \A s, t, u \in Seq(Record) : Begins(s, t) /\ Begins(t, u) => Begins(s, u)
<1>1. \A s \in Seq(Record) : Begins(s, s) /\ Begins(<<>>, s)
  BY DEF Begins
<1>2. ASSUME NEW s \in Seq(Record), NEW t \in Seq(Record), NEW r \in Record, Begins(s, t)
      PROVE  Begins(s, Append(t, r))
  <2>1. Len(s) \in Nat /\ Len(t) \in Nat /\ Len(Append(t, r)) = Len(t) + 1
    OBVIOUS
  <2>2. \A i \in 1 .. Len(t) : Append(t, r)[i] = t[i]
    OBVIOUS
  <2> QED BY <1>2, <2>1, <2>2 DEF Begins
<1>3. ASSUME NEW s \in Seq(Record), NEW t \in Seq(Record), NEW u \in Seq(Record),
             Begins(s, u), Begins(t, u)
      PROVE  Begins(s, t) \/ Begins(t, s)
  <2>1. Len(s) \in Nat /\ Len(t) \in Nat
    OBVIOUS
  <2> QED BY <1>3, <2>1 DEF Begins
<1>4. ASSUME NEW s \in Seq(Record), NEW t \in Seq(Record), NEW u \in Seq(Record),
             Begins(s, t), Begins(t, u)
      PROVE  Begins(s, u)
  <2>1. Len(s) \in Nat /\ Len(t) \in Nat /\ Len(u) \in Nat
    OBVIOUS
  <2> QED BY <1>4, <2>1 DEF Begins
<1> QED BY <1>1, <1>2, <1>3, <1>4

LEMMA AgreeIfBegin ==
  ASSUME NEW s \in Seq(Record), NEW t \in Seq(Record)
  PROVE  Agree(s, t) <=> Begins(s, t) \/ Begins(t, s)
  BY PrefixIsBegins DEF Agree

LEMMA CheckpointTyped ==
  ASSUME NEW s \in Histories
  PROVE  CheckpointOf(s) \in Checkpoint /\ CheckpointOf(s).env \in 0 .. MaxSealed
<1>1. Beginning \in Checkpoint /\ Beginning.env = 0
  BY DEF Beginning, Checkpoint
<1>2. CASE s = <<>>
  BY <1>1, <1>2 DEF CheckpointOf
<1>3. CASE s # <<>>
  <2>1. Len(s) \in 1 .. MaxSealed /\ s[Len(s)] \in Record
    BY <1>3 DEF Histories
  <2>2. s[Len(s)].env \in 0 .. MaxSealed
    BY <2>1 DEF Record
  <2> QED BY <1>3, <2>1, <2>2 DEF CheckpointOf, Last, Checkpoint
<1> QED BY <1>2, <1>3

-----------------------------------------------------------------------------
(* The inductive invariant.                                                *)
Writers == [phase : {"idle", "reading", "resuming", "writing"}, for : EventIds \cup {None},
            known : Histories, floor : Checkpoint]
Readers == [known : Histories, floor : Checkpoint, through : -1 .. MaxSealed]
LogDisks == [floor : Checkpoint, pending : Record \cup {None}]

LogShapes ==
  /\ task \in BOOLEAN /\ tombstone \in BOOLEAN /\ granted \in BOOLEAN /\ mailbox \in BOOLEAN
  /\ archive \in {"none", "held", "retired"}
  /\ events \in Histories /\ (snapshot # None => snapshot \in Histories)
  /\ uploads \subseteq Record /\ saved \in LogDisks
  /\ writer \in Writers /\ (writer.phase # "idle" => writer.for \in EventIds)
  /\ reader \in Readers
  /\ sealed \in 0 .. MaxSealed /\ losses \in 0 .. MaxLosses

LEMMA LogShapesAreTypes == LogShapes => LogTypeOK
<1> SUFFICES ASSUME LogShapes PROVE LogTypeOK
  OBVIOUS
<1>1. /\ History(events) /\ (snapshot # None => History(snapshot))
      /\ History(writer.known) /\ History(reader.known)
  BY DEF LogShapes, History, Histories, Writers, Readers
<1> QED BY <1>1 DEF LogShapes, LogTypeOK, Writers, Readers, LogDisks

Numbered(s) == \A i \in 1 .. Len(s) : s[i].seq = i

(* A record is numbered no later than it was sealed, so that what is kept  *)
(* anywhere was sealed.                                                    *)
SealedOnce(r) == r.seq <= r.env /\ r.env <= sealed
SealedInv ==
  /\ Len(events) <= sealed /\ (snapshot # None => Len(snapshot) <= sealed)
  /\ Numbered(events) /\ (snapshot # None => Numbered(snapshot))
  /\ \A r \in uploads : SealedOnce(r)
  /\ saved.pending # None => SealedOnce(saved.pending)
  /\ writer.phase = "writing" => \A r \in uploads : r.env = sealed => r.seq = Len(writer.known) + 1
  /\ writer.phase = "resuming" => saved.pending # None

(* While nothing was lost, the hub has every record that was ever sent     *)
(* except the one the writer keeps as pending, and that one comes next.    *)
InSeq(s, r) == r.seq <= Len(s) /\ s[r.seq] = r
InLog(r) == InSeq(events, r)
PendingInv ==
  losses = 0 /\ ~tombstone =>
    /\ Begins(writer.known, events) /\ Begins(reader.known, events)
    /\ \A r \in uploads : InLog(r) \/ r = saved.pending
    /\ saved.pending # None => InLog(saved.pending) \/ saved.pending.seq = Len(events) + 1
    /\ writer.phase = "reading" => saved.pending = None \/ InLog(saved.pending)
    /\ writer.phase = "writing" => /\ saved.pending # None /\ saved.pending.seq = Len(writer.known) + 1
                                   /\ \A r \in uploads : r.env = sealed => r = saved.pending
DeletedInv == losses = 0 /\ tombstone => Agree(writer.known, reader.known)

LogInv == LogShapes /\ SealedInv /\ PendingInv /\ DeletedInv /\ DeletedStaysDeleted

LEMMA LogNow ==
  ASSUME LogInv
  PROVE  /\ events \in Histories /\ events \in Seq(Record) /\ Len(events) \in 0 .. MaxSealed
         /\ writer \in Writers /\ writer.known \in Histories /\ writer.known \in Seq(Record)
         /\ reader \in Readers /\ reader.known \in Histories /\ reader.known \in Seq(Record)
         /\ uploads \subseteq Record /\ saved \in LogDisks /\ sealed \in 0 .. MaxSealed
         /\ losses \in 0 .. MaxLosses /\ Len(events) <= sealed /\ Numbered(events) /\ tombstone \in BOOLEAN
  BY DEF LogInv, SealedInv, LogShapes, Histories, Writers, Readers

LEMMA LogInvInit == LogInit => LogInv
<1> SUFFICES ASSUME LogInit PROVE LogInv
  OBVIOUS
<1> USE DEF LogInit
<1>1. <<>> \in Histories /\ Beginning \in Checkpoint
  BY DEF Histories, Beginning, Checkpoint
<1>2. Idle \in Writers /\ Idle.phase = "idle" /\ Idle.known = <<>>
  BY <1>1 DEF Idle, Writers
<1>3. LogShapes
  <2>1. reader \in Readers /\ saved \in LogDisks
    BY <1>1 DEF Readers, LogDisks
  <2>2. 0 \in 0 .. MaxSealed /\ 0 \in 0 .. MaxLosses
    OBVIOUS
  <2> QED BY <1>1, <1>2, <2>1, <2>2 DEF LogShapes
<1>4. SealedInv
  BY <1>2 DEF SealedInv, Numbered
<1>5. PendingInv
  BY <1>1, <1>2, BeginsFacts DEF PendingInv, Histories
<1>6. DeletedInv /\ DeletedStaysDeleted
  BY DEF DeletedInv, DeletedStaysDeleted
<1> QED BY <1>3, <1>4, <1>5, <1>6 DEF LogInv

-----------------------------------------------------------------------------
(* The hub.                                                                *)
LEMMA LogQuietInv ==
  ASSUME LogInv,
         TaskCreated \/ GrantChanges \/ KeysDelivered \/ MailboxDrained \/ ArchiveStored
           \/ SnapshotTaken \/ SnapshotExpires
  PROVE  LogInv'
<1>1. UNCHANGED <<events, tombstone, uploads, saved, writer, reader, sealed, losses>>
  BY DEF TaskCreated, GrantChanges, KeysDelivered, MailboxDrained, ArchiveStored, SnapshotTaken,
     SnapshotExpires
<1>2. snapshot' \in {snapshot, events, None}
  BY DEF TaskCreated, GrantChanges, KeysDelivered, MailboxDrained, ArchiveStored, SnapshotTaken,
     SnapshotExpires
<1>3. /\ task' \in BOOLEAN /\ granted' \in BOOLEAN /\ mailbox' \in BOOLEAN
      /\ archive' \in {"none", "held", "retired"}
  BY DEF TaskCreated, GrantChanges, KeysDelivered, MailboxDrained, ArchiveStored, SnapshotTaken,
     SnapshotExpires, LogInv, LogShapes
<1>4. LogShapes'
  BY <1>1, <1>2, <1>3 DEF LogInv, LogShapes
<1>5. SealedInv'
  BY <1>1, <1>2 DEF LogInv, SealedInv, SealedOnce
<1>6. PendingInv' /\ DeletedInv'
  BY <1>1 DEF LogInv, PendingInv, InLog, InSeq, DeletedInv
<1>7. DeletedStaysDeleted'
  BY <1>1 DEF LogInv, DeletedStaysDeleted, TaskCreated, GrantChanges, KeysDelivered, MailboxDrained,
     ArchiveStored, SnapshotTaken, SnapshotExpires
<1> QED BY <1>4, <1>5, <1>6, <1>7 DEF LogInv

LEMMA DeletedInvs ==
  ASSUME LogInv, TaskDeleted
  PROVE  LogInv'
<1>1. /\ task' = FALSE /\ events' = <<>> /\ tombstone' = TRUE /\ mailbox' = FALSE
      /\ archive' = IF archive = "held" THEN "retired" ELSE archive
      /\ UNCHANGED <<granted, snapshot, uploads, saved, writer, reader, sealed, losses>>
  BY DEF TaskDeleted
<1>2. events' \in Histories /\ Len(events') = 0
  BY <1>1 DEF Histories
<1>3. LogShapes'
  BY <1>1, <1>2 DEF LogInv, LogShapes
<1>4. SealedInv'
  BY <1>1, <1>2, LogNow DEF LogInv, SealedInv, SealedOnce, Numbered
<1>5. PendingInv'
  BY <1>1 DEF PendingInv
<1>6. DeletedInv'
  <2>1. CASE losses = 0 /\ ~tombstone
    <3>1. Begins(writer.known, events) /\ Begins(reader.known, events)
      BY <2>1 DEF LogInv, PendingInv
    <3>2. Agree(writer.known, reader.known)
      BY <3>1, LogNow, BeginsFacts, AgreeIfBegin
    <3> QED BY <1>1, <3>2 DEF DeletedInv
  <2>2. CASE losses = 0 /\ tombstone
    BY <1>1, <2>2 DEF LogInv, DeletedInv
  <2>3. CASE losses # 0
    BY <1>1, <2>3 DEF DeletedInv
  <2> QED BY <2>1, <2>2, <2>3, LogNow
<1>7. DeletedStaysDeleted'
  BY <1>1 DEF LogInv, LogShapes, DeletedStaysDeleted
<1> QED BY <1>3, <1>4, <1>5, <1>6, <1>7 DEF LogInv

LEMMA LossInv ==
  ASSUME LogInv, SnapshotRestored \/ ContentLost
  PROVE  LogInv'
<1>1. /\ losses' = losses + 1 /\ losses' \in 0 .. MaxLosses /\ losses' # 0
      /\ task' \in BOOLEAN /\ ~tombstone
      /\ events' \in Histories /\ Len(events') <= sealed /\ Numbered(events')
      /\ UNCHANGED <<tombstone, granted, mailbox, archive, snapshot, uploads, saved, writer, reader,
                     sealed>>
  <2>1. losses < MaxLosses /\ losses' = losses + 1 /\ losses \in 0 .. MaxLosses
    BY LogNow DEF SnapshotRestored, ContentLost
  <2>2. <<>> \in Histories /\ Len(<<>>) <= sealed /\ Numbered(<<>>)
    BY LogNow DEF Histories, Numbered
  <2>3. events' \in Histories /\ Len(events') <= sealed /\ Numbered(events')
    BY <2>2 DEF SnapshotRestored, ContentLost, LogInv, LogShapes, SealedInv
  <2>4. ~tombstone
    BY DEF SnapshotRestored, ContentLost, LogInv, DeletedStaysDeleted
  <2>5. /\ task' \in BOOLEAN
        /\ UNCHANGED <<tombstone, granted, mailbox, archive, snapshot, uploads, saved, writer, reader,
                       sealed>>
    BY DEF SnapshotRestored, ContentLost
  <2> QED BY <2>1, <2>3, <2>4, <2>5
<1>2. LogShapes'
  BY <1>1 DEF LogInv, LogShapes
<1>3. SealedInv'
  BY <1>1 DEF LogInv, SealedInv, SealedOnce
<1>4. PendingInv' /\ DeletedInv' /\ DeletedStaysDeleted'
  BY <1>1 DEF PendingInv, DeletedInv, DeletedStaysDeleted
<1> QED BY <1>2, <1>3, <1>4 DEF LogInv

-----------------------------------------------------------------------------
(* The writer.                                                             *)
LEMMA StopsInv ==
  ASSUME LogInv, uploads' \subseteq uploads, writer' \in {writer, Stopped},
         UNCHANGED <<hubLogVars, saved, reader, sealed, losses>>
  PROVE  LogInv'
<1>1. Stopped \in Writers /\ Stopped.phase = "idle" /\ Stopped.known = writer.known
  BY LogNow DEF Stopped, Writers
<1>2. /\ writer' \in Writers /\ writer'.known = writer.known
      /\ writer' = writer \/ writer'.phase = "idle"
  BY <1>1, LogNow
<1>3. UNCHANGED <<task, events, tombstone, granted, mailbox, archive, snapshot>>
  BY DEF hubLogVars
<1>4. LogShapes'
  BY <1>2, <1>3 DEF LogInv, LogShapes
<1>5. SealedInv'
  BY <1>2, <1>3 DEF LogInv, SealedInv, SealedOnce
<1>6. PendingInv'
  BY <1>2, <1>3 DEF LogInv, PendingInv, InLog, InSeq
<1>7. DeletedInv' /\ DeletedStaysDeleted'
  BY <1>2, <1>3 DEF LogInv, DeletedInv, DeletedStaysDeleted
<1> QED BY <1>4, <1>5, <1>6, <1>7 DEF LogInv

LEMMA RestartInv ==
  ASSUME LogInv, HostRestarts
  PROVE  LogInv'
<1>1. /\ writer' = [Idle EXCEPT !.floor = saved.floor]
      /\ UNCHANGED <<task, events, tombstone, granted, mailbox, archive, snapshot, uploads, saved,
                     reader, sealed, losses>>
  BY DEF HostRestarts, hubLogVars
<1>2. <<>> \in Histories /\ <<>> \in Seq(Record)
  BY DEF Histories
<1>3. writer' \in Writers /\ writer'.known = <<>> /\ writer'.phase = "idle"
  BY <1>1, <1>2, LogNow DEF Idle, Writers, LogDisks
<1>4. LogShapes'
  BY <1>1, <1>3 DEF LogInv, LogShapes
<1>5. SealedInv'
  BY <1>1, <1>3 DEF LogInv, SealedInv, SealedOnce
<1>6. PendingInv'
  BY <1>1, <1>3, LogNow, BeginsFacts DEF LogInv, PendingInv, InLog, InSeq
<1>7. DeletedInv'
  <2>1. Agree(<<>>, reader.known)
    BY <1>2, LogNow, BeginsFacts, AgreeIfBegin
  <2> QED BY <1>1, <1>3, <2>1 DEF DeletedInv
<1>8. DeletedStaysDeleted'
  BY <1>1 DEF LogInv, DeletedStaysDeleted
<1> QED BY <1>4, <1>5, <1>6, <1>7, <1>8 DEF LogInv

LEMMA WriteBeginsInv ==
  ASSUME LogInv, NEW e \in EventIds, WriteBegins(e)
  PROVE  LogInv'
<1>1. UNCHANGED <<task, events, tombstone, granted, mailbox, archive, snapshot, saved, reader, sealed,
                  losses>>
  BY DEF WriteBegins, hubLogVars
<1>2. /\ writer' \in Writers /\ writer'.known = writer.known /\ writer'.for = e
      /\ writer'.phase \in {"reading", "resuming"}
  BY LogNow DEF WriteBegins, Writers
<1>3. \/ writer'.phase = "reading" /\ saved.pending = None /\ uploads' = uploads
      \/ writer'.phase = "resuming" /\ saved.pending # None /\ uploads' = uploads \cup {saved.pending}
  BY LogNow DEF WriteBegins, Writers
<1>4. uploads' \subseteq Record
  BY <1>3, LogNow DEF LogDisks
<1>5. LogShapes'
  BY <1>1, <1>2, <1>4 DEF LogInv, LogShapes
<1>6. SealedInv'
  BY <1>1, <1>2, <1>3 DEF LogInv, SealedInv, SealedOnce
<1>7. PendingInv'
  BY <1>1, <1>2, <1>3 DEF LogInv, PendingInv, InLog, InSeq
<1>8. DeletedInv' /\ DeletedStaysDeleted'
  BY <1>1, <1>2 DEF LogInv, DeletedInv, DeletedStaysDeleted
<1> QED BY <1>5, <1>6, <1>7, <1>8 DEF LogInv

LEMMA SealingTyped ==
  ASSUME LogInv, NEW e \in EventIds, sealed < MaxSealed
  PROVE  LET r == Sealing(e)
         IN  r \in Record /\ r.seq = Len(events) + 1 /\ r.env = sealed + 1 /\ r # None
<1>1. CheckpointOf(events).env \in 0 .. MaxSealed
  BY LogNow, CheckpointTyped
<1>2. Len(events) + 1 \in 1 .. MaxSealed /\ sealed + 1 \in 1 .. MaxSealed
  BY LogNow
<1>3. Sealing(e) \in Record
  BY <1>1, <1>2 DEF Sealing, Record
<1>4. Sealing(e).seq = Len(events) + 1 /\ Sealing(e).env = sealed + 1
  BY DEF Sealing
<1> QED BY <1>3, <1>4

LEMMA WriterReadsInv ==
  ASSUME LogInv, WriterReads
  PROVE  LogInv'
<1>1. /\ UNCHANGED <<task, events, tombstone, granted, mailbox, archive, snapshot, reader, losses>>
      /\ writer.phase = "reading" /\ writer.for \in EventIds
  BY DEF WriterReads, hubLogVars, LogInv, LogShapes
<1>2. CASE writer' = Stopped /\ UNCHANGED <<uploads, saved, sealed>>
  BY <1>1, <1>2, StopsInv DEF hubLogVars
<1>3. CheckpointOf(events) \in Checkpoint
  BY LogNow, CheckpointTyped
<1>4. task => ~tombstone
  BY DEF LogInv, DeletedStaysDeleted
<1>5. CASE /\ task /\ writer' = [Stopped EXCEPT !.known = events]
           /\ saved' = IF saved.pending = None THEN saved
                       ELSE [floor |-> CheckpointOf(events), pending |-> None]
           /\ UNCHANGED <<uploads, sealed>>
  <2>1. writer' \in Writers /\ writer'.phase = "idle" /\ writer'.known = events
    BY <1>5, LogNow DEF Stopped, Writers
  <2>2. saved' \in LogDisks /\ saved'.pending = None
    BY <1>3, <1>5, LogNow DEF LogDisks
  <2>3. LogShapes'
    BY <1>1, <1>5, <2>1, <2>2 DEF LogInv, LogShapes
  <2>4. SealedInv'
    BY <1>1, <1>5, <2>1, <2>2 DEF LogInv, SealedInv, SealedOnce
  <2>5. PendingInv'
    <3> SUFFICES ASSUME losses = 0, ~tombstone PROVE PendingInv'
      BY <1>1 DEF PendingInv
    <3>1. \A r \in uploads : InLog(r)
      BY <1>1, LogNow DEF LogInv, PendingInv
    <3>2. Begins(events, events) /\ Begins(reader.known, events)
      BY LogNow, BeginsFacts DEF LogInv, PendingInv
    <3> QED BY <1>1, <1>5, <2>1, <2>2, <3>1, <3>2 DEF PendingInv, InLog, InSeq
  <2>6. DeletedInv' /\ DeletedStaysDeleted'
    BY <1>1, <1>4, <1>5 DEF LogInv, DeletedInv, DeletedStaysDeleted
  <2> QED BY <2>3, <2>4, <2>5, <2>6 DEF LogInv
<1>6. CASE /\ task /\ sealed < MaxSealed /\ sealed' = sealed + 1
           /\ writer' = [writer EXCEPT !.phase = "writing", !.known = events]
           /\ uploads' = uploads \cup {Sealing(writer.for)} /\ SavedPending(Sealing(writer.for))
  <2> DEFINE new == Sealing(writer.for)
  <2>1. new \in Record /\ new.seq = Len(events) + 1 /\ new.env = sealed + 1 /\ new # None
    BY <1>1, <1>6, SealingTyped
  <2>2. uploads' = uploads \cup {new} /\ saved' = [floor |-> CheckpointOf(events), pending |-> new]
    BY <1>6 DEF SavedPending
  <2> HIDE DEF new
  <2>3. writer' \in Writers /\ writer'.phase = "writing" /\ writer'.known = events /\ writer'.for \in EventIds
    BY <1>1, <1>6, LogNow DEF Writers
  <2>4. saved' \in LogDisks /\ saved'.pending = new
    BY <1>3, <2>1, <2>2 DEF LogDisks
  <2>5. sealed' \in 0 .. MaxSealed /\ sealed < sealed' /\ new.env = sealed' /\ sealed \in Nat
    BY <1>6, <2>1, LogNow
  <2>6. \A r \in uploads : r.seq <= r.env /\ r.env <= sealed /\ r.env \in Nat /\ r.seq \in Nat
    BY LogNow DEF LogInv, SealedInv, SealedOnce, Record
  <2>7. LogShapes'
    BY <1>1, <2>1, <2>2, <2>3, <2>4, <2>5 DEF LogInv, LogShapes
  <2>8. SealedInv'
    <3>1. \A r \in uploads' : SealedOnce(r)'
      BY <2>1, <2>2, <2>5, <2>6, LogNow DEF SealedOnce
    <3>2. \A r \in uploads' : r.env = sealed' => r = new
      BY <2>2, <2>5, <2>6
    <3>3. /\ Len(events) <= sealed' /\ (snapshot # None => Len(snapshot) <= sealed')
          /\ Numbered(events) /\ (snapshot # None => Numbered(snapshot))
      BY <1>6, LogNow DEF LogInv, SealedInv, LogShapes, Histories
    <3> QED BY <1>1, <2>1, <2>2, <2>3, <2>4, <2>5, <3>1, <3>2, <3>3 DEF SealedInv
  <2>9. PendingInv'
    <3> SUFFICES ASSUME losses = 0, ~tombstone PROVE PendingInv'
      BY <1>1 DEF PendingInv
    <3>1. \A r \in uploads : InLog(r)
      BY <1>1, LogNow DEF LogInv, PendingInv
    <3>2. Begins(events, events) /\ Begins(reader.known, events)
      BY LogNow, BeginsFacts DEF LogInv, PendingInv
    <3>3. \A r \in uploads' : r.env = sealed' => r = new
      BY <2>2, <2>5, <2>6
    <3>4. \A r \in uploads' : InLog(r)' \/ r = new
      BY <1>1, <2>2, <3>1 DEF InLog, InSeq
    <3> QED BY <1>1, <2>1, <2>3, <2>4, <3>2, <3>3, <3>4 DEF PendingInv
  <2>10. DeletedInv' /\ DeletedStaysDeleted'
    BY <1>1, <1>4, <1>6 DEF LogInv, DeletedInv, DeletedStaysDeleted
  <2> QED BY <2>7, <2>8, <2>9, <2>10 DEF LogInv
<1> QED BY <1>2, <1>5, <1>6 DEF WriterReads

(* What an arrival does to the log, whoever still waits for it.            *)
LEMMA ArrivalKeeps ==
  ASSUME LogInv, NEW r \in uploads, events' = IF Accepted(r) /\ ~Kept(r) THEN Append(events, r) ELSE events
  PROVE  /\ events' \in Histories /\ Len(events') <= sealed /\ Numbered(events')
         /\ tombstone => events' = events /\ ~Accepted(r)
         /\ Begins(events, events')
         /\ Accepted(r) => InSeq(events', r)
         /\ events' # events => events' = Append(events, r) /\ r.seq = Len(events) + 1 /\ ~InLog(r)
<1>1. /\ r \in Record /\ r.seq \in 1 .. MaxSealed /\ r.seq <= sealed
      /\ events \in Seq(Record) /\ Len(events) \in Nat /\ Len(events) <= sealed /\ Numbered(events)
  BY LogNow DEF LogInv, SealedInv, SealedOnce, Record
<1>2. tombstone => ~Accepted(r)
  BY DEF Accepted
<1>3. CASE Accepted(r) /\ ~Kept(r)
  <2>1. events' = Append(events, r) /\ r.seq = Len(events) + 1
    BY <1>3 DEF Accepted, InTurn
  <2>2. /\ events' \in Seq(Record) /\ Len(events') = r.seq /\ events'[r.seq] = r
        /\ \A i \in 1 .. Len(events) : events'[i] = events[i]
    BY <1>1, <2>1
  <2>3. Numbered(events') /\ Begins(events, events')
    BY <1>1, <2>1, <2>2 DEF Numbered, Begins
  <2>4. events' \in Histories
    BY <1>1, <2>2 DEF Histories
  <2>5. ~InLog(r)
    BY <1>1, <2>1 DEF InLog, InSeq
  <2> QED BY <1>1, <1>2, <1>3, <2>1, <2>2, <2>3, <2>4, <2>5 DEF InSeq
<1>4. CASE ~(Accepted(r) /\ ~Kept(r))
  <2>1. events' = events
    BY <1>4
  <2>2. ASSUME Accepted(r) PROVE InSeq(events, r)
    <3>1. PICK i \in 1 .. Len(events) : events[i] = r
      BY <1>1, <1>4, <2>2 DEF Kept
    <3>2. r.seq = i
      BY <1>1, <3>1 DEF Numbered
    <3> QED BY <1>1, <3>1, <3>2 DEF InSeq
  <2> QED BY <1>1, <1>2, <2>1, <2>2, LogNow, BeginsFacts
<1> QED BY <1>3, <1>4

LEMMA UploadArrivesInv ==
  ASSUME LogInv, NEW r \in uploads, NEW heard \in BOOLEAN, UploadArrives(r, heard)
  PROVE  LogInv'
<1>1. /\ events' = IF Accepted(r) /\ ~Kept(r) THEN Append(events, r) ELSE events
      /\ UNCHANGED <<task, tombstone, granted, mailbox, archive, snapshot, uploads, reader, sealed, losses>>
  BY DEF UploadArrives
<1>2. /\ events' \in Histories /\ Len(events') <= sealed /\ Numbered(events')
      /\ tombstone => events' = events /\ ~Accepted(r)
      /\ Begins(events, events')
      /\ Accepted(r) => InSeq(events', r)
      /\ events' # events => events' = Append(events, r) /\ r.seq = Len(events) + 1 /\ ~InLog(r)
  BY <1>1, ArrivalKeeps
<1>3. events' \in Seq(Record) /\ Len(events') \in Nat
  BY <1>2 DEF Histories
(* Whatever was in the log is, and so is the pending record.               *)
<1>4. \A q \in Record : InSeq(events, q) => InSeq(events', q)
  <2> SUFFICES ASSUME NEW q \in Record, InSeq(events, q) PROVE InSeq(events', q)
    OBVIOUS
  <2>1. q.seq \in 1 .. Len(events) /\ events[q.seq] = q /\ Len(events) \in Nat
    BY LogNow DEF InSeq, Record
  <2> QED BY <1>2, <1>3, <2>1 DEF Begins, InSeq
<1>5. ASSUME losses = 0, ~tombstone
      PROVE  /\ \A q \in uploads : InSeq(events', q) \/ q = saved.pending
             /\ saved.pending # None => InSeq(events', saved.pending) \/ saved.pending.seq = Len(events') + 1
             /\ Begins(writer.known, events') /\ Begins(reader.known, events')
  <2>1. /\ \A q \in uploads : InSeq(events, q) \/ q = saved.pending
        /\ saved.pending # None => InSeq(events, saved.pending) \/ saved.pending.seq = Len(events) + 1
        /\ Begins(writer.known, events) /\ Begins(reader.known, events)
    BY <1>5 DEF LogInv, PendingInv, InLog
  <2>2. \A q \in uploads : InSeq(events', q) \/ q = saved.pending
    BY <1>4, <2>1, LogNow
  <2>3. ASSUME saved.pending # None
        PROVE  InSeq(events', saved.pending) \/ saved.pending.seq = Len(events') + 1
    <3>1. CASE InSeq(events, saved.pending)
      BY <1>4, <2>3, <3>1, LogNow DEF LogDisks
    <3>2. CASE ~InSeq(events, saved.pending) /\ events' = events
      BY <2>1, <2>3, <3>2
    <3>3. CASE events' # events
      <4>1. r = saved.pending /\ Accepted(r)
        BY <1>1, <1>2, <2>1, <3>3 DEF InLog
      <4> QED BY <1>2, <4>1 DEF InSeq
    <3> QED BY <3>1, <3>2, <3>3
  <2>4. Begins(writer.known, events') /\ Begins(reader.known, events')
    BY <1>2, <1>3, <2>1, LogNow, BeginsFacts
  <2> QED BY <2>2, <2>3, <2>4
(* Unless the writer was sealing, it and its disk stay as they were typed. *)
<1> DEFINE Calm == /\ writer' \in Writers /\ (writer'.phase # "idle" => writer'.for \in EventIds)
                   /\ writer'.known = writer.known /\ saved' = saved
                   /\ writer'.phase \in {writer.phase, "idle", "reading"}
<1>6. ASSUME Calm, writer'.phase = "reading" /\ losses = 0 /\ ~tombstone =>
                     saved.pending = None \/ InSeq(events', saved.pending)
      PROVE  LogInv'
  <2>1. LogShapes'
    BY <1>1, <1>2, <1>6 DEF LogInv, LogShapes
  <2>2. SealedInv'
    BY <1>1, <1>2, <1>6 DEF LogInv, SealedInv, SealedOnce
  <2>3. PendingInv'
    <3> SUFFICES ASSUME losses = 0, ~tombstone PROVE PendingInv'
      BY <1>1 DEF PendingInv
    <3>1. writer'.phase = "writing" => /\ saved.pending # None
                                       /\ saved.pending.seq = Len(writer.known) + 1
                                       /\ \A q \in uploads : q.env = sealed => q = saved.pending
      BY <1>6 DEF LogInv, PendingInv
    <3> QED BY <1>1, <1>5, <1>6, <3>1 DEF PendingInv, InLog
  <2>4. DeletedInv' /\ DeletedStaysDeleted'
    BY <1>1, <1>2, <1>6 DEF LogInv, DeletedInv, DeletedStaysDeleted
  <2> QED BY <2>1, <2>2, <2>3, <2>4 DEF LogInv
<1>7. CASE UNCHANGED <<writer, saved>>
  <2>1. Calm
    BY <1>7, LogNow DEF LogInv, LogShapes
  <2>2. writer.phase = "reading" /\ losses = 0 /\ ~tombstone =>
          saved.pending = None \/ InSeq(events', saved.pending)
    BY <1>4, LogNow DEF LogInv, PendingInv, InLog, LogDisks
  <2> QED BY <1>6, <1>7, <2>1, <2>2
<1>8. CASE writer' = Stopped /\ saved' = saved
  <2>1. Calm /\ writer'.phase = "idle"
    BY <1>8, LogNow DEF Stopped, Writers
  <2> QED BY <1>6, <2>1
<1>9. CASE /\ Accepted(r) /\ writer.phase = "resuming" /\ r = saved.pending
           /\ writer' = [writer EXCEPT !.phase = "reading"] /\ saved' = saved
  <2>1. Calm
    BY <1>9, LogNow DEF Writers, LogInv, LogShapes
  <2> QED BY <1>2, <1>6, <1>9, <2>1
<1> HIDE DEF Calm
<1>10. CASE /\ Accepted(r) /\ writer.phase = "writing" /\ r.env = sealed
            /\ writer' = [Stopped EXCEPT !.known = Append(@, r)]
            /\ saved' = [floor |-> CheckpointOf(writer'.known), pending |-> None]
  <2> DEFINE more == Append(writer.known, r)
  <2>1. /\ r \in Record /\ r.seq = Len(writer.known) + 1 /\ r.seq \in 1 .. MaxSealed
        /\ writer.known \in Seq(Record) /\ Len(writer.known) \in Nat
    <3>1. writer.known \in Seq(Record) /\ r \in uploads /\ r \in Record
      BY <1>10, LogNow DEF Accepted
    <3>2. r.seq = Len(writer.known) + 1
      BY <1>10, <3>1 DEF LogInv, SealedInv
    <3>3. r.seq \in 1 .. MaxSealed
      BY <3>1 DEF Record
    <3> QED BY <3>1, <3>2, <3>3
  <2>2. /\ more \in Seq(Record) /\ Len(more) = r.seq /\ more[r.seq] = r
        /\ \A i \in 1 .. Len(writer.known) : more[i] = writer.known[i]
    BY <2>1
  <2>3. more \in Histories
    BY <2>1, <2>2 DEF Histories
  <2>4. writer' \in Writers /\ writer'.phase = "idle" /\ writer'.known = more
    <3>1. writer' = [writer EXCEPT !.phase = "idle", !.for = None, !.known = more]
      BY <1>10, LogNow DEF Stopped, Writers
    <3> HIDE DEF more
    <3> QED BY <2>3, <3>1, LogNow DEF Writers
  <2>5. saved' \in LogDisks /\ saved'.pending = None
    BY <1>10, <2>3, <2>4, CheckpointTyped DEF LogDisks
  <2> HIDE DEF more
  <2>6. LogShapes'
    BY <1>1, <1>2, <2>4, <2>5 DEF LogInv, LogShapes
  <2>7. SealedInv'
    BY <1>1, <1>2, <2>4, <2>5 DEF LogInv, SealedInv, SealedOnce
  <2>8. ~tombstone
    BY <1>2, <1>10
  <2>9. PendingInv'
    <3> SUFFICES ASSUME losses = 0, ~tombstone PROVE PendingInv'
      BY <1>1 DEF PendingInv
    <3>1. r = saved.pending
      BY <1>10 DEF LogInv, PendingInv
    <3>2. \A q \in uploads : InSeq(events', q)
      BY <1>2, <1>5, <1>10, <3>1
    <3>3. Begins(more, events')
      <4>1. Begins(writer.known, events') /\ r.seq <= Len(events') /\ events'[r.seq] = r
        BY <1>2, <1>5, <1>10 DEF InSeq
      <4> QED BY <1>3, <2>1, <2>2, <4>1 DEF Begins
    <3> QED BY <1>1, <1>5, <2>4, <2>5, <3>2, <3>3 DEF PendingInv, InLog
  <2>10. DeletedInv' /\ DeletedStaysDeleted'
    BY <1>1, <2>8 DEF DeletedInv, DeletedStaysDeleted
  <2> QED BY <2>6, <2>7, <2>9, <2>10 DEF LogInv
<1> QED BY <1>7, <1>8, <1>9, <1>10 DEF UploadArrives, Waiting

-----------------------------------------------------------------------------
(* The reader.                                                             *)
LEMMA ReaderMovesInv ==
  ASSUME LogInv, reader' \in Readers, UNCHANGED <<hubLogVars, uploads, saved, writer, sealed, losses>>,
         losses = 0 /\ ~tombstone => Begins(reader'.known, events),
         losses = 0 /\ tombstone => Agree(writer.known, reader'.known)
  PROVE  LogInv'
<1>1. UNCHANGED <<task, events, tombstone, granted, mailbox, archive, snapshot>>
  BY DEF hubLogVars
<1>2. LogShapes'
  BY <1>1 DEF LogInv, LogShapes
<1>3. SealedInv'
  BY <1>1 DEF LogInv, SealedInv, SealedOnce
<1>4. PendingInv'
  BY <1>1 DEF LogInv, PendingInv, InLog
<1>5. DeletedInv' /\ DeletedStaysDeleted'
  BY <1>1 DEF LogInv, DeletedInv, DeletedStaysDeleted
<1> QED BY <1>2, <1>3, <1>4, <1>5 DEF LogInv

LEMMA Joined ==
  ASSUME NEW s \in Seq(Record), NEW t \in Seq(Record)
  PROVE  /\ s \o t \in Seq(Record) /\ Len(s \o t) = Len(s) + Len(t)
         /\ \A i \in 1 .. Len(s) : (s \o t)[i] = s[i]
         /\ \A i \in Len(s) + 1 .. Len(s) + Len(t) : (s \o t)[i] = t[i - Len(s)]
         /\ s \o <<>> = s
  BY ConcatProperties, ConcatEmptySeq

(* A page continues what the reader knows with what the hub has.           *)
LEMMA PageIs ==
  ASSUME LogInv, reader.through >= 0, reader.through <= Len(events)
  PROVE  LET known == reader.known \o Page
         IN  known \in Histories /\ (Begins(reader.known, events) => Begins(known, events))
<1> DEFINE k == Len(reader.known)
           n == IF k + PageSize < reader.through THEN k + PageSize ELSE reader.through
           known == reader.known \o Page
<1>1. /\ k \in 0 .. MaxSealed /\ n \in 0 .. Len(events) /\ k \in Nat /\ n \in Nat
      /\ Page = SubSeq(events, k + 1, n) /\ Len(events) \in 0 .. MaxSealed /\ events \in Seq(Record)
      /\ reader.known \in Seq(Record)
  BY LogNow DEF Page, Readers, Histories
<1> HIDE DEF n, k
<1>2. CASE n < k + 1
  <2>1. Page = <<>>
    BY <1>1, <1>2, SubSeqEmpty
  <2>2. known = reader.known
    BY <1>1, <2>1, Joined
  <2> QED BY <2>2, LogNow
<1>3. CASE k + 1 <= n
  <2>1. /\ Page \in Seq(Record) /\ Len(Page) = n - k
        /\ \A i \in 1 .. n - k : Page[i] = events[k + i]
    <3>1. k + 1 \in Int /\ n \in Int /\ \A i \in k + 1 .. n : events[i] \in Record
      BY <1>1
    <3>2. /\ SubSeq(events, k + 1, n) \in Seq(Record)
          /\ Len(SubSeq(events, k + 1, n)) = IF k + 1 <= n THEN n - (k + 1) + 1 ELSE 0
          /\ \A i \in 1 .. n - (k + 1) + 1 : SubSeq(events, k + 1, n)[i] = events[k + 1 + i - 1]
      BY <3>1, SubSeqProperties
    <3> QED BY <1>1, <1>3, <3>2
  <2>2. /\ known \in Seq(Record) /\ Len(known) = n
        /\ \A i \in 1 .. k : known[i] = reader.known[i]
        /\ \A i \in k + 1 .. n : known[i] = Page[i - k]
    <3>1. Len(reader.known) = k
      BY DEF k
    <3>2. Len(reader.known) + Len(Page) = n
      BY <1>1, <2>1, <3>1
    <3>3. /\ known \in Seq(Record) /\ Len(known) = Len(reader.known) + Len(Page)
          /\ \A i \in 1 .. Len(reader.known) : known[i] = reader.known[i]
          /\ \A i \in Len(reader.known) + 1 .. Len(reader.known) + Len(Page) :
                known[i] = Page[i - Len(reader.known)]
      BY <1>1, <2>1, Joined
    <3> HIDE DEF known
    <3> QED BY <3>1, <3>2, <3>3
  <2>3. \A i \in k + 1 .. n : known[i] = events[i]
    <3> SUFFICES ASSUME NEW i \in k + 1 .. n PROVE known[i] = events[i]
      OBVIOUS
    <3>1. i - k \in 1 .. n - k /\ k + (i - k) = i
      BY <1>1
    <3>2. Page[i - k] = events[k + (i - k)]
      BY <2>1, <3>1
    <3> QED BY <2>2, <3>1, <3>2
  <2> HIDE DEF known
  <2>4. known \in Histories
    BY <1>1, <2>2 DEF Histories
  <2>5. Begins(reader.known, events) => Begins(known, events)
    BY <1>1, <2>2, <2>3 DEF Begins, k
  <2> QED BY <2>4, <2>5 DEF known
<1> QED BY <1>1, <1>2, <1>3

LEMMA ReaderInv ==
  ASSUME LogInv, ReplayBegins \/ PageRead \/ ReaderRestarts
  PROVE  LogInv'
<1>1. UNCHANGED <<hubLogVars, uploads, saved, writer, sealed, losses>>
  BY DEF ReplayBegins, PageRead, ReaderRestarts
<1>2. /\ losses = 0 /\ ~tombstone => Begins(reader.known, events)
      /\ losses = 0 /\ tombstone => Agree(writer.known, reader.known)
  BY DEF LogInv, PendingInv, DeletedInv
<1>3. Halted \in Readers /\ Halted.known = reader.known
  <2>1. reader \in Readers
    BY LogNow
  <2> QED BY <2>1 DEF Halted, Readers
<1>4. CASE ReplayBegins
  <2>1. reader' \in Readers /\ reader'.known = reader.known
    BY <1>4, LogNow DEF ReplayBegins, Readers
  <2> QED BY <1>1, <1>2, <2>1, ReaderMovesInv
<1>5. CASE ReaderRestarts
  <2>1. <<>> \in Histories /\ <<>> \in Seq(Record)
    BY DEF Histories
  <2>2. reader' \in Readers /\ reader'.known = <<>>
    BY <1>3, <1>5, <2>1 DEF ReaderRestarts, Readers
  <2>3. Begins(<<>>, events) /\ Agree(writer.known, <<>>)
    BY <2>1, LogNow, BeginsFacts, AgreeIfBegin
  <2> QED BY <1>1, <2>2, <2>3, ReaderMovesInv
<1>6. CASE PageRead
  <2> DEFINE known == reader.known \o Page
  <2>1. CASE reader' = Halted
    BY <1>1, <1>2, <1>3, <2>1, ReaderMovesInv
  <2>2. CASE reader' # Halted
    <3>1. /\ task /\ reader.through >= 0 /\ reader.through <= Len(events)
          /\ \/ reader' = [reader EXCEPT !.known = known]
             \/ reader' = [known |-> known, floor |-> CheckpointOf(known), through |-> -1]
      BY <1>6, <2>2 DEF PageRead
    <3>2. known \in Histories /\ (Begins(reader.known, events) => Begins(known, events))
      BY <3>1, PageIs
    <3>3. CheckpointOf(known) \in Checkpoint
      BY <3>2, CheckpointTyped
    <3> HIDE DEF known
    <3>4. reader' \in Readers /\ reader'.known = known
      <4>1. CASE reader' = [reader EXCEPT !.known = known]
        <5>1. reader \in Readers
          BY LogNow
        <5> QED BY <3>2, <4>1, <5>1 DEF Readers
      <4>2. CASE reader' = [known |-> known, floor |-> CheckpointOf(known), through |-> -1]
        BY <3>2, <3>3, <4>2 DEF Readers
      <4> QED BY <3>1, <4>1, <4>2
    <3>5. ~tombstone
      BY <3>1 DEF LogInv, DeletedStaysDeleted
    <3> QED BY <1>1, <1>2, <3>2, <3>4, <3>5, ReaderMovesInv
  <2> QED BY <2>1, <2>2
<1> QED BY <1>4, <1>5, <1>6

-----------------------------------------------------------------------------
LEMMA LogInvStep == LogInv /\ [LogNext]_logVars => LogInv'
<1> SUFFICES ASSUME LogInv, [LogNext]_logVars PROVE LogInv'
  OBVIOUS
<1>1. ASSUME NEW e \in EventIds, WriteBegins(e) PROVE LogInv'
  BY <1>1, WriteBeginsInv
<1>2. ASSUME NEW r \in uploads, UploadLost(r) PROVE LogInv'
  BY <1>2, StopsInv DEF UploadLost
<1>3. ASSUME NEW r \in uploads, NEW heard \in BOOLEAN, UploadArrives(r, heard) PROVE LogInv'
  BY <1>3, UploadArrivesInv
<1>4. CASE UploadTimesOut
  BY <1>4, StopsInv DEF UploadTimesOut
<1>5. CASE UNCHANGED logVars
  BY <1>5, StopsInv DEF logVars
<1> QED BY <1>1, <1>2, <1>3, <1>4, <1>5, LogQuietInv, DeletedInvs, LossInv, WriterReadsInv, RestartInv,
           ReaderInv DEF LogNext

LEMMA LogInvariant == LogSpec => []LogInv
  BY LogInvInit, LogInvStep, PTL DEF LogSpec

-----------------------------------------------------------------------------
(* Every variable of the task's log keeps its shape: at the hub, in the    *)
(* host's writer and its saved state, and in a reader, whatever is lost,   *)
(* read in pages or sent again.                                            *)
THEOREM LogTypeCorrect == LogSpec => []LogTypeOK
<1>1. LogInv => LogTypeOK
  BY LogShapesAreTypes DEF LogInv
<1> QED BY <1>1, LogInvariant, PTL

(* While no content was lost, what the hub keeps, what the host's writer   *)
(* knows and what a reader was shown are beginnings of each other, and     *)
(* every upload, however late, is the record the hub keeps in its place:   *)
(* the writer saves a record before it sends it and sends that very record *)
(* again.                                                                  *)
THEOREM OneHistoryHolds == LogSpec => []OneHistory
<1>1. LogInv => OneHistory
  <2> SUFFICES ASSUME LogInv, losses = 0
               PROVE  /\ Agree(events, writer.known) /\ Agree(events, reader.known)
                      /\ Agree(writer.known, reader.known)
                      /\ \A r \in uploads : r.seq <= Len(events) => events[r.seq] = r
    BY DEF OneHistory
  <2>1. CASE tombstone
    <3>1. events = <<>> /\ Len(events) = 0 /\ Agree(writer.known, reader.known)
      BY <2>1 DEF LogInv, DeletedStaysDeleted, DeletedInv
    <3>2. \A r \in uploads : ~(r.seq <= Len(events))
      BY <3>1, LogNow DEF Record
    <3>3. Agree(events, writer.known) /\ Agree(events, reader.known)
      BY <3>1, LogNow, BeginsFacts, AgreeIfBegin
    <3> QED BY <3>1, <3>2, <3>3
  <2>2. CASE ~tombstone
    <3>1. /\ Begins(writer.known, events) /\ Begins(reader.known, events)
          /\ \A r \in uploads : InLog(r) \/ r = saved.pending
          /\ saved.pending # None => InLog(saved.pending) \/ saved.pending.seq = Len(events) + 1
      BY <2>2 DEF LogInv, PendingInv
    <3>2. ASSUME NEW r \in uploads, r.seq <= Len(events) PROVE events[r.seq] = r
      <4>1. r.seq \in Nat /\ Len(events) \in Nat /\ r # None
        BY LogNow DEF Record
      <4>2. ~(r.seq = Len(events) + 1)
        BY <3>2, <4>1
      <4>3. InLog(r)
        BY <3>1, <4>1, <4>2
      <4> QED BY <4>3 DEF InLog, InSeq
    <3>3. Agree(writer.known, reader.known)
      BY <3>1, LogNow, BeginsFacts, AgreeIfBegin
    <3>4. Agree(events, writer.known) /\ Agree(events, reader.known)
      BY <3>1, LogNow, AgreeIfBegin
    <3> QED BY <3>2, <3>3, <3>4
  <2> QED BY <2>1, <2>2
<1> QED BY <1>1, LogInvariant, PTL

(* Nothing of a task with a tombstone returns: late uploads, mailbox       *)
(* deliveries, archives and restored snapshots are all turned away         *)
(* (encrypted-tasks.js, retention.js).                                     *)
THEOREM DeletedStaysDeletedHolds == LogSpec => []DeletedStaysDeleted
<1>1. LogInv => DeletedStaysDeleted
  BY DEF LogInv
<1> QED BY <1>1, LogInvariant, PTL

-----------------------------------------------------------------------------
(* EncryptedHost: who is let in, and who stays out.                        *)

LEMMA HostConstants ==
  /\ Concerns \subseteq {"device", "signer", "recover", "delete"}
  /\ MaxConcerns \in Nat /\ MaxGenerations \in Nat /\ MaxLives \in Nat
  BY HostAssumption

USE HostConstants

-----------------------------------------------------------------------------
(* The inductive invariant.                                                *)
Pcs == {"idle", "asked", "read", "deletion", "stopping", "telling", "decide", "applying", "removals",
        "acknowledge", "seal", "deliver", "share", "start", "none"}
Authorities == {"genesis", "appointed", "revoked"}
Hosts == [observed : Nat, membership : Nat, reconciled : BOOLEAN, gen : Nat, nonce : Nat,
          open : BOOLEAN, running : BOOLEAN]
Sweeps == [pc : Pcs, for : {"none", "removals", "seal", "deliver", "share"}, gen : Nat, nonce : Nat,
           seq : Nat, proof : Int, bare : BOOLEAN]
HostDisks == [floor : Nat, rotated : Nat, due : BOOLEAN, authority : Authorities, epoch : BOOLEAN,
          recovery : {"none", "pending", "active"}, fence : BOOLEAN,
          deletion : {"none", "applied", "acknowledged"}]

HostShapes ==
  /\ signedLog \in Seq(Concerns) /\ LogHead <= MaxConcerns
  /\ challenges \in [nonce : Nat, proof : Int] /\ challenges.proof \in -1 .. LogHead
  /\ receipts \subseteq {"device", "delete"}
  /\ host \in Hosts /\ sweep \in Sweeps /\ disk \in HostDisks
  /\ holds \in BOOLEAN /\ handed \in BOOLEAN /\ lives \in Nat
  /\ proposal \in [seq : Nat, gen : Nat, floor : Nat, authority : Authorities \cup {"none"}]
  /\ proposal.seq <= LogHead
  /\ host.observed <= LogHead /\ host.membership <= LogHead /\ sweep.seq <= LogHead
  /\ disk.floor <= LogHead /\ disk.rotated <= disk.floor

(* What the sweep goes on with is no older than what the room was rotated  *)
(* for and, once it applies removals, no newer than the floor on the disk; *)
(* what was proved on a connection is no older than the disk.              *)
Late == {"deletion", "stopping", "telling", "decide", "applying", "removals"}
SweepInv ==
  /\ sweep.pc \in Late => sweep.seq >= disk.rotated
  /\ sweep.gen <= host.gen
  /\ host.reconciled => host.membership >= disk.floor
  /\ sweep.pc = "applying" /\ sweep.gen = host.gen =>
       host.membership = sweep.seq /\ disk.floor = sweep.seq
  /\ sweep.pc = "removals" => sweep.seq <= disk.floor
  /\ disk.authority = "revoked" => host.membership <= disk.floor

(* A removal the room was rotated for leaves the device without a session, *)
(* and only such a removal is acknowledged.                                *)
RemovalInv ==
  /\ "device" \in receipts \/ disk.due \/ sweep.pc = "acknowledge" => Says("device", disk.rotated)
  /\ Says("device", disk.rotated) => ~holds
  /\ ~handed

(* The fence is there before the turn is stopped, and stays.               *)
FenceInv ==
  /\ sweep.pc \in {"deletion", "stopping", "telling"} \/ "delete" \in receipts => Says("delete", LogHead)
  /\ sweep.pc \in {"stopping", "telling"} => disk.fence
  /\ sweep.pc = "telling" \/ "delete" \in receipts => disk.fence /\ ~host.running

HostInv == HostShapes /\ SweepInv /\ RemovalInv /\ FenceInv

LEMMA HostShapesAreTypes == HostInv => HostTypeOK
<1> SUFFICES ASSUME HostInv PROVE HostTypeOK
  OBVIOUS
<1>1. /\ Len(signedLog) <= MaxConcerns /\ \A i \in DOMAIN signedLog : signedLog[i] \in Concerns
      /\ LogHead \in Nat
  BY DEF HostInv, HostShapes, LogHead
<1>2. \A what, n : n \in 0 .. LogHead /\ Says(what, n) => what \in Concerns
  BY <1>1 DEF Says, LogHead, HostInv, HostShapes
<1>3. receipts \subseteq Concerns
  <2>1. "device" \in receipts => "device" \in Concerns
    BY <1>1, <1>2 DEF HostInv, RemovalInv, HostShapes, HostDisks
  <2>2. "delete" \in receipts => "delete" \in Concerns
    BY <1>1, <1>2 DEF HostInv, FenceInv
  <2> QED BY <2>1, <2>2 DEF HostInv, HostShapes
<1>4. /\ disk.floor \in 0..LogHead /\ disk.rotated \in 0..LogHead
      /\ disk.authority \in {"genesis", "appointed", "revoked"}
      /\ disk.recovery \in {"none", "pending", "active"}
  BY <1>1 DEF HostInv, HostShapes, HostDisks, Authorities
<1>5. /\ host.observed \in 0..LogHead /\ host.membership \in 0..LogHead /\ host.gen \in Nat
      /\ {holds, handed, host.reconciled, host.running, host.open} \subseteq BOOLEAN
  BY <1>1 DEF HostInv, HostShapes, Hosts
<1>6. sweep.seq \in 0..LogHead /\ proposal.seq \in 0..LogHead
  BY <1>1 DEF HostInv, HostShapes, Sweeps
<1>7. challenges.proof \in -1..LogHead
  BY DEF HostInv, HostShapes
<1> QED BY <1>1, <1>3, <1>4, <1>5, <1>6, <1>7 DEF HostTypeOK

LEMMA HostNow ==
  ASSUME HostInv
  PROVE  /\ host \in Hosts /\ sweep \in Sweeps /\ disk \in HostDisks /\ LogHead \in Nat
         /\ host.observed <= LogHead /\ host.membership <= LogHead /\ sweep.seq <= LogHead
         /\ disk.floor <= LogHead /\ disk.rotated <= disk.floor /\ sweep.gen <= host.gen
         /\ Floor \in Nat /\ Floor <= LogHead /\ disk.floor <= Floor /\ host.observed <= Floor
         /\ host.reconciled \in BOOLEAN /\ host.running \in BOOLEAN /\ holds \in BOOLEAN
         /\ host.gen \in Nat /\ sweep.gen \in Nat /\ sweep.seq \in Nat /\ disk.floor \in Nat
         /\ disk.rotated \in Nat /\ host.membership \in Nat /\ host.observed \in Nat
<1>1. /\ host \in Hosts /\ sweep \in Sweeps /\ disk \in HostDisks /\ holds \in BOOLEAN
      /\ host.observed <= LogHead /\ host.membership <= LogHead /\ sweep.seq <= LogHead
      /\ disk.floor <= LogHead /\ disk.rotated <= disk.floor /\ sweep.gen <= host.gen
  BY DEF HostInv, HostShapes, SweepInv
<1>2. /\ host.reconciled \in BOOLEAN /\ host.running \in BOOLEAN
      /\ host.gen \in Nat /\ host.membership \in Nat /\ host.observed \in Nat
  BY <1>1 DEF Hosts
<1>3. sweep.gen \in Nat /\ sweep.seq \in Nat
  BY <1>1 DEF Sweeps
<1>4. disk.floor \in Nat /\ disk.rotated \in Nat
  BY <1>1 DEF HostDisks
<1>5. LogHead \in Nat
  BY DEF HostInv, HostShapes, LogHead
<1>6. Floor \in Nat /\ Floor <= LogHead /\ disk.floor <= Floor /\ host.observed <= Floor
  BY <1>1, <1>2, <1>4, <1>5 DEF Floor
<1> QED BY <1>1, <1>2, <1>3, <1>4, <1>5, <1>6

LEMMA HostInvInit == HostInit => HostInv
<1> SUFFICES ASSUME HostInit PROVE HostInv
  OBVIOUS
<1>1. LogHead = 0 /\ signedLog \in Seq(Concerns) /\ \A what : ~Says(what, 0)
  BY DEF HostInit, LogHead, Says
<1>2. host \in Hosts /\ sweep \in Sweeps /\ disk \in HostDisks
  BY DEF HostInit, HostStarted, NoSweep, Hosts, Sweeps, HostDisks, Pcs, Authorities
<1>3. challenges \in [nonce : Nat, proof : Int] /\ challenges.proof \in -1 .. LogHead
  BY <1>1 DEF HostInit
<1>4. /\ proposal \in [seq : Nat, gen : Nat, floor : Nat, authority : Authorities \cup {"none"}]
      /\ proposal.seq = 0
  BY DEF HostInit, NoProposal
<1>5. /\ host.observed = 0 /\ host.membership = 0 /\ sweep.seq = 0
      /\ disk.floor = 0 /\ disk.rotated = 0
  BY DEF HostInit, HostStarted, NoSweep
<1>6. /\ receipts \subseteq {"device", "delete"} /\ holds \in BOOLEAN /\ handed \in BOOLEAN
      /\ lives \in Nat
  BY DEF HostInit
<1>7. HostShapes
  BY <1>1, <1>2, <1>3, <1>4, <1>5, <1>6 DEF HostShapes
<1>8. SweepInv /\ RemovalInv /\ FenceInv
  BY <1>1 DEF HostInit, SweepInv, RemovalInv, FenceInv, HostStarted, NoSweep, Late
<1> QED BY <1>7, <1>8 DEF HostInv

-----------------------------------------------------------------------------
(* A step that leaves the log, the receipts and the sessions alone.        *)
LEMMA MovesInv ==
  ASSUME HostInv,
         UNCHANGED <<signedLog, receipts, holds, handed>>,
         host' \in Hosts, sweep' \in Sweeps, disk' \in HostDisks, lives' \in Nat,
         challenges' \in [nonce : Nat, proof : Int], challenges'.proof \in -1 .. LogHead,
         proposal' \in [seq : Nat, gen : Nat, floor : Nat, authority : Authorities \cup {"none"}],
         proposal'.seq <= LogHead,
         host'.observed <= LogHead, host'.membership <= LogHead, sweep'.seq <= LogHead,
         disk'.floor <= LogHead, disk.rotated <= disk'.floor, sweep'.gen <= host'.gen,
         disk'.rotated = disk.rotated, disk'.due = disk.due, disk.fence => disk'.fence,
         host'.running => host.running,
         host'.reconciled => host'.membership >= disk'.floor,
         sweep'.pc \in Late => sweep'.seq >= disk.rotated,
         sweep'.pc = "applying" /\ sweep'.gen = host'.gen =>
           host'.membership = sweep'.seq /\ disk'.floor = sweep'.seq,
         sweep'.pc = "removals" => sweep'.seq <= disk'.floor,
         disk'.authority = "revoked" => host'.membership <= disk'.floor,
         sweep'.pc = "acknowledge" => sweep.pc = "acknowledge",
         sweep'.pc \in {"deletion", "stopping", "telling"} => Says("delete", LogHead),
         sweep'.pc \in {"stopping", "telling"} => disk'.fence,
         sweep'.pc = "telling" => sweep.pc = "telling"
  PROVE  HostInv'
<1>1. LogHead' = LogHead /\ \A what, n : Says(what, n)' <=> Says(what, n)
  BY DEF LogHead, Says
<1>2. HostShapes'
  BY <1>1 DEF HostInv, HostShapes
<1>3. SweepInv'
  BY DEF SweepInv
<1>4. RemovalInv'
  <2>1. Says("device", disk.rotated)' <=> Says("device", disk.rotated)
    BY DEF Says
  <2> QED BY <2>1 DEF HostInv, RemovalInv
<1>5. FenceInv'
  <2>1. Says("delete", LogHead)' <=> Says("delete", LogHead)
    BY DEF Says, LogHead
  <2> QED BY <2>1 DEF HostInv, FenceInv
<1> QED BY <1>2, <1>3, <1>4, <1>5 DEF HostInv

(* The team, the hub and time.                                             *)
LEMMA SignerSignsInv == ASSUME HostInv, SignerSigns PROVE HostInv'
<1>1. challenges' \in [nonce : Nat, proof : Int] /\ challenges'.proof = LogHead
  <2>1. challenges \in [nonce : Nat, proof : Int] /\ LogHead \in Int
    BY HostNow DEF HostInv, HostShapes
  <2> QED BY <2>1 DEF SignerSigns
<1>2. UNCHANGED <<signedLog, receipts, disk, host, sweep, proposal, holds, handed, lives>>
  BY DEF SignerSigns
<1> QED BY <1>1, <1>2, HostNow, MovesInv DEF HostInv, HostShapes, SweepInv, FenceInv

(* What becomes of a host that is disconnected, and of one that is stopped. *)
LEMMA DisconnectedFacts ==
  ASSUME NEW h \in Hosts
  PROVE  LET d == Disconnected(h)
         IN  /\ d \in Hosts /\ d.observed = h.observed /\ d.membership = h.membership
             /\ d.gen = h.gen + 1 /\ d.reconciled = FALSE /\ d.running = h.running
<1>1. h.gen + 1 \in Nat
  BY DEF Hosts
<1>2. Disconnected(h) \in Hosts
  BY <1>1 DEF Disconnected, Hosts
<1> QED BY <1>2 DEF Disconnected, Hosts

LEMMA ClosedFacts ==
  ASSUME NEW h \in Hosts
  PROVE  LET d == HostClosed(Disconnected(h))
         IN  /\ d \in Hosts /\ d.observed = h.observed /\ d.membership = h.membership
             /\ d.gen = h.gen + 1 /\ d.reconciled = FALSE /\ d.running = FALSE
<1> DEFINE c == Disconnected(h)
<1>1. /\ c \in Hosts /\ c.observed = h.observed /\ c.membership = h.membership
      /\ c.gen = h.gen + 1 /\ c.reconciled = FALSE
  BY DisconnectedFacts
<1> HIDE DEF c
<1>2. /\ HostClosed(c) \in Hosts /\ HostClosed(c).observed = c.observed
      /\ HostClosed(c).membership = c.membership /\ HostClosed(c).gen = c.gen
      /\ HostClosed(c).reconciled = c.reconciled /\ HostClosed(c).running = FALSE
  BY <1>1 DEF HostClosed, Hosts
<1> QED BY <1>1, <1>2 DEF c

(* What happens to the connection alone.                                   *)
LEMMA ConnectionInv ==
  ASSUME HostInv, UNCHANGED <<signedLog, challenges, receipts, disk, sweep, proposal, holds, handed, lives>>,
         host' \in Hosts, host'.observed = host.observed, host'.membership = host.membership,
         host'.gen >= host.gen, host'.reconciled => host.reconciled, host'.running => host.running
  PROVE  HostInv'
<1>1. /\ sweep.pc \in Late => sweep.seq >= disk.rotated
      /\ sweep.pc = "applying" /\ sweep.gen = host'.gen =>
           host'.membership = sweep.seq /\ disk.floor = sweep.seq
      /\ sweep.gen <= host'.gen
      /\ sweep.pc = "removals" => sweep.seq <= disk.floor
      /\ disk.authority = "revoked" => host'.membership <= disk.floor
      /\ host'.reconciled => host'.membership >= disk.floor
  BY HostNow DEF HostInv, SweepInv, Hosts
<1>2. /\ sweep.pc \in {"deletion", "stopping", "telling"} => Says("delete", LogHead)
      /\ sweep.pc \in {"stopping", "telling"} => disk.fence
  BY DEF HostInv, FenceInv
<1> QED BY <1>1, <1>2, HostNow, MovesInv DEF HostInv, HostShapes

LEMMA LinkDropsInv == ASSUME HostInv, LinkDrops PROVE HostInv'
<1>1. host' = Disconnected(host) /\ host \in Hosts
  BY HostNow DEF LinkDrops
<1>2. /\ host' \in Hosts /\ host'.observed = host.observed /\ host'.membership = host.membership
      /\ host'.gen = host.gen + 1 /\ host'.reconciled = FALSE /\ host'.running = host.running
  BY <1>1, DisconnectedFacts
<1> QED BY <1>2, HostNow, ConnectionInv DEF LinkDrops

LEMMA ChallengeLapsesInv == ASSUME HostInv, ChallengeLapses PROVE HostInv'
<1>1. host' = [host EXCEPT !.nonce = 0] /\ host \in Hosts
  BY HostNow DEF ChallengeLapses
<1>2. /\ host' \in Hosts /\ host'.observed = host.observed /\ host'.membership = host.membership
      /\ host'.gen = host.gen /\ host'.reconciled = host.reconciled /\ host'.running = host.running
  BY <1>1 DEF Hosts
<1> QED BY <1>2, HostNow, ConnectionInv DEF ChallengeLapses

LEMMA TurnFinishesInv == ASSUME HostInv, TurnFinishes PROVE HostInv'
<1>1. host' = [host EXCEPT !.running = FALSE] /\ host \in Hosts
  BY HostNow DEF TurnFinishes
<1>2. /\ host' \in Hosts /\ host'.observed = host.observed /\ host'.membership = host.membership
      /\ host'.gen = host.gen /\ host'.reconciled = host.reconciled /\ host'.running = FALSE
  BY <1>1 DEF Hosts
<1> QED BY <1>2, HostNow, ConnectionInv DEF TurnFinishes

LEMMA HostDiesInv == ASSUME HostInv, HostDies PROVE HostInv'
<1>1. UNCHANGED <<signedLog, challenges, receipts, disk, holds, handed>> /\ lives' \in Nat
  BY DEF HostDies, HostInv, HostShapes
<1>2. /\ host' \in Hosts /\ host'.observed = 0 /\ host'.membership = 0 /\ host'.gen = 0
      /\ host'.reconciled = FALSE /\ host'.running = FALSE
  BY DEF HostDies, HostStarted, Hosts
<1>3. sweep' \in Sweeps /\ sweep'.seq = 0 /\ sweep'.gen = 0 /\ sweep'.pc = "idle"
  BY DEF HostDies, SweepEnds, NoSweep, Sweeps, Pcs
<1>4. /\ proposal' \in [seq : Nat, gen : Nat, floor : Nat, authority : Authorities \cup {"none"}]
      /\ proposal'.seq = 0
  BY DEF HostDies, NoProposal
<1>5. challenges \in [nonce : Nat, proof : Int] /\ challenges.proof \in -1 .. LogHead
  BY DEF HostInv, HostShapes
<1> QED BY <1>1, <1>2, <1>3, <1>4, <1>5, HostNow, MovesInv DEF Late

-----------------------------------------------------------------------------
(* The sweep.                                                              *)

(* Where a sweep that ends, or asks again, is.                             *)
LEMMA IdleFacts == /\ NoSweep \in Sweeps /\ NoSweep.seq = 0 /\ NoSweep.gen = 0 /\ NoSweep.pc = "idle"
BY DEF NoSweep, Sweeps, Pcs

LEMMA AskFacts ==
  ASSUME NEW h \in Hosts, NEW what \in {"removals", "seal", "deliver", "share"}
  PROVE  /\ Asks(what, h) \in Sweeps /\ Asks(what, h).seq = 0 /\ Asks(what, h).gen = h.gen
         /\ Asks(what, h).pc = "asked"
<1>1. h.gen \in Nat /\ h.nonce \in Nat
  BY DEF Hosts
<1>2. Asks(what, h) \in Sweeps
  BY <1>1, IdleFacts DEF Asks, Sweeps, Pcs
<1> QED BY <1>2, IdleFacts DEF Asks, Sweeps

(* The sweep alone moves, to a place that asks nothing of the others.      *)
Quiet == {"idle", "asked", "read", "seal", "deliver", "share", "start", "none"}
LEMMA HostQuietInv ==
  ASSUME HostInv, UNCHANGED <<signedLog, challenges, receipts, disk, host, proposal, holds, handed, lives>>,
         sweep' \in Sweeps, sweep'.seq <= LogHead, sweep'.gen <= host.gen, sweep'.pc \in Quiet
  PROVE  HostInv'
<1>1. /\ sweep'.pc \notin Late /\ sweep'.pc \notin {"deletion", "stopping", "telling"}
      /\ sweep'.pc # "applying" /\ sweep'.pc # "removals" /\ sweep'.pc # "acknowledge"
      /\ sweep'.pc # "telling"
  BY DEF Quiet, Late
<1>2. /\ lives' \in Nat /\ challenges' \in [nonce : Nat, proof : Int]
      /\ challenges'.proof \in -1 .. LogHead /\ proposal'.seq <= LogHead
      /\ proposal' \in [seq : Nat, gen : Nat, floor : Nat, authority : Authorities \cup {"none"}]
  BY DEF HostInv, HostShapes
<1>3. /\ host' \in Hosts /\ disk' \in HostDisks /\ host'.observed <= LogHead
      /\ host'.membership <= LogHead /\ disk'.floor <= LogHead /\ disk.rotated <= disk'.floor
      /\ sweep'.gen <= host'.gen
  BY HostNow
<1>4. /\ host'.reconciled => host'.membership >= disk'.floor
      /\ disk'.authority = "revoked" => host'.membership <= disk'.floor
  BY DEF HostInv, SweepInv
<1> QED BY <1>1, <1>2, <1>3, <1>4, MovesInv

LEMMA SweepBeginsInv == ASSUME HostInv, SweepBegins PROVE HostInv'
<1>0. UNCHANGED <<signedLog, challenges, receipts, disk, proposal, holds, handed, lives>>
  BY DEF SweepBegins
<1>1. CASE disk.authority # "revoked"
  BY <1>0, <1>1, HostNow, AskFacts, HostQuietInv DEF SweepBegins, Quiet
<1>2. CASE disk.authority = "revoked"
  <2>1. host' = HostClosed(Disconnected(host))
    BY <1>2 DEF SweepBegins
  <2>2. /\ host' \in Hosts /\ host'.observed = host.observed /\ host'.membership = host.membership
        /\ host'.gen = host.gen + 1 /\ host'.reconciled = FALSE /\ host'.running = FALSE
        /\ host.membership <= disk.floor
    BY <1>2, <2>1, HostNow, ClosedFacts DEF HostInv, SweepInv
  <2>3. /\ sweep' \in Sweeps /\ sweep'.gen = host.gen + 1 /\ sweep'.pc \in {"asked", "removals"}
        /\ sweep'.seq <= LogHead
        /\ sweep'.pc = "removals" => sweep'.seq >= disk.rotated /\ sweep'.seq <= disk.floor
    <3>1. CASE host.membership >= disk.floor
      <4>0. host.membership <= disk.floor
        BY <1>2 DEF HostInv, SweepInv
      <4>1. sweep' = [NoSweep EXCEPT !.pc = "removals", !.seq = host.membership, !.gen = host.gen + 1, !.bare = TRUE]
        BY <1>2, <3>1 DEF SweepBegins
      <4>2. host.gen + 1 \in Nat /\ host.membership \in Nat
        BY HostNow
      <4>3. sweep' \in Sweeps
        BY <4>1, <4>2, IdleFacts DEF Sweeps, Pcs
      <4>4. sweep'.gen = host.gen + 1 /\ sweep'.pc = "removals" /\ sweep'.seq = host.membership
        BY <4>1, <4>2, IdleFacts DEF Sweeps
      <4> QED BY <3>1, <4>0, <4>3, <4>4, HostNow
    <3>2. CASE ~(host.membership >= disk.floor)
      <4>1. sweep' = [Asks("removals", host') EXCEPT !.bare = TRUE]
        BY <1>2, <3>2 DEF SweepBegins
      <4> DEFINE a == Asks("removals", host')
      <4>3. a \in Sweeps /\ a.seq = 0 /\ a.gen = host'.gen /\ a.pc = "asked"
        BY <2>2, AskFacts
      <4>4. sweep' = [a EXCEPT !.bare = TRUE]
        BY <4>1
      <4> HIDE DEF a
      <4>5. sweep' \in Sweeps /\ sweep'.seq = 0 /\ sweep'.gen = host'.gen /\ sweep'.pc = "asked"
        BY <4>3, <4>4 DEF Sweeps
      <4> QED BY <2>2, <4>5, HostNow
    <3> QED BY <3>1, <3>2
  <2>4. /\ challenges \in [nonce : Nat, proof : Int] /\ challenges.proof \in -1 .. LogHead
        /\ proposal \in [seq : Nat, gen : Nat, floor : Nat, authority : Authorities \cup {"none"}]
        /\ proposal.seq <= LogHead /\ lives \in Nat
    BY DEF HostInv, HostShapes
  <2> QED BY <1>0, <2>2, <2>3, <2>4, HostNow, MovesInv DEF Late
<1> QED BY <1>1, <1>2

LEMMA HubRepliesInv == ASSUME HostInv, HubReplies PROVE HostInv'
<1>1. challenges.proof \in Int
  BY DEF HostInv, HostShapes
<1>2. PICK p \in Int : sweep' = [sweep EXCEPT !.pc = "read", !.seq = LogHead, !.proof = p]
  <2>1. (IF challenges.nonce = sweep.nonce /\ sweep.nonce # 0 THEN challenges.proof ELSE -1) \in Int
    BY <1>1
  <2> QED BY <2>1 DEF HubReplies
<1>3. sweep' \in Sweeps /\ sweep'.seq = LogHead /\ sweep'.gen = sweep.gen /\ sweep'.pc = "read"
  BY <1>2, HostNow DEF Sweeps, Pcs
<1> QED BY <1>3, HostNow, HostQuietInv DEF HubReplies, Quiet

LEMMA RequestFailsInv == ASSUME HostInv, RequestFails PROVE HostInv'
BY IdleFacts, HostNow, HostQuietInv DEF RequestFails, SweepEnds, Quiet

LEMMA Others ==
  ASSUME HostInv
  PROVE  /\ challenges \in [nonce : Nat, proof : Int] /\ challenges.proof \in -1 .. LogHead
         /\ proposal \in [seq : Nat, gen : Nat, floor : Nat, authority : Authorities \cup {"none"}]
         /\ proposal.seq <= LogHead /\ lives \in Nat
         /\ sweep.pc \in Late => sweep.seq >= disk.rotated
         /\ host.reconciled => host.membership >= disk.floor
         /\ sweep.pc = "applying" /\ sweep.gen = host.gen =>
              host.membership = sweep.seq /\ disk.floor = sweep.seq
         /\ sweep.pc = "removals" => sweep.seq <= disk.floor
         /\ disk.authority = "revoked" => host.membership <= disk.floor
         /\ sweep.pc \in {"deletion", "stopping", "telling"} => Says("delete", LogHead)
         /\ sweep.pc \in {"stopping", "telling"} => disk.fence
BY DEF HostInv, HostShapes, SweepInv, FenceInv

(* Only where the sweep is changes.                                        *)
LEMMA SweepFacts ==
  ASSUME NEW s \in Sweeps, NEW pc \in Pcs
  PROVE  LET n == [s EXCEPT !.pc = pc]
         IN  n \in Sweeps /\ n.seq = s.seq /\ n.gen = s.gen /\ n.pc = pc
BY DEF Sweeps

LEMMA NotProvedInv == ASSUME HostInv, NotProved PROVE HostInv'
BY IdleFacts, HostNow, HostQuietInv DEF NotProved, Undecided, Deciding, SweepEnds, Quiet

LEMMA HistorySealedInv == ASSUME HostInv, HistorySealed PROVE HostInv'
BY AskFacts, HostNow, HostQuietInv DEF HistorySealed, Quiet

LEMMA DeletionFencedInv == ASSUME HostInv, DeletionFenced PROVE HostInv'
<1>1. /\ disk' = [disk EXCEPT !.fence = TRUE] /\ sweep' = [sweep EXCEPT !.pc = "stopping"]
      /\ sweep.pc = "deletion"
      /\ UNCHANGED <<signedLog, challenges, receipts, host, proposal, holds, handed, lives>>
  BY DEF DeletionFenced
<1>2. /\ disk' \in HostDisks /\ disk'.floor = disk.floor /\ disk'.rotated = disk.rotated
      /\ disk'.due = disk.due /\ disk'.fence = TRUE /\ disk'.authority = disk.authority
  BY <1>1, HostNow DEF HostDisks
<1>3. /\ sweep' \in Sweeps /\ sweep'.seq = sweep.seq /\ sweep'.gen = sweep.gen
      /\ sweep'.pc = "stopping"
  BY <1>1, HostNow, SweepFacts DEF Pcs
<1> QED BY <1>1, <1>2, <1>3, HostNow, Others, MovesInv DEF Late

LEMMA MembershipReadInv == ASSUME HostInv, MembershipRead PROVE HostInv'
<1>0. /\ UNCHANGED <<signedLog, challenges, receipts, proposal, holds, handed, lives>>
      /\ sweep.pc = "read"
  BY DEF MembershipRead
<1>1. CASE sweep.seq < Floor
  <2>1. /\ host' = [host EXCEPT !.reconciled = @ /\ sweep.gen # host.gen]
        /\ sweep' = NoSweep /\ disk' = disk
    BY <1>1 DEF MembershipRead, SweepEnds
  <2>2. /\ host' \in Hosts /\ host'.observed = host.observed /\ host'.membership = host.membership
        /\ host'.gen = host.gen /\ host'.running = host.running
    BY <2>1, HostNow DEF Hosts
  <2>3. host'.reconciled => host.reconciled
    BY <2>1, HostNow DEF Hosts
  <2> QED BY <1>0, <2>1, <2>2, <2>3, IdleFacts, HostNow, Others, MovesInv DEF Late
<1>2. CASE ~(sweep.seq < Floor) /\ sweep.bare
  <2>1. /\ host' = [host EXCEPT !.observed = sweep.seq, !.membership = sweep.seq]
        /\ disk' = [disk EXCEPT !.floor = sweep.seq] /\ sweep' = [sweep EXCEPT !.pc = "removals"]
    BY <1>2 DEF MembershipRead
  <2>2. /\ host' \in Hosts /\ host'.observed = sweep.seq /\ host'.membership = sweep.seq
        /\ host'.gen = host.gen /\ host'.running = host.running
    BY <2>1, HostNow DEF Hosts
  <2>3. /\ disk' \in HostDisks /\ disk'.floor = sweep.seq /\ disk'.rotated = disk.rotated
        /\ disk'.due = disk.due /\ disk'.fence = disk.fence
    BY <2>1, HostNow DEF HostDisks
  <2>4. sweep' \in Sweeps /\ sweep'.seq = sweep.seq /\ sweep'.gen = sweep.gen /\ sweep'.pc = "removals"
    BY <2>1, HostNow, SweepFacts DEF Pcs
  <2> QED BY <1>0, <1>2, <2>2, <2>3, <2>4, HostNow, Others, MovesInv DEF Late
<1>3. CASE ~(sweep.seq < Floor) /\ ~sweep.bare
  <2>1. /\ host' = [host EXCEPT !.observed = sweep.seq] /\ disk' = disk
        /\ \E pc \in {"deletion", "decide"} :
             /\ sweep' = [sweep EXCEPT !.pc = pc]
             /\ pc = "deletion" => Says("delete", sweep.seq)
    BY <1>3 DEF MembershipRead
  <2>2. /\ host' \in Hosts /\ host'.observed = sweep.seq /\ host'.membership = host.membership
        /\ host'.gen = host.gen /\ host'.running = host.running
        /\ host'.reconciled = host.reconciled
    BY <2>1, HostNow DEF Hosts
  <2>3. /\ sweep' \in Sweeps /\ sweep'.seq = sweep.seq /\ sweep'.gen = sweep.gen
        /\ sweep'.pc \in {"deletion", "decide"}
        /\ sweep'.pc = "deletion" => Says("delete", sweep.seq)
    <3>1. PICK pc \in {"deletion", "decide"} :
            /\ sweep' = [sweep EXCEPT !.pc = pc]
            /\ pc = "deletion" => Says("delete", sweep.seq)
      BY <2>1
    <3>2. pc \in Pcs /\ sweep \in Sweeps
      BY HostNow DEF Pcs
    <3>3. /\ sweep' \in Sweeps /\ sweep'.seq = sweep.seq /\ sweep'.gen = sweep.gen
          /\ sweep'.pc = pc
      BY <3>1, <3>2, SweepFacts
    <3> QED BY <3>1, <3>3
  <2>4. Says("delete", sweep.seq) => Says("delete", LogHead)
    BY HostNow DEF Says
  <2> QED BY <1>0, <1>3, <2>1, <2>2, <2>3, <2>4, HostNow, Others, MovesInv DEF Late
<1> QED BY <1>1, <1>2, <1>3

-----------------------------------------------------------------------------
(* Deciding: each way out.                                                 *)
LEMMA DecidingFacts ==
  ASSUME HostInv, Deciding
  PROVE  /\ UNCHANGED <<signedLog, receipts, proposal, holds, handed, lives>>
         /\ sweep.pc = "decide" /\ sweep.seq >= disk.rotated
BY HostNow, Others DEF Deciding, Late

(* A host stopped at the membership it read.                               *)
LEMMA StoppedAtFacts ==
  ASSUME NEW h \in Hosts, NEW n \in Nat
  PROVE  LET d == HostClosed([Disconnected(h) EXCEPT !.membership = n])
         IN  /\ d \in Hosts /\ d.observed = h.observed /\ d.membership = n
             /\ d.gen = h.gen + 1 /\ d.reconciled = FALSE /\ d.running = FALSE
<1> DEFINE c == Disconnected(h)
<1>1. c \in Hosts /\ c.observed = h.observed /\ c.gen = h.gen + 1 /\ c.reconciled = FALSE
  BY DisconnectedFacts
<1> HIDE DEF c
<1> DEFINE e == [c EXCEPT !.membership = n]
<1>2. /\ e \in Hosts /\ e.observed = c.observed /\ e.membership = n /\ e.gen = c.gen
      /\ e.reconciled = c.reconciled
  BY <1>1 DEF Hosts
<1> HIDE DEF e
<1>3. /\ HostClosed(e) \in Hosts /\ HostClosed(e).observed = e.observed
      /\ HostClosed(e).membership = e.membership /\ HostClosed(e).gen = e.gen
      /\ HostClosed(e).reconciled = e.reconciled /\ HostClosed(e).running = FALSE
  BY <1>2 DEF HostClosed, Hosts
<1> QED BY <1>1, <1>2, <1>3 DEF c, e

LEMMA RecoveryStopsInv == ASSUME HostInv, RecoveryStops PROVE HostInv'
<1>1. Deciding /\ challenges' = challenges /\ sweep' = NoSweep
  BY DEF RecoveryStops, SweepEnds
<1>2. /\ host' \in Hosts /\ host'.observed = host.observed /\ host'.membership = sweep.seq
      /\ host'.gen = host.gen + 1 /\ host'.reconciled = FALSE /\ host'.running = FALSE
  BY HostNow, StoppedAtFacts DEF RecoveryStops
<1>3. /\ disk' \in HostDisks /\ disk'.floor = sweep.seq /\ disk'.rotated = disk.rotated
      /\ disk'.due = disk.due /\ disk'.fence = disk.fence
  BY HostNow DEF RecoveryStops, HostDisks
<1> QED BY <1>1, <1>2, <1>3, IdleFacts, DecidingFacts, HostNow, Others, MovesInv DEF Late

LEMMA SignerGoneInv == ASSUME HostInv, SignerGone PROVE HostInv'
<1>1. Deciding /\ challenges' = challenges
  BY DEF SignerGone
<1>2. /\ host' \in Hosts /\ host'.observed = host.observed /\ host'.membership = sweep.seq
      /\ host'.gen = host.gen + 1 /\ host'.reconciled = FALSE /\ host'.running = FALSE
  BY HostNow, StoppedAtFacts DEF SignerGone
<1>3. /\ disk' \in HostDisks /\ disk'.floor = sweep.seq /\ disk'.rotated = disk.rotated
      /\ disk'.due = disk.due /\ disk'.fence = disk.fence
  BY HostNow DEF SignerGone, HostDisks, Authorities
<1>4. /\ sweep' \in Sweeps /\ sweep'.seq <= LogHead /\ sweep'.gen <= host'.gen
      /\ sweep'.pc \in {"idle", "removals"}
      /\ sweep'.pc = "removals" => sweep'.seq = sweep.seq
  <2>1. CASE sweep.for = "removals"
    <3>1. sweep' = [sweep EXCEPT !.pc = "removals", !.bare = TRUE, !.gen = host'.gen] /\ host'.gen \in Nat
      BY <1>2, <2>1 DEF SignerGone, Hosts
    <3>2. /\ sweep' \in Sweeps /\ sweep'.seq = sweep.seq /\ sweep'.gen = host'.gen
          /\ sweep'.pc = "removals"
      BY <3>1, HostNow DEF Sweeps, Pcs
    <3> QED BY <3>1, <3>2, HostNow
  <2>2. CASE sweep.for # "removals"
    <3>1. sweep' = NoSweep
      BY <2>2 DEF SignerGone
    <3> QED BY <3>1, <1>2, HostNow, IdleFacts
  <2> QED BY <2>1, <2>2
<1> QED BY <1>1, <1>2, <1>3, <1>4, DecidingFacts, HostNow, Others, MovesInv DEF Late

LEMMA ChallengePostedInv ==
  ASSUME HostInv, NEW lost \in BOOLEAN, ChallengePosted(lost) PROVE HostInv'
<1>1. Deciding /\ ~host.reconciled /\ sweep' = NoSweep /\ disk' = disk
  BY DEF ChallengePosted, Undecided, SweepEnds, Unproved
<1>2. PICK n \in Nat : host' = [host EXCEPT !.gen = host.gen + 1, !.nonce = n]
  <2>1. (IF lost THEN 0 ELSE host.gen + 1) \in Nat
    BY HostNow
  <2> QED BY <2>1 DEF ChallengePosted
<1>3. /\ host' \in Hosts /\ host'.observed = host.observed /\ host'.membership = host.membership
      /\ host'.gen = host.gen + 1 /\ host'.reconciled = host.reconciled
      /\ host'.running = host.running
  <2>1. host.gen + 1 \in Nat
    BY HostNow
  <2> QED BY <1>2, <2>1, HostNow DEF Hosts
<1>4. challenges' \in [nonce : Nat, proof : Int] /\ challenges'.proof \in -1 .. LogHead
  <2>1. host.gen + 1 \in Nat /\ -1 \in Int /\ -1 \in -1 .. LogHead
    BY HostNow
  <2>2. CASE lost
    BY <2>2, Others DEF ChallengePosted
  <2>3. CASE ~lost
    <3>1. challenges' = [nonce |-> host.gen + 1, proof |-> -1]
      BY <2>3 DEF ChallengePosted
    <3> QED BY <2>1, <3>1
  <2> QED BY <2>2, <2>3
<1> QED BY <1>1, <1>3, <1>4, IdleFacts, DecidingFacts, HostNow, Others, MovesInv DEF Late

LEMMA MembershipTakenInv == ASSUME HostInv, MembershipTaken PROVE HostInv'
<1>0. Deciding /\ challenges' = challenges /\ sweep.gen = host.gen
  BY DEF MembershipTaken, Undecided, Superseded
<1>1. CASE sweep.seq < Floor
  <2>1. host' = [host EXCEPT !.reconciled = FALSE] /\ sweep' = NoSweep /\ disk' = disk
    BY <1>1 DEF MembershipTaken, SweepEnds
  <2>2. /\ host' \in Hosts /\ host'.observed = host.observed /\ host'.membership = host.membership
        /\ host'.gen = host.gen /\ host'.reconciled = FALSE /\ host'.running = host.running
    BY <2>1, HostNow DEF Hosts
  <2> QED BY <1>0, <2>1, <2>2, IdleFacts, DecidingFacts, HostNow, Others, MovesInv DEF Late
<1>2. CASE ~(sweep.seq < Floor)
  <2>1. /\ host' = [host EXCEPT !.membership = sweep.seq] /\ disk' = [disk EXCEPT !.floor = sweep.seq]
        /\ sweep' = [sweep EXCEPT !.pc = "applying"]
    BY <1>2 DEF MembershipTaken
  <2>2. /\ host' \in Hosts /\ host'.observed = host.observed /\ host'.membership = sweep.seq
        /\ host'.gen = host.gen /\ host'.running = host.running
    BY <2>1, HostNow DEF Hosts
  <2>3. /\ disk' \in HostDisks /\ disk'.floor = sweep.seq /\ disk'.rotated = disk.rotated
        /\ disk'.due = disk.due /\ disk'.fence = disk.fence
    BY <2>1, HostNow DEF HostDisks
  <2>4. sweep' \in Sweeps /\ sweep'.seq = sweep.seq /\ sweep'.gen = sweep.gen /\ sweep'.pc = "applying"
    BY <2>1, HostNow, SweepFacts DEF Pcs
  <2> QED BY <1>0, <2>2, <2>3, <2>4, DecidingFacts, HostNow, Others, MovesInv DEF Late
<1> QED BY <1>1, <1>2

LEMMA CheckpointFailsInv == ASSUME HostInv, CheckpointFails PROVE HostInv'
<1>1. /\ Deciding /\ challenges' = challenges /\ sweep' = NoSweep /\ disk' = disk
      /\ disk.authority # "revoked"
  BY DEF CheckpointFails, Undecided, SweepEnds, SignerRevoked
<1>2. /\ host' \in Hosts /\ host'.observed = host.observed /\ host'.membership = sweep.seq
      /\ host'.gen = host.gen + 1 /\ host'.reconciled = FALSE /\ host'.running = FALSE
  BY HostNow, StoppedAtFacts DEF CheckpointFails
<1> QED BY <1>1, <1>2, IdleFacts, DecidingFacts, HostNow, Others, MovesInv DEF Late

-----------------------------------------------------------------------------
(* The person at the host.                                                 *)
LEMMA AppointmentPreparedInv == ASSUME HostInv, AppointmentPrepared PROVE HostInv'
<1>1. /\ UNCHANGED <<signedLog, challenges, receipts, disk, sweep, holds, handed, lives>>
      /\ host' = [host EXCEPT !.observed = LogHead]
      /\ proposal' = [seq |-> LogHead, gen |-> host.gen, floor |-> disk.floor, authority |-> disk.authority]
  BY DEF AppointmentPrepared
<1>2. /\ host' \in Hosts /\ host'.observed = LogHead /\ host'.membership = host.membership
      /\ host'.gen = host.gen /\ host'.reconciled = host.reconciled /\ host'.running = host.running
  BY <1>1, HostNow DEF Hosts
<1>3. /\ proposal' \in [seq : Nat, gen : Nat, floor : Nat, authority : Authorities \cup {"none"}]
      /\ proposal'.seq = LogHead
  <2>1. disk.authority \in Authorities
    BY HostNow DEF HostDisks
  <2> QED BY <1>1, <2>1, HostNow
<1> QED BY <1>1, <1>2, <1>3, HostNow, Others, MovesInv DEF Late

LEMMA AppointmentConfirmedInv == ASSUME HostInv, AppointmentConfirmed PROVE HostInv'
<1> DEFINE n == LogHead
           taken == proposal = [seq |-> n, gen |-> host.gen, floor |-> disk.floor, authority |-> disk.authority]
           seen == [host EXCEPT !.observed = n]
<1>0. /\ UNCHANGED <<signedLog, challenges, receipts, sweep, holds, handed, lives>>
      /\ proposal' \in [seq : Nat, gen : Nat, floor : Nat, authority : Authorities \cup {"none"}]
      /\ proposal'.seq = 0
  BY DEF AppointmentConfirmed, NoProposal
<1>1. /\ seen \in Hosts /\ seen.observed = n /\ seen.membership = host.membership
      /\ seen.gen = host.gen /\ seen.reconciled = host.reconciled /\ seen.running = host.running
  BY HostNow DEF Hosts
<1>2. CASE ~taken
  <2>1. host' = seen /\ disk' = disk
    BY <1>2 DEF AppointmentConfirmed
  <2> QED BY <1>0, <1>1, <2>1, HostNow, Others, MovesInv DEF Late
<1>3. CASE taken
  <2>1. host' = HostClosed([Disconnected(seen) EXCEPT !.membership = n])
    BY <1>3 DEF AppointmentConfirmed
  <2>2. /\ host' \in Hosts /\ host'.observed = n /\ host'.membership = n
        /\ host'.gen = host.gen + 1 /\ host'.reconciled = FALSE /\ host'.running = FALSE
    <3> HIDE DEF n, seen
    <3>1. n \in Nat
      BY HostNow DEF n
    <3>2. seen \in Hosts
      BY <1>1
    <3>3. /\ host' \in Hosts /\ host'.observed = seen.observed /\ host'.membership = n
          /\ host'.gen = seen.gen + 1 /\ host'.reconciled = FALSE /\ host'.running = FALSE
      BY <2>1, <3>1, <3>2, StoppedAtFacts
    <3> QED BY <1>1, <3>3
  <2>3. /\ disk' \in HostDisks /\ disk'.floor = n /\ disk'.rotated = disk.rotated
        /\ disk'.due = disk.due /\ disk'.fence = disk.fence
    <3>1. PICK e \in BOOLEAN, r \in {"none", "pending", "active"} :
            disk' = [disk EXCEPT !.floor = n, !.authority = "appointed", !.epoch = e, !.recovery = r]
      <4>1. (IF RequiresRecovery(n) THEN "pending" ELSE disk.recovery) \in {"none", "pending", "active"}
        BY HostNow DEF HostDisks
      <4>2. Says("recover", n) \in BOOLEAN
        BY DEF Says
      <4> QED BY <1>3, <4>1, <4>2 DEF AppointmentConfirmed
    <3> QED BY <3>1, HostNow DEF HostDisks, Authorities
  <2> QED BY <1>0, <2>2, <2>3, HostNow, Others, MovesInv DEF Late
<1> QED BY <1>2, <1>3

-----------------------------------------------------------------------------
(* The log grows.                                                          *)
LEMMA LogGrowsInv == ASSUME HostInv, NEW what \in Concerns, LogGrows(what) PROVE HostInv'
<1>1. /\ signedLog' = Append(signedLog, what) /\ LogHead < MaxConcerns /\ signedLog \in Seq(Concerns)
      /\ UNCHANGED <<challenges, receipts, disk, host, sweep, proposal, holds, handed, lives>>
  BY DEF LogGrows, HostInv, HostShapes
<1>2. /\ signedLog' \in Seq(Concerns) /\ LogHead' = LogHead + 1 /\ LogHead' <= MaxConcerns
      /\ \A i \in 1 .. LogHead : signedLog'[i] = signedLog[i]
  BY <1>1, HostNow DEF LogHead
<1>3. \A w, n : n \in 0 .. LogHead => (Says(w, n)' <=> Says(w, n))
  <2> SUFFICES ASSUME NEW w, NEW n \in 0 .. LogHead PROVE Says(w, n)' <=> Says(w, n)
    OBVIOUS
  <2>1. \A i \in 1 .. n : i \in 1 .. LogHead
    BY HostNow
  <2> QED BY <1>2, <2>1 DEF Says
<1>4. HostShapes'
  <2>1. challenges.proof \in -1 .. LogHead'
    <3>1. challenges.proof \in -1 .. LogHead
      BY Others
    <3>2. LogHead' = LogHead + 1 /\ LogHead \in Nat
      BY <1>2, HostNow
    <3> QED BY <3>1, <3>2
  <2>2. /\ proposal.seq <= LogHead' /\ host.observed <= LogHead' /\ host.membership <= LogHead'
        /\ sweep.seq <= LogHead' /\ disk.floor <= LogHead' /\ proposal.seq \in Nat
    <3>1. /\ proposal.seq \in Nat /\ proposal.seq <= LogHead /\ LogHead \in Nat
          /\ LogHead' = LogHead + 1
      BY <1>2, HostNow, Others
    <3> QED BY <3>1, HostNow
  <2> QED BY <1>1, <1>2, <2>1, <2>2 DEF HostInv, HostShapes
<1>5. SweepInv'
  BY <1>1 DEF HostInv, SweepInv
<1>6. RemovalInv'
  <2>1. Says("device", disk.rotated)' <=> Says("device", disk.rotated)
    <3>1. disk.rotated \in 0 .. LogHead /\ disk' = disk
      BY <1>1, HostNow
    <3> QED BY <1>3, <3>1 DEF Says
  <2> QED BY <1>1, <2>1 DEF HostInv, RemovalInv
<1>7. FenceInv'
  <2>1. Says("delete", LogHead) => Says("delete", LogHead)'
    <3>1. \A i \in 1 .. LogHead : i \in 1 .. LogHead' /\ signedLog'[i] = signedLog[i]
      BY <1>2, HostNow
    <3> QED BY <3>1 DEF Says
  <2> QED BY <1>1, <2>1 DEF HostInv, FenceInv
<1> QED BY <1>4, <1>5, <1>6, <1>7 DEF HostInv

-----------------------------------------------------------------------------
(* A step that keeps the log, and what the sweep and the disk agree on.    *)
LEMMA ShapesKept ==
  ASSUME HostInv,
         UNCHANGED <<signedLog, challenges, proposal, lives>>,
         receipts' \subseteq {"device", "delete"}, holds' \in BOOLEAN, handed' \in BOOLEAN,
         host' \in Hosts, sweep' \in Sweeps, disk' \in HostDisks,
         host'.observed <= LogHead, host'.membership <= LogHead, sweep'.seq <= LogHead,
         disk'.floor <= LogHead, disk'.rotated <= disk'.floor
  PROVE  HostShapes' /\ LogHead' = LogHead
<1>1. LogHead' = LogHead
  BY DEF LogHead
<1> QED BY <1>1 DEF HostInv, HostShapes

(* What the log says does not change while the log does not.               *)
LEMMA SameSayings ==
  ASSUME UNCHANGED signedLog
  PROVE  /\ \A w, n : Says(w, n)' <=> Says(w, n)
         /\ LogHead' = LogHead
         /\ Says("delete", LogHead)' <=> Says("delete", LogHead)
BY DEF Says, LogHead

LEMMA DeletionAppliedInv == ASSUME HostInv, DeletionApplied PROVE HostInv'
<1>1. /\ sweep.pc = "stopping" /\ ~host.running /\ holds' = FALSE
      /\ disk' = [disk EXCEPT !.deletion = "applied"] /\ sweep' = [sweep EXCEPT !.pc = "telling"]
      /\ UNCHANGED <<signedLog, challenges, receipts, host, proposal, handed, lives>>
  BY DEF DeletionApplied
<1>2. /\ disk' \in HostDisks /\ disk'.floor = disk.floor /\ disk'.rotated = disk.rotated
      /\ disk'.due = disk.due /\ disk'.fence = disk.fence /\ disk'.authority = disk.authority
  BY <1>1, HostNow DEF HostDisks
<1>3. /\ sweep' \in Sweeps /\ sweep'.seq = sweep.seq /\ sweep'.gen = sweep.gen
      /\ sweep'.pc = "telling"
  BY <1>1, HostNow, SweepFacts DEF Pcs
<1>4. receipts' \subseteq {"device", "delete"} /\ handed' \in BOOLEAN
  BY <1>1 DEF HostInv, HostShapes
<1>5. HostShapes'
  BY <1>1, <1>2, <1>3, <1>4, HostNow, ShapesKept
<1>6. SweepInv'
  BY <1>1, <1>2, <1>3, HostNow, Others DEF SweepInv, Late
<1>7. RemovalInv'
  <2>1. Says("device", disk.rotated)' <=> Says("device", disk.rotated)
    BY <1>1, <1>2 DEF Says
  <2> QED BY <1>1, <1>2, <1>3, <2>1 DEF HostInv, RemovalInv
<1>8. FenceInv'
  BY <1>1, <1>2, <1>3, SameSayings, Others DEF HostInv, FenceInv
<1> QED BY <1>5, <1>6, <1>7, <1>8 DEF HostInv

LEMMA DeletionAcknowledgedInv ==
  ASSUME HostInv, NEW heard \in BOOLEAN, DeletionAcknowledged(heard) PROVE HostInv'
<1>1. /\ sweep.pc = "telling" /\ receipts' = receipts \cup {"delete"}
      /\ UNCHANGED <<signedLog, challenges, host, proposal, holds, handed, lives>>
  BY DEF DeletionAcknowledged
<1>2. /\ disk' \in HostDisks /\ disk'.floor = disk.floor /\ disk'.rotated = disk.rotated
      /\ disk'.due = disk.due /\ disk'.fence = disk.fence /\ disk'.authority = disk.authority
  BY HostNow DEF DeletionAcknowledged, HostDisks
<1>3. /\ sweep' \in Sweeps /\ sweep'.seq <= LogHead /\ sweep'.gen <= host.gen
      /\ sweep'.pc \in {"idle", "decide"}
      /\ sweep'.pc = "decide" => sweep'.seq = sweep.seq
  <2>1. CASE heard
    <3>1. sweep' = [sweep EXCEPT !.pc = "decide"]
      BY <2>1 DEF DeletionAcknowledged
    <3>2. "decide" \in Pcs
      BY DEF Pcs
    <3> QED BY <3>1, <3>2, HostNow, SweepFacts
  <2>2. CASE ~heard
    BY <2>2, HostNow, IdleFacts DEF DeletionAcknowledged, SweepEnds
  <2> QED BY <2>1, <2>2
<1>4. receipts' \subseteq {"device", "delete"} /\ holds' \in BOOLEAN /\ handed' \in BOOLEAN
  BY <1>1 DEF HostInv, HostShapes
<1>5. HostShapes'
  BY <1>1, <1>2, <1>3, <1>4, HostNow, ShapesKept
<1>6. SweepInv'
  BY <1>1, <1>2, <1>3, HostNow, Others DEF SweepInv, Late
<1>7. RemovalInv'
  <2>1. Says("device", disk.rotated)' <=> Says("device", disk.rotated)
    BY <1>1, <1>2 DEF Says
  <2> QED BY <1>1, <1>2, <1>3, <2>1 DEF HostInv, RemovalInv
<1>8. FenceInv'
  <2>1. Says("delete", LogHead) /\ disk.fence /\ ~host.running
    BY <1>1 DEF HostInv, FenceInv
  <2>2. Says("delete", LogHead)' /\ disk'.fence /\ ~host'.running
    BY <1>1, <1>2, <2>1, SameSayings
  <2> QED BY <1>3, <2>2 DEF FenceInv
<1> QED BY <1>5, <1>6, <1>7, <1>8 DEF HostInv

-----------------------------------------------------------------------------
(* Rotate, save, tell the hub.                                             *)
LEMMA RemovalsAppliedInv == ASSUME HostInv, RemovalsApplied PROVE HostInv'
<1>0. /\ sweep.pc = "removals"
      /\ UNCHANGED <<signedLog, challenges, receipts, host, proposal, handed, lives>>
  BY DEF RemovalsApplied
<1>1. CASE sweep' \in {NoSweep, Asks("seal", host)} /\ UNCHANGED <<disk, holds>>
  BY <1>0, <1>1, HostNow, IdleFacts, AskFacts, HostQuietInv DEF Quiet
<1>2. CASE Rotated /\ (Due \/ disk.due)
  <2>1. /\ disk' \in HostDisks /\ disk'.floor = disk.floor /\ disk'.rotated = sweep.seq
        /\ disk'.due = (disk.due \/ Due) /\ disk'.fence = disk.fence
        /\ disk'.authority = disk.authority
    <3>1. (disk.due \/ Due) \in BOOLEAN
      BY DEF Due
    <3>2. disk' = [disk EXCEPT !.rotated = sweep.seq, !.due = disk.due \/ Due]
      BY <1>2 DEF Rotated
    <3> QED BY <3>1, <3>2, HostNow DEF HostDisks
  <2>2. /\ sweep' \in Sweeps /\ sweep'.seq = sweep.seq /\ sweep'.gen = sweep.gen
        /\ sweep'.pc = "acknowledge"
    BY <1>2, HostNow, SweepFacts DEF Pcs, Rotated
  <2>3. holds' = (holds /\ ~Due)
    BY <1>2 DEF Rotated
  <2>4. disk.rotated <= sweep.seq /\ sweep.seq <= disk.floor
    BY <1>0, Others DEF Late
  <2>5. receipts' \subseteq {"device", "delete"} /\ holds' \in BOOLEAN /\ handed' \in BOOLEAN
    BY <1>0, <2>3 DEF HostInv, HostShapes, Due
  <2>6. HostShapes'
    BY <1>0, <2>1, <2>2, <2>4, <2>5, HostNow, ShapesKept
  <2>7. SweepInv'
    BY <1>0, <2>1, <2>2, HostNow, Others DEF SweepInv, Late
  <2>8. Says("device", sweep.seq) <=> Says("device", disk.rotated) \/ Due
    <3>1. \A i \in Int : i \in 1 .. sweep.seq <=>
            i \in 1 .. disk.rotated \/ i \in (disk.rotated + 1) .. sweep.seq
      BY <2>4, HostNow
    <3> QED BY <3>1 DEF Says, Due
  <2>9. RemovalInv'
    <3>1. Says("device", disk.rotated)' <=> Says("device", sweep.seq)
      BY <1>0, <2>1 DEF Says
    <3>2. Says("device", sweep.seq)
      BY <1>2, <2>8 DEF HostInv, RemovalInv
    <3>3. ~holds'
      BY <2>3, <2>8, <3>2 DEF HostInv, RemovalInv
    <3> QED BY <1>0, <3>1, <3>2, <3>3 DEF HostInv, RemovalInv
  <2>10. FenceInv'
    BY <1>0, <2>1, <2>2, SameSayings DEF HostInv, FenceInv
  <2> QED BY <2>6, <2>7, <2>9, <2>10 DEF HostInv
<1> QED BY <1>1, <1>2 DEF RemovalsApplied, SweepEnds

LEMMA RemovalsAcknowledgedInv ==
  ASSUME HostInv, NEW heard \in BOOLEAN, RemovalsAcknowledged(heard) PROVE HostInv'
<1>1. /\ sweep.pc = "acknowledge" /\ receipts' = receipts \cup {"device"}
      /\ UNCHANGED <<signedLog, challenges, host, proposal, holds, handed, lives>>
  BY DEF RemovalsAcknowledged
<1>2. /\ disk' \in HostDisks /\ disk'.floor = disk.floor /\ disk'.rotated = disk.rotated
      /\ disk'.fence = disk.fence /\ disk'.authority = disk.authority
  BY HostNow DEF RemovalsAcknowledged, HostDisks
<1>3. sweep' \in Sweeps /\ sweep'.seq = 0 /\ sweep'.gen <= host.gen /\ sweep'.pc \in {"idle", "asked"}
  BY HostNow, IdleFacts, AskFacts DEF RemovalsAcknowledged
<1>4. receipts' \subseteq {"device", "delete"} /\ holds' \in BOOLEAN /\ handed' \in BOOLEAN
  BY <1>1 DEF HostInv, HostShapes
<1>5. HostShapes'
  BY <1>1, <1>2, <1>3, <1>4, HostNow, ShapesKept
<1>6. SweepInv'
  BY <1>1, <1>2, <1>3, HostNow, Others DEF SweepInv, Late
<1>7. RemovalInv'
  <2>1. Says("device", disk.rotated)' <=> Says("device", disk.rotated)
    BY <1>1, <1>2 DEF Says
  <2> QED BY <1>1, <2>1 DEF HostInv, RemovalInv
<1>8. FenceInv'
  BY <1>1, <1>2, <1>3, SameSayings DEF HostInv, FenceInv
<1> QED BY <1>5, <1>6, <1>7, <1>8 DEF HostInv

-----------------------------------------------------------------------------
(* What a reconciled sweep goes on with, and what it shares.               *)
LEMMA ReconciledInv == ASSUME HostInv, Reconciled PROVE HostInv'
<1>0. /\ sweep.pc = "applying" /\ UNCHANGED <<signedLog, challenges, receipts, proposal, lives>>
  BY DEF Reconciled
<1>1. CASE ~(StillNewest /\ (disk.recovery = "pending" => ~host.running))
  <2>1. /\ host' = [host EXCEPT !.reconciled = @ /\ sweep.gen # host.gen]
        /\ sweep' = NoSweep /\ UNCHANGED <<disk, holds, handed>>
    BY <1>1 DEF Reconciled, SweepEnds
  <2>2. /\ host' \in Hosts /\ host'.observed = host.observed /\ host'.membership = host.membership
        /\ host'.gen = host.gen /\ host'.running = host.running
    BY <2>1, HostNow DEF Hosts
  <2>3. host'.reconciled => host.reconciled
    BY <2>1, HostNow DEF Hosts
  <2> QED BY <1>0, <2>1, <2>2, <2>3, IdleFacts, HostNow, Others, MovesInv DEF Late
<1>2. CASE StillNewest /\ (disk.recovery = "pending" => ~host.running)
  <2>1. /\ host' = [host EXCEPT !.reconciled = TRUE] /\ disk' = RecoveryFinished(disk)
        /\ holds' = (holds /\ disk.recovery # "pending") /\ sweep' = OnTo(host')
        /\ handed' = (handed \/ (Delivered /\ Knows))
    BY <1>2 DEF Reconciled
  <2>2. sweep.gen = host.gen /\ sweep.seq >= Floor
    BY <1>2 DEF StillNewest
  <2>3. host.membership = sweep.seq /\ disk.floor = sweep.seq /\ sweep.seq >= disk.rotated
    BY <1>0, <2>2, Others DEF Late
  <2>4. /\ host' \in Hosts /\ host'.observed = host.observed /\ host'.membership = host.membership
        /\ host'.gen = host.gen /\ host'.running = host.running
    BY <2>1, HostNow DEF Hosts
  <2>5. /\ disk' \in HostDisks /\ disk'.floor = disk.floor /\ disk'.rotated = disk.rotated
        /\ disk'.due = disk.due /\ disk'.fence = disk.fence /\ disk'.authority = disk.authority
    BY <2>1, HostNow DEF RecoveryFinished, HostDisks
  <2>6. /\ sweep' \in Sweeps /\ sweep'.gen <= host.gen
        /\ sweep'.pc \in Quiet \cup {"removals"}
        /\ sweep'.seq <= LogHead
        /\ sweep'.pc = "removals" => sweep'.seq = sweep.seq
    <3>1. sweep.for \in {"none", "removals", "seal", "deliver", "share"}
      BY HostNow DEF Sweeps
    <3>2. CASE sweep.for = "deliver"
      <4>1. sweep' = Asks("share", host')
        BY <2>1, <3>2 DEF OnTo
      <4> QED BY <2>4, <4>1, AskFacts, HostNow DEF Quiet
    <3>3. CASE sweep.for # "deliver"
      <4>1. PICK pc \in {"removals", "start", "seal", "share", "none"} : sweep' = [sweep EXCEPT !.pc = pc]
        BY <2>1, <3>1, <3>3 DEF OnTo
      <4>2. pc \in Pcs /\ pc \in Quiet \cup {"removals"} /\ sweep \in Sweeps
        BY HostNow DEF Pcs, Quiet
      <4> QED BY <4>1, <4>2, SweepFacts, HostNow
    <3> QED BY <3>2, <3>3
  <2>7. ~(Delivered /\ Knows)
    <3> SUFFICES ASSUME Delivered, Knows PROVE FALSE
      OBVIOUS
    <3>1. Says("device", sweep.seq)
      BY <2>2, HostNow DEF Knows, Says
    <3> QED BY <3>1 DEF Delivered, Eligible
  <2>8. /\ receipts' \subseteq {"device", "delete"} /\ holds' \in BOOLEAN
        /\ handed' = handed /\ handed' \in BOOLEAN
    BY <1>0, <2>1, <2>7 DEF HostInv, HostShapes
  <2>9. HostShapes'
    BY <1>0, <2>4, <2>5, <2>6, <2>8, HostNow, ShapesKept
  <2>10. SweepInv'
    BY <1>0, <2>3, <2>4, <2>5, <2>6, HostNow, Others DEF SweepInv, Late, Quiet
  <2>11. RemovalInv'
    <3>1. Says("device", disk.rotated)' <=> Says("device", disk.rotated)
      BY <1>0, <2>5 DEF Says
    <3>2. sweep'.pc # "acknowledge" /\ receipts' = receipts /\ disk'.due = disk.due
      BY <1>0, <2>5, <2>6 DEF Quiet
    <3>3. /\ "device" \in receipts \/ disk.due => Says("device", disk.rotated)
          /\ Says("device", disk.rotated) => ~holds
          /\ ~handed
      BY DEF HostInv, RemovalInv
    <3>4. holds' => holds
      BY <2>1
    <3> QED BY <2>8, <3>1, <3>2, <3>3, <3>4 DEF RemovalInv
  <2>12. FenceInv'
    BY <1>0, <2>4, <2>5, <2>6, SameSayings DEF HostInv, FenceInv, Quiet
  <2> QED BY <2>9, <2>10, <2>11, <2>12 DEF HostInv
<1> QED BY <1>1, <1>2

(* A host that reconciled knows a membership at least as new as the one    *)
(* the room was rotated for, so it shares with nobody removed by then.     *)
LEMMA SessionSharedInv == ASSUME HostInv, SessionShared PROVE HostInv'
<1> DEFINE shares == sweep.gen = host.gen /\ host.reconciled /\ Eligible(host.membership) /\ ~disk.fence
<1>1. /\ sweep.pc = "share" /\ holds' = (holds \/ shares) /\ sweep' = [sweep EXCEPT !.pc = "start"]
      /\ UNCHANGED <<signedLog, challenges, receipts, disk, host, proposal, handed, lives>>
  BY DEF SessionShared
<1>2. sweep' \in Sweeps /\ sweep'.seq = sweep.seq /\ sweep'.gen = sweep.gen /\ sweep'.pc = "start"
  BY <1>1, HostNow, SweepFacts DEF Pcs
<1>3. receipts' \subseteq {"device", "delete"} /\ holds' \in BOOLEAN /\ handed' \in BOOLEAN
  BY <1>1, HostNow DEF HostInv, HostShapes, Eligible, Says
<1>4. HostShapes'
  BY <1>1, <1>2, <1>3, HostNow, ShapesKept
<1>5. SweepInv'
  BY <1>1, <1>2, HostNow, Others DEF SweepInv, Late
<1>6. shares => ~Says("device", disk.rotated)
  <2> SUFFICES ASSUME shares, Says("device", disk.rotated) PROVE FALSE
    OBVIOUS
  <2>1. host.membership >= disk.rotated
    BY HostNow, Others
  <2>2. Says("device", host.membership)
    BY <2>1, HostNow DEF Says
  <2> QED BY <2>2 DEF Eligible
<1>7. RemovalInv'
  <2>1. Says("device", disk.rotated)' <=> Says("device", disk.rotated)
    BY <1>1 DEF Says
  <2> QED BY <1>1, <1>2, <1>6, <2>1 DEF HostInv, RemovalInv
<1>8. FenceInv'
  BY <1>1, <1>2, SameSayings DEF HostInv, FenceInv
<1> QED BY <1>4, <1>5, <1>7, <1>8 DEF HostInv

LEMMA TaskStartsInv == ASSUME HostInv, TaskStarts PROVE HostInv'
<1>1. /\ sweep.pc = "start" /\ sweep' = NoSweep
      /\ UNCHANGED <<signedLog, challenges, receipts, disk, proposal, holds, handed, lives>>
  BY DEF TaskStarts, SweepEnds
<1>2. /\ host' \in Hosts /\ host'.observed = host.observed /\ host'.membership = host.membership
      /\ host'.gen = host.gen /\ host'.reconciled = host.reconciled
      /\ host'.running => ~disk.fence
  <2>1. PICK b \in BOOLEAN : host' = [host EXCEPT !.running = b] /\ (b => ~disk.fence)
    <3>1. (host.open /\ host.reconciled /\ ~disk.fence /\ ~Says("delete", host.observed)) \in BOOLEAN
      BY HostNow DEF Says, Hosts, HostDisks
    <3> QED BY <3>1 DEF TaskStarts
  <2> QED BY <2>1, HostNow DEF Hosts
<1>3. receipts' \subseteq {"device", "delete"} /\ holds' \in BOOLEAN /\ handed' \in BOOLEAN
  BY <1>1 DEF HostInv, HostShapes
<1>4. HostShapes'
  BY <1>1, <1>2, <1>3, IdleFacts, HostNow, ShapesKept
<1>5. SweepInv'
  BY <1>1, <1>2, IdleFacts, HostNow, Others DEF SweepInv, Late
<1>6. RemovalInv'
  <2>1. Says("device", disk.rotated)' <=> Says("device", disk.rotated)
    BY <1>1 DEF Says
  <2> QED BY <1>1, <2>1, IdleFacts DEF HostInv, RemovalInv
<1>7. FenceInv'
  BY <1>1, <1>2, IdleFacts, SameSayings DEF HostInv, FenceInv
<1> QED BY <1>4, <1>5, <1>6, <1>7 DEF HostInv

-----------------------------------------------------------------------------
LEMMA StutterInv == ASSUME HostInv, UNCHANGED hostVars PROVE HostInv'
<1>1. UNCHANGED <<signedLog, challenges, receipts, disk, sweep, host, proposal, holds, handed, lives>>
  BY DEF hostVars
<1> QED BY <1>1, HostNow, ConnectionInv

LEMMA HostInvStep == HostInv /\ [HostNext]_hostVars => HostInv'
<1> SUFFICES ASSUME HostInv, [HostNext]_hostVars PROVE HostInv'
  OBVIOUS
<1>1. ASSUME NEW what \in Concerns, LogGrows(what) PROVE HostInv'
  BY <1>1, LogGrowsInv
<1>2. CASE SignerSigns \/ LinkDrops \/ ChallengeLapses \/ HostDies \/ TurnFinishes
  BY <1>2, SignerSignsInv, LinkDropsInv, ChallengeLapsesInv, HostDiesInv, TurnFinishesInv
<1>3. CASE SweepBegins \/ HubReplies \/ RequestFails \/ MembershipRead
  BY <1>3, SweepBeginsInv, HubRepliesInv, RequestFailsInv, MembershipReadInv
<1>4. CASE DeletionFenced \/ DeletionApplied \/ RecoveryStops \/ SignerGone \/ NotProved
  BY <1>4, DeletionFencedInv, DeletionAppliedInv, RecoveryStopsInv, SignerGoneInv, NotProvedInv
<1>5. ASSUME NEW b \in BOOLEAN, DeletionAcknowledged(b) \/ ChallengePosted(b) \/ RemovalsAcknowledged(b)
      PROVE HostInv'
  BY <1>5, DeletionAcknowledgedInv, ChallengePostedInv, RemovalsAcknowledgedInv
<1>6. CASE MembershipTaken \/ CheckpointFails \/ Reconciled \/ RemovalsApplied
  BY <1>6, MembershipTakenInv, CheckpointFailsInv, ReconciledInv, RemovalsAppliedInv
<1>7. CASE HistorySealed \/ SessionShared \/ TaskStarts
  BY <1>7, HistorySealedInv, SessionSharedInv, TaskStartsInv
<1>8. CASE AppointmentPrepared \/ AppointmentConfirmed
  BY <1>8, AppointmentPreparedInv, AppointmentConfirmedInv
<1>9. CASE UNCHANGED hostVars
  BY <1>9, StutterInv
<1> QED BY <1>1, <1>2, <1>3, <1>4, <1>5, <1>6, <1>7, <1>8, <1>9 DEF HostNext

LEMMA HostInvHolds == HostSpec => []HostInv
BY HostInvInit, HostInvStep, PTL DEF HostSpec

(* Every variable of the host keeps its shape: heads and floors never run  *)
(* ahead of the log, whatever the hub answers and whoever is appointed.    *)
THEOREM HostTypeCorrect == HostSpec => []HostTypeOK
BY HostInvHolds, HostShapesAreTypes, PTL

(* Removed means locked out, for any log, any number of restarts and any   *)
(* interleaving of the sweep with dropped links and appointments: after    *)
(* applyRevocations told the hub, the device has no session of the task;   *)
(* admitParticipants never hands history to a device the host saw removed; *)
(* a task whose deletion was acknowledged does not run.                    *)
THEOREM RemovedStaysOutHolds == HostSpec => []RemovedStaysOut
<1>1. HostInv => RemovedStaysOut
  BY DEF HostInv, RemovalInv, FenceInv, RemovedStaysOut
<1> QED BY <1>1, HostInvHolds, PTL

-----------------------------------------------------------------------------
(* EncryptedRun: what the log tells of a task.                             *)

LEMMA RunConstants ==
  /\ \A o \in Orders : /\ o.action \in {"start", "continue", "accept", "cancel", "grant", "revoke", "interrupt", "outcome"}
                       /\ o.by \in {"owner", "mate"} /\ o.turn \in Turns
  /\ MaxSent \in Nat /\ MaxTurns \in Nat /\ MaxFaults \in Nat
  BY RunAssumption DEF Turns

-----------------------------------------------------------------------------
(* The inductive invariant.                                                *)
Words == {"none", "created", "started", "asked", "decided", "closed", "ended", "granted", "revoked",
          "receipt", "outcome", "recovery"}
Entries == [what : Words, turn : 0 .. MaxTurns,
            said : {"none", "accept", "cancel", "unwritable", "restarted"}]
TurnRecords == [pc : {"none", "creating", "running", "flushing"}, id : 0 .. MaxTurns, queue : Seq(Entries),
                failed : BOOLEAN, stopping : BOOLEAN, asked : BOOLEAN,
                answer : {"none", "accept", "cancel"}, authority : BOOLEAN]
Executions == [state : {"none", "running", "recovery", "finished"}, turn : 0 .. MaxTurns, open : SUBSET Turns,
               settled : [Turns -> {"none", "accept", "cancel"}], abandoned : SUBSET Turns,
               atFailure : SUBSET Turns, failure : BOOLEAN, granted : BOOLEAN, logged : BOOLEAN]
Controls == [pc : {"none", "taken", "starting", "delegating", "waiting"}, order : Orders \cup {NoControl.order}]

RunShapes ==
  /\ taskLog \in Seq(Entries) /\ stuck \in Entries
  /\ turn \in TurnRecords /\ execution \in Executions /\ control \in Controls
  /\ commands \in [Orders -> {"new", "accepted", "rejected", "completed"}]
  /\ approver \in {"verified", "removed", "told"} /\ shut \in BOOLEAN /\ faults \in 0 .. MaxFaults

IsIn(s, x) == \E i \in DOMAIN s : s[i] = x
Answers == {"decided", "closed"}
UnderWay(t) == t.pc \in {"running", "flushing"}
Unanswered(t) == t.pc = "running" /\ t.asked /\ t.answer = "none"

(* A turn is the one on record, and one that has not begun follows it.     *)
TurnFits(t, d, s) ==
  /\ UnderWay(t) => /\ t.id = d.turn /\ d.turn # 0 /\ ~d.logged
                    /\ d.failure => t.failed
  /\ t.failed => t.stopping
  /\ Unanswered(t) => ~s /\ ~t.stopping
  /\ ~UnderWay(t) => t.queue = <<>>
  /\ t.pc = "none" => t.id = 0
  /\ t.pc = "creating" => /\ t.id = d.turn + 1 /\ ~t.asked
                          /\ d.state \in {"none", "finished"} \/ (d.state = "recovery" /\ d.logged)
  /\ d.state = "none" <=> d.turn = 0
  /\ d.open \subseteq 1 .. d.turn /\ d.atFailure \subseteq 1 .. d.turn
  /\ \A x \in Entries : IsIn(t.queue, x) => x.turn = t.id /\ x.what \notin {"recovery", "closed"}

ControlFits(c, d) ==
  /\ c.pc # "none" => c.order \in Orders
  /\ c.pc = "delegating" => c.order.turn <= d.turn

(* What is out is true of the disk, and says nothing of a request that     *)
(* still waits.                                                            *)
Truth(x, d, t) ==
  /\ x.turn <= d.turn
  /\ x.what \in {"asked", "recovery"} => x.turn \in Turns
  /\ x.what \in Answers =>
       /\ x.turn \in Turns /\ x.said \in {"accept", "cancel"}
       /\ d.settled[x.turn] = x.said \/ (d.settled[x.turn] = "none" /\ x.said = "cancel")
       /\ t.pc = "running" /\ t.answer = "none" => x.turn # t.id
Out(x) == IsIn(taskLog, x) \/ x = stuck \/ IsIn(turn.queue, x)
TruthInv == \A x \in Entries : Out(x) => Truth(x, execution, turn)

(* A turn that was told to be lost has nothing more to say.                *)
LostIsOver(r, st, t, c) ==
  /\ UnderWay(t) => r.turn # t.id
  /\ st.turn # r.turn
  /\ c.pc = "delegating" => c.order.turn # r.turn
LostInv ==
  /\ stuck.what # "recovery"
  /\ \A x \in Entries : IsIn(taskLog, x) /\ x.what = "recovery" => LostIsOver(x, stuck, turn, control)

(* A request whose entry is pending is one the record knows has failed.    *)
PendingFits(st, d, s) ==
  st.what = "asked" => st.turn = d.turn /\ (s \/ (d.failure /\ d.state = "recovery" /\ ~d.logged))

(* The end of a turn is on its way before its record says finished.        *)
Ended(s, n) == \E i \in DOMAIN s : s[i].what = "ended" /\ s[i].turn = n
EndFits(log, t, d, s, a) ==
  /\ d.state = "finished" => Ended(log, d.turn)
  /\ t.pc = "flushing" /\ ~t.failed /\ ~s => Ended(log, t.id) \/ Ended(t.queue, t.id)
  /\ a = "told" /\ UnderWay(t) => ~t.authority

OrderOK(log) ==
  \A i \in DOMAIN log : log[i].what = "recovery" =>
    /\ log[i].said = "restarted" => \A j \in 1 .. i : log[j].what = "asked" =>
         \E k \in 1 .. i : log[k].what \in Answers /\ log[k].turn = log[j].turn
    /\ \A j \in DOMAIN log : j > i /\ log[j].turn = log[i].turn => log[j].what = "closed"

RunInv ==
  /\ RunShapes
  /\ TurnFits(turn, execution, shut)
  /\ ControlFits(control, execution)
  /\ TruthInv
  /\ LostInv
  /\ PendingFits(stuck, execution, shut)
  /\ EndFits(taskLog, turn, execution, shut, approver)
  /\ OrderOK(taskLog)

-----------------------------------------------------------------------------
(* Sequences of entries.                                                   *)
LEMMA AppendFacts ==
  ASSUME NEW s \in Seq(Entries), NEW e \in Entries
  PROVE  /\ Append(s, e) \in Seq(Entries)
         /\ \A x : IsIn(Append(s, e), x) <=> IsIn(s, x) \/ x = e
         /\ \A n : Ended(s, n) => Ended(Append(s, e), n)
         /\ e.what = "ended" => Ended(Append(s, e), e.turn)
<1>1. /\ Append(s, e) \in Seq(Entries) /\ Len(Append(s, e)) = Len(s) + 1 /\ Len(s) \in Nat
      /\ DOMAIN s = 1 .. Len(s) /\ DOMAIN Append(s, e) = 1 .. Len(s) + 1
      /\ \A i \in 1 .. Len(s) : Append(s, e)[i] = s[i]
      /\ Append(s, e)[Len(s) + 1] = e
  OBVIOUS
<1>2. \A i \in 1 .. Len(s) + 1 : i \in 1 .. Len(s) \/ i = Len(s) + 1
  BY <1>1
<1>3. Len(s) + 1 \in 1 .. Len(s) + 1 /\ \A i \in 1 .. Len(s) : i \in 1 .. Len(s) + 1
  BY <1>1
<1>4. \A x : IsIn(Append(s, e), x) <=> IsIn(s, x) \/ x = e
  BY <1>1, <1>2, <1>3 DEF IsIn
<1>5. \A n : Ended(s, n) => Ended(Append(s, e), n)
  BY <1>1, <1>3 DEF Ended
<1>6. e.what = "ended" => Ended(Append(s, e), e.turn)
  BY <1>1, <1>3 DEF Ended
<1> QED BY <1>1, <1>4, <1>5, <1>6

LEMMA TailFacts ==
  ASSUME NEW s \in Seq(Entries), s # <<>>
  PROVE  /\ Tail(s) \in Seq(Entries) /\ s[1] \in Entries /\ IsIn(s, s[1])
         /\ \A x : IsIn(s, x) <=> x = s[1] \/ IsIn(Tail(s), x)
         /\ \A n : Ended(s, n) => (s[1].what = "ended" /\ s[1].turn = n) \/ Ended(Tail(s), n)
<1>1. /\ Tail(s) \in Seq(Entries) /\ Len(s) \in Nat /\ Len(s) >= 1 /\ Len(Tail(s)) = Len(s) - 1
      /\ DOMAIN s = 1 .. Len(s) /\ DOMAIN Tail(s) = 1 .. Len(s) - 1
      /\ \A i \in 1 .. Len(s) - 1 : Tail(s)[i] = s[i + 1]
      /\ s[1] \in Entries /\ 1 \in DOMAIN s
  OBVIOUS
<1>2. \A i \in DOMAIN s : i = 1 \/ (i - 1 \in DOMAIN Tail(s) /\ Tail(s)[i - 1] = s[i])
  BY <1>1
<1>3. \A i \in DOMAIN Tail(s) : i + 1 \in DOMAIN s /\ Tail(s)[i] = s[i + 1]
  BY <1>1
<1>4. \A x : IsIn(s, x) <=> x = s[1] \/ IsIn(Tail(s), x)
  BY <1>1, <1>2, <1>3 DEF IsIn
<1>5. \A n : Ended(s, n) => (s[1].what = "ended" /\ s[1].turn = n) \/ Ended(Tail(s), n)
  BY <1>1, <1>2 DEF Ended
<1>6. IsIn(s, s[1])
  BY <1>1 DEF IsIn
<1> QED BY <1>1, <1>4, <1>5, <1>6

LEMMA EmptyFacts == <<>> \in Seq(Entries) /\ \A x : ~IsIn(<<>>, x)
BY DEF IsIn

(* One more entry keeps the order, if it says nothing of a lost turn but   *)
(* an answer, and tells of a restart only where nothing waits.             *)
LEMMA OrderAppend ==
  ASSUME NEW s \in Seq(Entries), NEW e \in Entries, OrderOK(s),
         \A x \in Entries : IsIn(s, x) /\ x.what = "recovery" /\ x.turn = e.turn => e.what = "closed",
         e.what = "recovery" /\ e.said = "restarted" =>
           \A x \in Entries : IsIn(s, x) /\ x.what = "asked" =>
             \E y \in Entries : IsIn(s, y) /\ y.what \in Answers /\ y.turn = x.turn
  PROVE  OrderOK(Append(s, e))
<1> DEFINE l == Append(s, e)
           n == Len(s)
<1>1. /\ l \in Seq(Entries) /\ n \in Nat /\ DOMAIN s = 1 .. n /\ DOMAIN l = 1 .. n + 1
      /\ \A i \in 1 .. n : l[i] = s[i] /\ s[i] \in Entries
      /\ l[n + 1] = e
  OBVIOUS
<1> SUFFICES ASSUME NEW i \in DOMAIN l, l[i].what = "recovery"
             PROVE  /\ l[i].said = "restarted" => \A j \in 1 .. i : l[j].what = "asked" =>
                         \E k \in 1 .. i : l[k].what \in Answers /\ l[k].turn = l[j].turn
                    /\ \A j \in DOMAIN l : j > i /\ l[j].turn = l[i].turn => l[j].what = "closed"
  BY DEF OrderOK
<1> HIDE DEF l, n
<1>2. CASE i \in 1 .. n
  <2>1. l[i] = s[i] /\ \A j \in 1 .. i : j \in 1 .. n /\ l[j] = s[j]
    BY <1>1, <1>2
  <2>2. l[i].said = "restarted" => \A j \in 1 .. i : l[j].what = "asked" =>
          \E k \in 1 .. i : l[k].what \in Answers /\ l[k].turn = l[j].turn
    BY <1>1, <1>2, <2>1 DEF OrderOK
  <2>3. ASSUME NEW j \in DOMAIN l, j > i, l[j].turn = l[i].turn PROVE l[j].what = "closed"
    <3>1. CASE j \in 1 .. n
      BY <1>1, <1>2, <2>1, <2>3, <3>1 DEF OrderOK
    <3>2. CASE j = n + 1
      <4>1. IsIn(s, s[i])
        BY <1>1, <1>2 DEF IsIn
      <4> QED BY <1>1, <1>2, <2>1, <2>3, <3>2, <4>1
    <3> QED BY <1>1, <3>1, <3>2
  <2> QED BY <2>2, <2>3
<1>3. CASE i = n + 1
  <2>1. \A j \in DOMAIN l : ~(j > i)
    BY <1>1, <1>3
  <2>2. ASSUME l[i].said = "restarted", NEW j \in 1 .. i, l[j].what = "asked"
        PROVE  \E k \in 1 .. i : l[k].what \in Answers /\ l[k].turn = l[j].turn
    <3>1. j \in 1 .. n
      BY <1>1, <1>3, <2>2
    <3>2. IsIn(s, s[j]) /\ s[j] \in Entries /\ l[j] = s[j] /\ l[i] = e
      BY <1>1, <1>3, <3>1 DEF IsIn
    <3>3. PICK y \in Entries : IsIn(s, y) /\ y.what \in Answers /\ y.turn = s[j].turn
      BY <2>2, <3>2
    <3>4. PICK k \in DOMAIN s : s[k] = y
      BY <3>3 DEF IsIn
    <3>5. k \in 1 .. i /\ l[k] = y
      BY <1>1, <1>3, <3>4
    <3> QED BY <3>2, <3>3, <3>5
  <2> QED BY <2>1, <2>2
<1> QED BY <1>1, <1>2, <1>3

-----------------------------------------------------------------------------
(* Every action does one of these to the log.                              *)
Appended(e) ==
  \/ UNCHANGED <<taskLog, stuck>>
  \/ Written(e)
  \/ taskLog' = Through /\ stuck' = e

LEMMA NoEntryFacts == NoEntry \in Entries /\ NoEntry.turn = 0 /\ NoEntry.what = "none"
BY RunConstants DEF NoEntry, Entry, Entries, Words

LEMMA EntryFacts ==
  ASSUME NEW what \in Words, NEW t \in 0 .. MaxTurns,
         NEW said \in {"none", "accept", "cancel", "unwritable", "restarted"}
  PROVE  /\ Entry(what, t, said) \in Entries /\ Entry(what, t, said).what = what
         /\ Entry(what, t, said).turn = t /\ Entry(what, t, said).said = said
BY DEF Entry, Entries

LEMMA ThroughFacts ==
  ASSUME RunInv
  PROVE  /\ Through \in Seq(Entries) /\ OrderOK(Through)
         /\ \A x : IsIn(Through, x) => IsIn(taskLog, x) \/ x = stuck
         /\ \A x : IsIn(taskLog, x) => IsIn(Through, x)
         /\ \A n : Ended(taskLog, n) => Ended(Through, n)
<1>1. taskLog \in Seq(Entries) /\ stuck \in Entries /\ OrderOK(taskLog)
  BY DEF RunInv, RunShapes
<1>2. CASE stuck = NoEntry
  BY <1>1, <1>2 DEF Through
<1>3. CASE stuck # NoEntry
  <2>1. Through = Append(taskLog, stuck)
    BY <1>3 DEF Through
  <2>2. stuck.what # "recovery"
    BY DEF RunInv, LostInv
  <2>3. \A x \in Entries : IsIn(taskLog, x) /\ x.what = "recovery" => stuck.turn # x.turn
    BY DEF RunInv, LostInv, LostIsOver
  <2>4. OrderOK(Append(taskLog, stuck))
    BY <1>1, <2>2, <2>3, OrderAppend
  <2> QED BY <1>1, <2>1, <2>4, AppendFacts
<1> QED BY <1>2, <1>3

(* What may be appended, given what the log tells of lost turns.           *)
Fitting(e) ==
  /\ \A x \in Entries : IsIn(taskLog, x) /\ x.what = "recovery" /\ x.turn = e.turn => e.what = "closed"
  /\ e.what = "recovery" /\ e.said = "restarted" =>
       \A x \in Entries : IsIn(Through, x) /\ x.what = "asked" =>
         \E y \in Entries : IsIn(Through, y) /\ y.what \in Answers /\ y.turn = x.turn
  /\ e.what \in {"closed", "recovery"} => Written(e)

LEMMA LogFacts ==
  ASSUME RunInv, NEW e \in Entries, Appended(e), Fitting(e)
  PROVE  /\ taskLog' \in Seq(Entries) /\ stuck' \in Entries /\ OrderOK(taskLog')
         /\ \A x : IsIn(taskLog, x) => IsIn(taskLog', x)
         /\ \A x : IsIn(taskLog', x) => IsIn(taskLog, x) \/ x = stuck \/ x = e
         /\ stuck' \in {stuck, NoEntry, e}
         /\ \A n : Ended(taskLog, n) => Ended(taskLog', n)
<1>0. taskLog \in Seq(Entries) /\ stuck \in Entries /\ OrderOK(taskLog) /\ stuck.what # "recovery"
  BY DEF RunInv, RunShapes, LostInv
<1>1. CASE UNCHANGED <<taskLog, stuck>>
  BY <1>0, <1>1
<1>2. CASE Written(e)
  <2>1. taskLog' = Append(Through, e) /\ stuck' = NoEntry
    BY <1>2 DEF Written
  <2>2. \A x \in Entries : IsIn(Through, x) /\ x.what = "recovery" /\ x.turn = e.turn => e.what = "closed"
    BY <1>0, ThroughFacts DEF Fitting
  <2>3. OrderOK(Append(Through, e))
    BY <2>2, ThroughFacts, OrderAppend DEF Fitting
  <2>4. /\ Append(Through, e) \in Seq(Entries)
        /\ \A x : IsIn(Append(Through, e), x) <=> IsIn(Through, x) \/ x = e
        /\ \A n : Ended(Through, n) => Ended(Append(Through, e), n)
    BY ThroughFacts, AppendFacts
  <2> QED BY <2>1, <2>3, <2>4, ThroughFacts, NoEntryFacts
<1>3. CASE taskLog' = Through /\ stuck' = e
  BY <1>3, ThroughFacts
<1> QED BY <1>1, <1>2, <1>3 DEF Appended

LEMMA NoEntryFits == ASSUME RunInv PROVE Fitting(NoEntry)
<1>1. \A x \in Entries : IsIn(taskLog, x) /\ x.what = "recovery" => x.turn # 0
  <2>1. \A x \in Entries : IsIn(taskLog, x) /\ x.what = "recovery" => x.turn \in Turns
    BY DEF RunInv, TruthInv, Out, Truth
  <2>2. 0 \notin Turns
    BY RunConstants DEF Turns
  <2> QED BY <2>1, <2>2
<1> QED BY <1>1, NoEntryFacts DEF Fitting

(* Whatever moves, this is all there is to show.                           *)
LEMMA RunMoves ==
  ASSUME RunInv, NEW e \in Entries, Appended(e), Fitting(e),
         turn' \in TurnRecords, execution' \in Executions, control' \in Controls,
         commands' \in [Orders -> {"new", "accepted", "rejected", "completed"}],
         approver' \in {"verified", "removed", "told"}, shut' \in BOOLEAN, faults' \in 0 .. MaxFaults,
         TurnFits(turn', execution', shut'), ControlFits(control', execution'),
         \A x \in Entries : IsIn(turn'.queue, x) => IsIn(turn.queue, x) \/ Truth(x, execution', turn'),
         \A x \in Entries : Out(x) /\ Truth(x, execution, turn) => Truth(x, execution', turn'),
         Truth(e, execution', turn'),
         \A x \in Entries : IsIn(taskLog, x) /\ x.what = "recovery" /\ LostIsOver(x, stuck, turn, control)
           => LostIsOver(x, stuck, turn', control'),
         e.what = "recovery" => ~UnderWay(turn') /\ control'.pc # "delegating",
         PendingFits(stuck', execution', shut'),
         EndFits(taskLog', turn', execution', shut', approver')
  PROVE  RunInv'
<1>1. /\ taskLog' \in Seq(Entries) /\ stuck' \in Entries /\ OrderOK(taskLog')
      /\ \A x : IsIn(taskLog', x) => IsIn(taskLog, x) \/ x = stuck \/ x = e
      /\ stuck' \in {stuck, NoEntry, e}
  BY LogFacts
<1>2. RunShapes'
  BY <1>1 DEF RunShapes
<1>3. TruthInv'
  <2> SUFFICES ASSUME NEW x \in Entries, IsIn(taskLog', x) \/ x = stuck' \/ IsIn(turn'.queue, x)
               PROVE  Truth(x, execution', turn')
    BY DEF TruthInv, Out
  <2>1. CASE Out(x)
    BY <2>1 DEF RunInv, TruthInv
  <2>2. CASE x = e \/ Truth(x, execution', turn')
    BY <2>2
  <2>3. CASE x = NoEntry
    BY <2>3, NoEntryFacts DEF Truth, Answers, Executions
  <2> QED BY <1>1, <2>1, <2>2, <2>3 DEF Out
<1>4. LostInv'
  <2>0. stuck \in Entries /\ stuck.what # "recovery"
    BY DEF RunInv, RunShapes, LostInv
  <2>1. stuck'.what # "recovery"
    BY <1>1, <2>0, NoEntryFacts DEF Fitting, Written
  <2>2. ASSUME NEW x \in Entries, IsIn(taskLog', x), x.what = "recovery"
        PROVE  LostIsOver(x, stuck', turn', control')
    <3>1. CASE x = e
      <4>1. stuck' = NoEntry /\ ~UnderWay(turn') /\ control'.pc # "delegating"
        BY <2>2, <3>1 DEF Fitting, Written
      <4>2. x.turn # 0
        <5>1. x.turn \in Turns
          BY <2>2, <3>1 DEF Truth
        <5> QED BY <5>1, RunConstants DEF Turns
      <4> QED BY <4>1, <4>2, NoEntryFacts DEF LostIsOver
    <3>2. CASE IsIn(taskLog, x)
      <4>1. LostIsOver(x, stuck, turn, control) /\ LostIsOver(x, stuck, turn', control')
        BY <2>2, <3>2 DEF RunInv, LostInv
      <4>2. x.turn # 0
        <5>1. x.turn \in Turns
          BY <2>2, <3>2 DEF RunInv, TruthInv, Out, Truth
        <5> QED BY <5>1, RunConstants DEF Turns
      <4>3. stuck' = e => e.turn # x.turn \/ stuck' = NoEntry
        BY <2>2, <3>2 DEF Fitting, Written
      <4> QED BY <1>1, <4>1, <4>2, <4>3, NoEntryFacts DEF LostIsOver
    <3> QED BY <1>1, <2>0, <2>2, <3>1, <3>2
  <2>3. \A x \in Entries : IsIn(taskLog', x) /\ x.what = "recovery" => LostIsOver(x, stuck', turn', control')
    BY <2>2
  <2> QED BY <2>1, <2>3 DEF LostInv
<1> QED BY <1>1, <1>2, <1>3, <1>4 DEF RunInv

-----------------------------------------------------------------------------
LEMMA RunNow ==
  ASSUME RunInv
  PROVE  /\ taskLog \in Seq(Entries) /\ stuck \in Entries
         /\ turn \in TurnRecords /\ execution \in Executions /\ control \in Controls
         /\ commands \in [Orders -> {"new", "accepted", "rejected", "completed"}]
         /\ approver \in {"verified", "removed", "told"} /\ shut \in BOOLEAN /\ faults \in 0 .. MaxFaults
         /\ TurnFits(turn, execution, shut) /\ ControlFits(control, execution)
         /\ PendingFits(stuck, execution, shut)
         /\ EndFits(taskLog, turn, execution, shut, approver)
         /\ execution.turn \in 0 .. MaxTurns /\ execution.turn \in Nat /\ turn.id \in 0 .. MaxTurns
         /\ turn.queue \in Seq(Entries)
         /\ Turns = 1 .. MaxTurns /\ MaxTurns \in Nat
BY RunConstants DEF RunInv, RunShapes, Turns, Executions, TurnRecords

(* Nothing that is settled changes, and no request begins to wait.         *)
Calm(d, t, d2, t2) ==
  /\ d.turn <= d2.turn /\ d2.settled = d.settled
  /\ t2.pc = "running" /\ t2.answer = "none" => t.pc = "running" /\ t.answer = "none" /\ t2.id = t.id

LEMMA CalmTruth ==
  ASSUME NEW x \in Entries, NEW d \in Executions, NEW t, NEW d2 \in Executions, NEW t2,
         Truth(x, d, t), Calm(d, t, d2, t2)
  PROVE  Truth(x, d2, t2)
<1>1. x.turn \in Nat /\ d.turn \in Nat /\ d2.turn \in Nat
  BY RunConstants DEF Entries, Executions
<1>2. x.turn <= d2.turn
  BY <1>1 DEF Truth, Calm
<1> QED BY <1>2 DEF Truth, Calm

(* The request that waits is settled: nothing said of it yet.              *)
LEMMA SettledTruth ==
  ASSUME NEW x \in Entries, NEW d \in Executions, NEW t, NEW d2, NEW t2, NEW said,
         Truth(x, d, t), t.pc = "running", t.answer = "none", d2.turn = d.turn,
         d2.settled = [d.settled EXCEPT ![t.id] = said], t2.answer # "none"
  PROVE  Truth(x, d2, t2)
<1>1. x.what \in Answers => x.turn # t.id /\ x.turn \in Turns /\ d2.settled[x.turn] = d.settled[x.turn]
  BY DEF Truth, Executions
<1> QED BY <1>1 DEF Truth

LEMMA LostKept ==
  ASSUME NEW x, NEW st, NEW t, NEW c, NEW t2, NEW c2, LostIsOver(x, st, t, c),
         UnderWay(t2) => UnderWay(t) /\ t2.id = t.id,
         c2.pc = "delegating" => c2 = c
  PROVE  LostIsOver(x, st, t2, c2)
BY DEF LostIsOver

(* What is out already is true.                                            *)
LEMMA OutIsTrue == ASSUME RunInv, NEW x \in Entries, Out(x) PROVE Truth(x, execution, turn)
BY DEF RunInv, TruthInv

LEMMA NoEntryTrue == ASSUME NEW d \in Executions, NEW t PROVE Truth(NoEntry, d, t)
BY NoEntryFacts, RunConstants DEF Truth, Answers, Executions

-----------------------------------------------------------------------------
(* Steps of commands that leave the turn and its record alone.             *)
LEMMA ControlMoves ==
  ASSUME RunInv, UNCHANGED <<execution, turn, shut, approver>>,
         NEW e \in Entries, Appended(e), Fitting(e), e.what \notin {"asked", "recovery"},
         Truth(e, execution, turn), control' \in Controls,
         commands' \in [Orders -> {"new", "accepted", "rejected", "completed"}], faults' \in 0 .. MaxFaults,
         control'.pc # "none" => control'.order \in Orders,
         control'.pc = "delegating" => control' = control
  PROVE  RunInv'
<1>1. stuck' \in {stuck, NoEntry, e} /\ \A n : Ended(taskLog, n) => Ended(taskLog', n)
  BY LogFacts
<1>2. PendingFits(stuck', execution', shut')
  BY <1>1, RunNow, NoEntryFacts DEF PendingFits
<1>3. EndFits(taskLog', turn', execution', shut', approver')
  BY <1>1, RunNow DEF EndFits
<1>4. ControlFits(control', execution')
  BY RunNow DEF ControlFits
<1>5. \A x \in Entries : LostIsOver(x, stuck, turn, control) => LostIsOver(x, stuck, turn', control')
  BY LostKept
<1>6. TurnFits(turn', execution', shut')
  BY RunNow
<1>7. \A x \in Entries : IsIn(turn'.queue, x) => IsIn(turn.queue, x)
  OBVIOUS
<1>8. Truth(e, execution', turn')
  OBVIOUS
<1>9. \A x \in Entries : Out(x) /\ Truth(x, execution, turn) => Truth(x, execution', turn')
  OBVIOUS
<1> QED BY <1>2, <1>3, <1>4, <1>5, <1>6, <1>7, <1>8, <1>9, RunNow, NoEntryFacts, RunMoves

(* A command is over.                                                      *)
LEMMA CommandFacts ==
  ASSUME RunInv
  PROVE  /\ Refused \/ Completed =>
              /\ control' \in Controls /\ control'.pc = "none"
              /\ commands' \in [Orders -> {"new", "accepted", "rejected", "completed"}]
         /\ UNCHANGED <<commands, control>> =>
              /\ control' \in Controls
              /\ commands' \in [Orders -> {"new", "accepted", "rejected", "completed"}]
<1>1. NoControl \in Controls /\ NoControl.pc = "none"
  BY DEF NoControl, Controls
<1>2. /\ [commands EXCEPT ![control.order] = "rejected"] \in [Orders -> {"new", "accepted", "rejected", "completed"}]
      /\ [commands EXCEPT ![control.order] = "completed"] \in [Orders -> {"new", "accepted", "rejected", "completed"}]
  BY RunNow
<1> QED BY <1>1, <1>2, RunNow DEF Refused, Completed

(* Where a command is changes.                                             *)
LEMMA PlaceFacts ==
  ASSUME NEW c \in Controls, NEW pc \in {"none", "taken", "starting", "delegating", "waiting"}
  PROVE  /\ [c EXCEPT !.pc = pc] \in Controls /\ [c EXCEPT !.pc = pc].pc = pc
         /\ [c EXCEPT !.pc = pc].order = c.order
BY DEF Controls

LEMMA RefusedInv ==
  ASSUME RunInv, Refused \/ Completed, UNCHANGED <<taskLog, stuck, execution, turn, approver, shut, faults>>
  PROVE  RunInv'
BY CommandFacts, RunNow, NoEntryFits, NoEntryFacts, NoEntryTrue, ControlMoves DEF Appended

LEMMA ControlTakenInv == ASSUME RunInv, NEW o \in Orders, ControlTaken(o) PROVE RunInv'
<1>1. /\ control' = [pc |-> "taken", order |-> o] /\ commands' = [commands EXCEPT ![o] = "accepted"]
      /\ UNCHANGED <<taskLog, stuck, execution, turn, approver, shut, faults>>
  BY DEF ControlTaken
<1>2. control' \in Controls /\ control'.pc = "taken" /\ control'.order = o
  BY <1>1 DEF Controls
<1>3. commands' \in [Orders -> {"new", "accepted", "rejected", "completed"}]
  BY <1>1, RunNow
<1> QED BY <1>1, <1>2, <1>3, RunNow, NoEntryFits, NoEntryFacts, NoEntryTrue, ControlMoves DEF Appended

LEMMA ControlConcludesInv ==
  ASSUME RunInv, NEW fails \in BOOLEAN, NEW reached \in BOOLEAN, ControlConcludes(fails, reached)
  PROVE  RunInv'
<1> DEFINE e == Entry("outcome", 0, "none")
<1>1. UNCHANGED <<execution, turn, approver, shut>>
  BY DEF ControlConcludes, Acting
<1>2. e \in Entries /\ e.what = "outcome" /\ e.turn = 0
  BY EntryFacts, RunConstants DEF Words
<1>3. Truth(e, execution, turn)
  BY <1>2, RunNow DEF Truth, Answers
<1>4. Fitting(e)
  BY <1>2, NoEntryFits, NoEntryFacts DEF Fitting
<1>5. CASE Saying("outcome", 0)
  BY <1>1, <1>5, RefusedInv DEF ControlConcludes
<1>6. CASE ~Saying("outcome", 0)
  <2>1. Appended(e) /\ (Refused \/ Completed)
    BY <1>6 DEF ControlConcludes, Appended, NotWritten
  <2>2. faults' \in 0 .. MaxFaults
    BY <1>6, RunNow, RunConstants DEF ControlConcludes, NotWritten
  <2> HIDE DEF e
  <2> QED BY <1>1, <1>2, <1>3, <1>4, <2>1, <2>2, CommandFacts, ControlMoves
<1> QED BY <1>5, <1>6

-----------------------------------------------------------------------------
(* Steps that leave the log alone and begin no turn.                       *)
LEMMA TurnMoves ==
  ASSUME RunInv, UNCHANGED <<taskLog, stuck>>,
         turn' \in TurnRecords, execution' \in Executions, control' \in Controls,
         commands' \in [Orders -> {"new", "accepted", "rejected", "completed"}],
         approver' \in {"verified", "removed", "told"}, shut' \in BOOLEAN, faults' \in 0 .. MaxFaults,
         TurnFits(turn', execution', shut'), ControlFits(control', execution'),
         \A x \in Entries : IsIn(turn'.queue, x) => IsIn(turn.queue, x) \/ Truth(x, execution', turn'),
         \A x \in Entries : Out(x) /\ Truth(x, execution, turn) => Truth(x, execution', turn'),
         UnderWay(turn') => UnderWay(turn) /\ turn'.id = turn.id,
         control'.pc = "delegating" =>
           control' = control \/ (UnderWay(turn) /\ control'.order.turn = turn.id),
         PendingFits(stuck, execution', shut'),
         EndFits(taskLog, turn', execution', shut', approver')
  PROVE  RunInv'
<1>1. Appended(NoEntry) /\ Fitting(NoEntry) /\ NoEntry \in Entries /\ NoEntry.what = "none"
  BY NoEntryFits, NoEntryFacts DEF Appended
<1>2. Truth(NoEntry, execution', turn')
  BY NoEntryTrue
<1>3. \A x \in Entries : IsIn(taskLog, x) /\ x.what = "recovery" /\ LostIsOver(x, stuck, turn, control)
        => LostIsOver(x, stuck, turn', control')
  BY DEF LostIsOver
<1>4. PendingFits(stuck', execution', shut')
  OBVIOUS
<1>5. EndFits(taskLog', turn', execution', shut', approver')
  OBVIOUS
<1> QED BY <1>1, <1>2, <1>3, <1>4, <1>5, RunMoves

LEMMA RemovalToldInv == ASSUME RunInv, RemovalTold PROVE RunInv'
<1>1. /\ UNCHANGED <<taskLog, stuck, execution, commands, control, turn, shut, faults>>
      /\ approver' = "told"
  BY DEF RemovalTold
<1>2. EndFits(taskLog', turn', execution', shut', approver')
  <2>1. UnderWay(turn) => ~turn.authority
    BY DEF RemovalTold, UnderWay
  <2> QED BY <1>1, <2>1, RunNow DEF EndFits
<1>3. TurnFits(turn', execution', shut') /\ ControlFits(control', execution')
  BY <1>1, RunNow
<1>4. PendingFits(stuck', execution', shut') /\ approver' \in {"verified", "removed", "told"}
  BY <1>1, RunNow
<1> QED BY <1>1, <1>2, <1>3, <1>4, RunNow, NoEntryFacts, NoEntryTrue, TurnMoves

-----------------------------------------------------------------------------
(* How a turn's record in memory is changed.                               *)
LEMMA NoTurnFacts ==
  /\ NoTurn \in TurnRecords /\ NoTurn.pc = "none" /\ NoTurn.queue = <<>> /\ NoTurn.id = 0
  /\ ~NoTurn.failed /\ ~NoTurn.asked
BY RunConstants, EmptyFacts DEF NoTurn, TurnRecords

LEMMA BegunFacts ==
  ASSUME RunInv, Begun, execution.turn < MaxTurns
  PROVE  /\ turn' \in TurnRecords /\ turn'.pc = "creating" /\ turn'.id = execution.turn + 1
         /\ turn'.queue = <<>> /\ ~turn'.failed /\ ~turn'.asked
<1>1. execution.turn + 1 \in 0 .. MaxTurns
  BY RunNow
<1>2. turn' = [NoTurn EXCEPT !.pc = "creating", !.id = execution.turn + 1]
  BY DEF Begun
<1> QED BY <1>1, <1>2, NoTurnFacts DEF TurnRecords

(* One that only stops: a request that waits is answered, and nothing said.*)
LEMMA StoppedFacts ==
  ASSUME NEW t \in TurnRecords
  PROVE  LET s == StoppedTurn(t)
         IN  /\ s \in TurnRecords /\ s.pc = t.pc /\ s.id = t.id /\ s.queue = t.queue
             /\ s.failed = t.failed /\ s.stopping /\ s.asked = t.asked /\ s.authority = t.authority
             /\ s.answer = IF Awaited THEN "cancel" ELSE t.answer
BY DEF StoppedTurn, TurnRecords

(* A turn that goes away, or does not come to run.                         *)
LEMMA TurnGone ==
  ASSUME RunInv, turn' \in TurnRecords, turn'.pc \in {"none", "creating"}, turn'.queue = <<>>, ~turn'.failed
  PROVE  /\ \A x : ~IsIn(turn'.queue, x)
         /\ \A x \in Entries : Out(x) /\ Truth(x, execution, turn) => Truth(x, execution, turn')
         /\ ~UnderWay(turn') /\ ~Unanswered(turn')
<1>1. \A x \in Entries : Out(x) /\ Truth(x, execution, turn) => Truth(x, execution, turn')
  <2>1. Calm(execution, turn, execution, turn')
    BY RunNow DEF Calm
  <2> QED BY <2>1, RunNow, CalmTruth
<1> QED BY <1>1, EmptyFacts DEF UnderWay, Unanswered

LEMMA BeginsInv ==
  ASSUME RunInv, Begun, execution.turn < MaxTurns,
         execution.state \in {"none", "finished"} \/ (execution.state = "recovery" /\ execution.logged),
         UNCHANGED <<taskLog, stuck, execution, commands, approver, shut, faults>>,
         control' \in Controls, control'.pc # "none" => control'.order \in Orders, control'.pc # "delegating"
  PROVE  RunInv'
<1>1. /\ turn' \in TurnRecords /\ turn'.pc = "creating" /\ turn'.id = execution.turn + 1
      /\ turn'.queue = <<>> /\ ~turn'.failed /\ ~turn'.asked
  BY BegunFacts
<1>2. TurnFits(turn', execution', shut')
  BY <1>1, RunNow, EmptyFacts DEF TurnFits, UnderWay, Unanswered
<1>3. EndFits(taskLog, turn', execution', shut', approver')
  BY <1>1, RunNow DEF EndFits, UnderWay
<1>4. ControlFits(control', execution')
  BY DEF ControlFits
<1> QED BY <1>1, <1>2, <1>3, <1>4, RunNow, TurnGone, NoEntryFacts, NoEntryTrue, TurnMoves

LEMMA TaskBeginsInv == ASSUME RunInv, TaskBegins PROVE RunInv'
<1>1. execution.turn = 0 /\ MaxTurns > 0 /\ execution.state = "none"
  BY RunNow DEF TaskBegins, TurnFits
<1> QED BY <1>1, RunNow, BeginsInv DEF TaskBegins

LEMMA ControlStartsInv == ASSUME RunInv, ControlStarts PROVE RunInv'
<1> DEFINE ok == /\ Startable /\ execution.turn < MaxTurns /\ execution.state # "running"
                 /\ execution.state = "recovery" => control.order.action = "continue"
<1>1. CASE ok
  <2>1. /\ Begun /\ control' = [control EXCEPT !.pc = "starting"] /\ execution.turn < MaxTurns
        /\ UNCHANGED <<taskLog, stuck, execution, commands, approver, shut, faults>>
        /\ control.pc = "taken" /\ ~Lost /\ turn.pc = "none" /\ ~shut /\ execution.state # "running"
    BY <1>1 DEF ControlStarts, Acting, Startable
  <2>2. control' \in Controls /\ control'.pc = "starting" /\ control'.order \in Orders
    BY <2>1, RunNow, PlaceFacts DEF ControlFits
  <2>3. execution.state \in {"none", "finished"} \/ (execution.state = "recovery" /\ execution.logged)
    BY <2>1, RunNow DEF Lost, Executions
  <2> QED BY <2>1, <2>2, <2>3, BeginsInv
<1>2. CASE ~ok
  <2>1. Refused /\ UNCHANGED <<taskLog, stuck, execution, turn, approver, shut, faults>>
    BY <1>2 DEF ControlStarts, Acting
  <2> QED BY <2>1, RefusedInv
<1> QED BY <1>1, <1>2

LEMMA TurnTooLateInv == ASSUME RunInv, TurnTooLate PROVE RunInv'
<1>1. /\ turn' = NoTurn /\ UNCHANGED <<taskLog, stuck, execution, approver, shut, faults>>
      /\ Refused \/ UNCHANGED <<commands, control>>
  BY DEF TurnTooLate
<1>2. TurnFits(turn', execution', shut')
  BY <1>1, RunNow, NoTurnFacts, EmptyFacts DEF TurnFits, UnderWay, Unanswered
<1>3. EndFits(taskLog, turn', execution', shut', approver')
  BY <1>1, RunNow, NoTurnFacts DEF EndFits, UnderWay
<1>4. /\ control' \in Controls /\ control'.pc \in {"none", control.pc} /\ ControlFits(control', execution')
      /\ commands' \in [Orders -> {"new", "accepted", "rejected", "completed"}]
      /\ control'.pc = "delegating" => control' = control
  BY <1>1, RunNow, CommandFacts DEF ControlFits
<1> QED BY <1>1, <1>2, <1>3, <1>4, RunNow, NoTurnFacts, TurnGone, NoEntryFacts, NoEntryTrue, TurnMoves

LEMMA TaskNotCreatedInv ==
  ASSUME RunInv, NEW reached \in BOOLEAN, TaskNotCreated(reached) PROVE RunInv'
<1> DEFINE e == Entry("created", 0, "none")
<1>1. /\ turn' = NoTurn /\ UNCHANGED <<execution, approver, shut>> /\ NotWritten(e, reached)
      /\ Refused \/ UNCHANGED <<commands, control>>
  BY DEF TaskNotCreated
<1>2. e \in Entries /\ e.what = "created" /\ e.turn = 0
  BY EntryFacts, RunConstants DEF Words
<1>3. Truth(e, execution', turn')
  BY <1>1, <1>2, RunNow DEF Truth, Answers
<1>4. Fitting(e)
  BY <1>2, NoEntryFits, NoEntryFacts DEF Fitting
<1>5. Appended(e) /\ faults' \in 0 .. MaxFaults
  BY <1>1, RunNow, RunConstants DEF Appended, NotWritten
<1> HIDE DEF e
<1>6. TurnFits(turn', execution', shut')
  BY <1>1, RunNow, NoTurnFacts, EmptyFacts DEF TurnFits, UnderWay, Unanswered
<1>7. stuck' \in {stuck, NoEntry, e} /\ \A n : Ended(taskLog, n) => Ended(taskLog', n)
  BY <1>2, <1>4, <1>5, LogFacts
<1>8. EndFits(taskLog', turn', execution', shut', approver')
  BY <1>1, <1>7, RunNow, NoTurnFacts DEF EndFits, UnderWay
<1>9. PendingFits(stuck', execution', shut')
  BY <1>1, <1>2, <1>7, RunNow, NoEntryFacts DEF PendingFits
<1>10. /\ control' \in Controls /\ control'.pc \in {"none", control.pc} /\ ControlFits(control', execution')
       /\ commands' \in [Orders -> {"new", "accepted", "rejected", "completed"}]
       /\ control'.pc = "delegating" => control' = control
  BY <1>1, RunNow, CommandFacts DEF ControlFits
<1>11. \A x \in Entries : LostIsOver(x, stuck, turn, control) => LostIsOver(x, stuck, turn', control')
  BY <1>1, <1>10, NoTurnFacts, LostKept DEF UnderWay
<1>12. /\ \A x : ~IsIn(turn'.queue, x)
       /\ \A x \in Entries : Out(x) /\ Truth(x, execution, turn) => Truth(x, execution', turn')
  BY <1>1, NoTurnFacts, TurnGone
<1> QED BY <1>1, <1>2, <1>3, <1>4, <1>5, <1>6, <1>8, <1>9, <1>10, <1>11, <1>12, RunNow, NoTurnFacts,
           NoEntryFacts, NoEntryTrue, RunMoves

-----------------------------------------------------------------------------
(* A turn that goes on, whatever it still says, and settles nothing.       *)
LEMMA TurnGoes ==
  ASSUME RunInv, UnderWay(turn), UNCHANGED <<taskLog, stuck, faults>>,
         turn' \in TurnRecords, UnderWay(turn'), turn'.id = turn.id, turn'.failed = turn.failed,
         turn.stopping => turn'.stopping, turn'.authority = turn.authority,
         turn'.pc = "running" => turn.pc = "running" /\ (turn'.answer = "none" => turn.answer = "none"),
         Unanswered(turn') => ~shut' /\ ~turn'.stopping,
         \A x \in Entries : IsIn(turn'.queue, x) =>
           IsIn(turn.queue, x) \/ (x.turn = turn.id /\ x.what \notin Answers \cup {"recovery"}),
         \A n : Ended(turn.queue, n) => Ended(turn'.queue, n),
         turn'.pc = "flushing" => turn.pc = "flushing" \/ turn.failed \/ shut' \/ Ended(turn'.queue, turn.id),
         execution' \in Executions, execution'.turn = execution.turn, execution'.state = execution.state,
         execution'.failure = execution.failure, execution'.logged = execution.logged,
         execution'.settled = execution.settled, execution'.atFailure = execution.atFailure,
         execution'.open \subseteq execution.open \cup {turn.id},
         shut' \in BOOLEAN, shut => shut', approver' \in {approver, "removed"},
         control' \in Controls, commands' \in [Orders -> {"new", "accepted", "rejected", "completed"}],
         ControlFits(control', execution'),
         control'.pc = "delegating" => control' = control \/ control'.order.turn = turn.id
  PROVE  RunInv'
<1>0. /\ turn.id = execution.turn /\ execution.turn # 0 /\ execution.turn \in 1 .. MaxTurns
      /\ turn.id \in Turns
  BY RunNow DEF TurnFits
<1>1. Calm(execution, turn, execution', turn')
  BY RunNow DEF Calm
<1>2. \A x \in Entries : Out(x) /\ Truth(x, execution, turn) => Truth(x, execution', turn')
  BY <1>1, RunNow, CalmTruth
<1>3. ASSUME NEW x \in Entries, IsIn(turn'.queue, x)
      PROVE  IsIn(turn.queue, x) \/ Truth(x, execution', turn')
  BY <1>0, <1>3, RunNow DEF Truth
<1>4. TurnFits(turn', execution', shut')
  <2>1. execution'.open \subseteq 1 .. execution'.turn /\ execution'.atFailure \subseteq 1 .. execution'.turn
    BY <1>0, RunNow DEF TurnFits
  <2>2. \A x \in Entries : IsIn(turn'.queue, x) => x.turn = turn'.id /\ x.what \notin {"recovery", "closed"}
    BY RunNow DEF TurnFits, Answers
  <2> QED BY <1>0, <2>1, <2>2, RunNow DEF TurnFits, UnderWay
<1>5. PendingFits(stuck, execution', shut')
  BY RunNow DEF PendingFits
<1>6. EndFits(taskLog, turn', execution', shut', approver')
  BY RunNow DEF EndFits
<1>7. approver' \in {"verified", "removed", "told"}
  BY RunNow
<1> QED BY <1>2, <1>3, <1>4, <1>5, <1>6, <1>7, RunNow, TurnMoves

(* A request that waits is settled.                                        *)
LEMMA Settles ==
  ASSUME RunInv, Awaited, NEW said \in {"accept", "cancel"}, UNCHANGED <<taskLog, stuck, shut, faults>>,
         turn' \in TurnRecords, turn'.pc = turn.pc, turn'.id = turn.id, turn'.failed = turn.failed,
         turn'.answer = said, turn'.authority = turn.authority,
         \A x \in Entries : IsIn(turn'.queue, x) =>
           \/ IsIn(turn.queue, x) \/ x = Entry("decided", turn.id, said)
           \/ x.turn = turn.id /\ x.what = "receipt",
         execution' \in Executions, execution'.turn = execution.turn, execution'.state = execution.state,
         execution'.failure = execution.failure, execution'.logged = execution.logged,
         execution'.settled = [execution.settled EXCEPT ![turn.id] = said],
         execution'.atFailure = execution.atFailure, execution'.open = {},
         approver' \in {approver, "removed"},
         control' \in Controls, commands' \in [Orders -> {"new", "accepted", "rejected", "completed"}],
         ControlFits(control', execution'), control'.pc = "delegating" => control' = control
  PROVE  RunInv'
<1>0. /\ turn.pc = "running" /\ turn.answer = "none" /\ UnderWay(turn) /\ Unanswered(turn)
      /\ turn.id = execution.turn /\ execution.turn # 0 /\ turn.id \in Turns
      /\ ~turn.failed /\ turn.id \in 0 .. MaxTurns
  BY RunNow DEF Awaited, TurnFits, UnderWay, Unanswered
<1>1. \A x \in Entries : Out(x) /\ Truth(x, execution, turn) => Truth(x, execution', turn')
  BY <1>0, RunNow, SettledTruth
<1>2. ASSUME NEW x \in Entries, IsIn(turn'.queue, x)
      PROVE  /\ IsIn(turn.queue, x) \/ Truth(x, execution', turn')
             /\ x.turn = turn'.id /\ x.what \notin {"recovery", "closed"}
  <2>1. CASE IsIn(turn.queue, x)
    BY <2>1, RunNow DEF TurnFits
  <2>2. CASE x = Entry("decided", turn.id, said)
    <3>1. x.what = "decided" /\ x.turn = turn.id /\ x.said = said
      BY <1>0, <2>2, EntryFacts DEF Words
    <3>2. execution'.settled[turn.id] = said
      BY <1>0, RunNow DEF Executions
    <3> QED BY <1>0, <3>1, <3>2, RunNow DEF Truth
  <2>3. CASE x.turn = turn.id /\ x.what = "receipt"
    BY <1>0, <2>3, RunNow DEF Truth, Answers
  <2> QED BY <1>2, <2>1, <2>2, <2>3
<1>3. TurnFits(turn', execution', shut')
  <2>1. execution'.open \subseteq 1 .. execution'.turn /\ execution'.atFailure \subseteq 1 .. execution'.turn
    BY RunNow DEF TurnFits
  <2>2. ~Unanswered(turn') /\ UnderWay(turn')
    BY <1>0 DEF Unanswered, UnderWay
  <2> QED BY <1>0, <1>2, <2>1, <2>2, RunNow DEF TurnFits
<1>4. PendingFits(stuck, execution', shut')
  BY RunNow DEF PendingFits
<1>5. EndFits(taskLog, turn', execution', shut', approver')
  BY <1>0, RunNow DEF EndFits, UnderWay
<1>6. approver' \in {"verified", "removed", "told"} /\ (UnderWay(turn') => UnderWay(turn))
  BY <1>0, RunNow
<1> QED BY <1>1, <1>2, <1>3, <1>4, <1>5, <1>6, RunNow, TurnMoves

-----------------------------------------------------------------------------
(* What is told goes to the queue, unless the host closes or has failed.   *)
LEMMA TellingFacts ==
  ASSUME NEW t \in TurnRecords, NEW e \in Entries
  PROVE  LET s == Telling(t, e)
         IN  /\ s \in TurnRecords /\ s.pc = t.pc /\ s.id = t.id /\ s.failed = t.failed
             /\ s.stopping = t.stopping /\ s.asked = t.asked /\ s.answer = t.answer
             /\ s.authority = t.authority
             /\ \A x : IsIn(s.queue, x) => IsIn(t.queue, x) \/ x = e
             /\ \A n : Ended(t.queue, n) => Ended(s.queue, n)
             /\ shut \/ t.failed \/ (e.what = "ended" => Ended(s.queue, e.turn))
<1>1. CASE shut \/ t.failed
  BY <1>1 DEF Telling
<1>2. CASE ~(shut \/ t.failed)
  <2>1. t.queue \in Seq(Entries)
    BY DEF TurnRecords
  <2>2. Append(t.queue, e) \in Seq(Entries)
    BY <2>1, AppendFacts
  <2>3. Telling(t, e) = [t EXCEPT !.queue = Append(t.queue, e)]
    BY <1>2 DEF Telling
  <2>4. /\ Telling(t, e) \in TurnRecords /\ Telling(t, e).queue = Append(t.queue, e)
        /\ Telling(t, e).pc = t.pc /\ Telling(t, e).id = t.id /\ Telling(t, e).failed = t.failed
        /\ Telling(t, e).stopping = t.stopping /\ Telling(t, e).asked = t.asked
        /\ Telling(t, e).answer = t.answer /\ Telling(t, e).authority = t.authority
    BY <2>2, <2>3 DEF TurnRecords
  <2> QED BY <2>1, <2>4, AppendFacts
<1> QED BY <1>1, <1>2

(* One entry more in the queue.                                            *)
LEMMA QueuedFacts ==
  ASSUME NEW t \in TurnRecords, NEW e \in Entries
  PROVE  LET s == [t EXCEPT !.queue = Append(@, e)]
         IN  /\ s \in TurnRecords /\ s.pc = t.pc /\ s.id = t.id /\ s.failed = t.failed
             /\ s.stopping = t.stopping /\ s.asked = t.asked /\ s.answer = t.answer
             /\ s.authority = t.authority
             /\ \A x : IsIn(s.queue, x) => IsIn(t.queue, x) \/ x = e
             /\ \A n : Ended(t.queue, n) => Ended(s.queue, n)
<1>1. t.queue \in Seq(Entries)
  BY DEF TurnRecords
<1>2. Append(t.queue, e) \in Seq(Entries)
  BY <1>1, AppendFacts
<1>3. LET s == [t EXCEPT !.queue = Append(t.queue, e)]
      IN  /\ s \in TurnRecords /\ s.queue = Append(t.queue, e) /\ s.pc = t.pc /\ s.id = t.id
          /\ s.failed = t.failed /\ s.stopping = t.stopping /\ s.asked = t.asked
          /\ s.answer = t.answer /\ s.authority = t.authority
  BY <1>2 DEF TurnRecords
<1> QED BY <1>1, <1>3, AppendFacts

LEMMA SettledFacts ==
  ASSUME RunInv, turn.id \in Turns, NEW said \in {"accept", "cancel"}, NEW d \in Executions
  PROVE  LET s == SettledAs(d, said)
         IN  /\ s \in Executions /\ s.turn = d.turn /\ s.state = d.state /\ s.failure = d.failure
             /\ s.logged = d.logged /\ s.atFailure = d.atFailure /\ s.open = {}
             /\ s.settled = [d.settled EXCEPT ![turn.id] = said]
<1>1. [d.settled EXCEPT ![turn.id] = said] \in [Turns -> {"none", "accept", "cancel"}]
  BY DEF Executions
<1>2. SettledAs(d, said) = [d EXCEPT !.open = {}, !.granted = FALSE, !.settled = [d.settled EXCEPT ![turn.id] = said]]
  BY DEF SettledAs, Executions
<1>3. SettledAs(d, said) \in Executions
  BY <1>1, <1>2 DEF Executions
<1> QED BY <1>2, <1>3 DEF Executions

LEMMA AwaitedFacts ==
  ASSUME RunInv, Awaited
  PROVE  /\ ~shut /\ ~turn.failed /\ ~turn.stopping /\ turn.id \in Turns /\ turn.id \in 0 .. MaxTurns
         /\ UnderWay(turn) /\ turn.pc = "running" /\ turn.id = execution.turn
BY RunNow DEF Awaited, TurnFits, UnderWay, Unanswered

LEMMA SettlingInv ==
  ASSUME RunInv, Awaited, NEW said \in {"accept", "cancel"}, Settling(said),
         UNCHANGED <<taskLog, stuck, approver, shut, faults>>,
         (Refused \/ Completed) \/ UNCHANGED <<commands, control>>
  PROVE  RunInv'
<1> DEFINE t == [turn EXCEPT !.answer = said]
           e == Entry("decided", turn.id, said)
<1>1. /\ t \in TurnRecords /\ t.pc = turn.pc /\ t.id = turn.id /\ t.failed = turn.failed
      /\ t.answer = said /\ t.authority = turn.authority /\ t.queue = turn.queue
  BY RunNow DEF TurnRecords
<1>2. e \in Entries
  BY AwaitedFacts, EntryFacts DEF Words
<1>3. turn' = Telling(t, e) /\ execution' = SettledAs(execution, said)
  BY AwaitedFacts DEF Settling, Updated
<1> HIDE DEF t
<1>4. /\ turn' \in TurnRecords /\ turn'.pc = turn.pc /\ turn'.id = turn.id /\ turn'.failed = turn.failed
      /\ turn'.answer = said /\ turn'.authority = turn.authority
      /\ \A x : IsIn(turn'.queue, x) => IsIn(turn.queue, x) \/ x = e
  <2> HIDE DEF e
  <2> QED BY <1>1, <1>2, <1>3, TellingFacts
<1>5. /\ execution' \in Executions /\ execution'.turn = execution.turn /\ execution'.state = execution.state
      /\ execution'.failure = execution.failure /\ execution'.logged = execution.logged
      /\ execution'.settled = [execution.settled EXCEPT ![turn.id] = said]
      /\ execution'.atFailure = execution.atFailure /\ execution'.open = {}
  BY <1>3, RunNow, AwaitedFacts, SettledFacts
<1>6. /\ control' \in Controls /\ control'.pc \in {"none", control.pc}
      /\ commands' \in [Orders -> {"new", "accepted", "rejected", "completed"}]
      /\ control'.pc = "delegating" => control' = control
      /\ ControlFits(control', execution')
  BY <1>5, RunNow, CommandFacts DEF ControlFits
<1> QED BY <1>4, <1>5, <1>6, Settles

LEMMA RequestExpiresInv == ASSUME RunInv, RequestExpires PROVE RunInv'
BY SettlingInv DEF RequestExpires

LEMMA ControlAnswersInv == ASSUME RunInv, ControlAnswers PROVE RunInv'
<1>1. CASE Settling(control.order.action) /\ Completed /\ Awaited
  BY <1>1, SettlingInv DEF ControlAnswers, Acting
<1>2. CASE Refused /\ UNCHANGED <<turn, execution>>
  BY <1>2, RefusedInv DEF ControlAnswers, Acting
<1> QED BY <1>1, <1>2 DEF ControlAnswers

LEMMA RequestMadeInv == ASSUME RunInv, RequestMade PROVE RunInv'
<1> DEFINE t == [turn EXCEPT !.asked = TRUE]
           e == Entry("asked", turn.id, "none")
<1>1. /\ turn.pc = "running" /\ ~turn.asked /\ ~turn.stopping /\ ~shut /\ UnderWay(turn)
      /\ UNCHANGED <<taskLog, stuck, commands, control, approver, shut, faults>>
      /\ turn' = Telling(t, e) /\ execution' = [execution EXCEPT !.open = {turn.id}]
  BY DEF RequestMade, Updated, UnderWay
<1>2. /\ t \in TurnRecords /\ t.pc = turn.pc /\ t.id = turn.id /\ t.failed = turn.failed
      /\ t.answer = turn.answer /\ t.authority = turn.authority /\ t.queue = turn.queue
      /\ t.stopping = turn.stopping
  BY RunNow DEF TurnRecords
<1>3. e \in Entries /\ e.what = "asked" /\ e.turn = turn.id
  BY RunNow, EntryFacts DEF Words
<1> HIDE DEF t, e
<1>4. /\ turn' \in TurnRecords /\ turn'.pc = turn.pc /\ turn'.id = turn.id /\ turn'.failed = turn.failed
      /\ turn'.answer = turn.answer /\ turn'.authority = turn.authority /\ turn'.stopping = turn.stopping
      /\ \A x : IsIn(turn'.queue, x) => IsIn(turn.queue, x) \/ x = e
      /\ \A n : Ended(turn.queue, n) => Ended(turn'.queue, n)
  BY <1>1, <1>2, <1>3, TellingFacts
<1>5. turn.id \in Turns
  BY <1>1, RunNow DEF TurnFits
<1>6. /\ execution' \in Executions /\ execution'.turn = execution.turn /\ execution'.state = execution.state
      /\ execution'.failure = execution.failure /\ execution'.logged = execution.logged
      /\ execution'.settled = execution.settled /\ execution'.atFailure = execution.atFailure
      /\ execution'.open = {turn.id}
  BY <1>1, <1>5, RunNow DEF Executions
<1>7. ControlFits(control', execution') /\ UnderWay(turn')
  BY <1>1, <1>4, <1>6, RunNow DEF ControlFits, UnderWay
<1>8. \A x \in Entries : IsIn(turn'.queue, x) =>
        IsIn(turn.queue, x) \/ (x.turn = turn.id /\ x.what \notin Answers \cup {"recovery"})
  BY <1>3, <1>4 DEF Answers
<1> QED BY <1>1, <1>4, <1>6, <1>7, <1>8, RunNow, TurnGoes

(* The record on disk forgets a grant, and nothing else.                   *)
LEMMA GrantFacts ==
  ASSUME NEW d \in Executions, NEW b \in BOOLEAN
  PROVE  LET s == [d EXCEPT !.granted = b]
         IN  /\ s \in Executions /\ s.turn = d.turn /\ s.state = d.state /\ s.failure = d.failure
             /\ s.logged = d.logged /\ s.atFailure = d.atFailure /\ s.open = d.open
             /\ s.settled = d.settled
BY DEF Executions

LEMMA TurnEndsInv == ASSUME RunInv, TurnEnds PROVE RunInv'
<1> DEFINE t == [turn EXCEPT !.pc = "flushing"]
           e == Entry("ended", turn.id, "none")
<1>1. /\ turn.pc = "running" /\ UnderWay(turn)
      /\ UNCHANGED <<taskLog, stuck, commands, control, approver, shut, faults>>
      /\ turn' = Telling(t, e) /\ execution' = Updated([execution EXCEPT !.granted = FALSE])
  BY DEF TurnEnds, UnderWay, Telling
<1>2. /\ t \in TurnRecords /\ t.pc = "flushing" /\ t.id = turn.id /\ t.failed = turn.failed
      /\ t.answer = turn.answer /\ t.authority = turn.authority /\ t.queue = turn.queue
      /\ t.stopping = turn.stopping
  BY RunNow DEF TurnRecords
<1>3. e \in Entries /\ e.what = "ended" /\ e.turn = turn.id
  BY RunNow, EntryFacts DEF Words
<1> HIDE DEF t, e
<1>4. /\ turn' \in TurnRecords /\ turn'.pc = "flushing" /\ turn'.id = turn.id /\ turn'.failed = turn.failed
      /\ turn'.authority = turn.authority /\ turn'.stopping = turn.stopping
      /\ \A x : IsIn(turn'.queue, x) => IsIn(turn.queue, x) \/ x = e
      /\ \A n : Ended(turn.queue, n) => Ended(turn'.queue, n)
      /\ shut \/ turn.failed \/ Ended(turn'.queue, turn.id)
  BY <1>1, <1>2, <1>3, TellingFacts
<1>5. /\ execution' \in Executions /\ execution'.turn = execution.turn /\ execution'.state = execution.state
      /\ execution'.failure = execution.failure /\ execution'.logged = execution.logged
      /\ execution'.settled = execution.settled /\ execution'.atFailure = execution.atFailure
      /\ execution'.open = execution.open
  BY <1>1, RunNow, GrantFacts DEF Updated
<1>6. ControlFits(control', execution') /\ UnderWay(turn') /\ ~Unanswered(turn')
  BY <1>1, <1>4, <1>5, RunNow DEF ControlFits, UnderWay, Unanswered
<1>7. \A x \in Entries : IsIn(turn'.queue, x) =>
        IsIn(turn.queue, x) \/ (x.turn = turn.id /\ x.what \notin Answers \cup {"recovery"})
  BY <1>3, <1>4 DEF Answers
<1> QED BY <1>1, <1>4, <1>5, <1>6, <1>7, RunNow, TurnGoes

(* A turn that is told to stop.                                            *)
LEMMA StoppedGoes ==
  ASSUME RunInv, UnderWay(turn)
  PROVE  LET s == StoppedTurn(turn)
         IN  /\ s \in TurnRecords /\ s.pc = turn.pc /\ s.id = turn.id /\ s.failed = turn.failed
             /\ s.stopping /\ s.authority = turn.authority /\ s.queue = turn.queue
             /\ ~Unanswered(s) /\ (s.answer = "none" => turn.answer = "none")
BY RunNow, StoppedFacts DEF Unanswered, Awaited

LEMMA HostStopsInv == ASSUME RunInv, HostStops PROVE RunInv'
<1>1. shut' = TRUE /\ UNCHANGED <<taskLog, stuck, execution, commands, control, approver, faults>>
  BY DEF HostStops
<1>2. CASE turn.pc = "running"
  <2>1. turn' = StoppedTurn(turn) /\ UnderWay(turn)
    BY <1>2 DEF HostStops, UnderWay
  <2>2. /\ turn' \in TurnRecords /\ turn'.pc = turn.pc /\ turn'.id = turn.id /\ turn'.failed = turn.failed
        /\ turn'.stopping /\ turn'.authority = turn.authority /\ turn'.queue = turn.queue
        /\ ~Unanswered(turn') /\ (turn'.answer = "none" => turn.answer = "none")
    BY <2>1, StoppedGoes
  <2>3. UnderWay(turn') /\ ControlFits(control', execution')
    BY <1>1, <2>1, <2>2, RunNow DEF UnderWay
  <2> QED BY <1>1, <1>2, <2>1, <2>2, <2>3, RunNow, TurnGoes
<1>3. CASE turn.pc # "running"
  <2>1. turn' = turn
    BY <1>3 DEF HostStops
  <2>2. TurnFits(turn', execution', shut')
    BY <1>1, <1>3, <2>1, RunNow DEF TurnFits, Unanswered
  <2>3. EndFits(taskLog, turn', execution', shut', approver')
    BY <1>1, <2>1, RunNow DEF EndFits
  <2>4. PendingFits(stuck, execution', shut') /\ ControlFits(control', execution')
    BY <1>1, RunNow DEF PendingFits
  <2> QED BY <1>1, <2>1, <2>2, <2>3, <2>4, RunNow, TurnMoves
<1> QED BY <1>2, <1>3

(* The approver's turns are stopped; what waits is cancelled, on disk too. *)
LEMMA CancelledFacts ==
  ASSUME RunInv, UnderWay(turn)
  PROVE  LET s == Cancelled(turn)
         IN  /\ s \in TurnRecords /\ s.pc = turn.pc /\ s.id = turn.id /\ s.failed = turn.failed
             /\ s.stopping /\ s.authority = turn.authority
             /\ ~Unanswered(s) /\ (s.answer = "none" => turn.answer = "none")
             /\ Awaited => s.answer = "cancel"
             /\ \A x : IsIn(s.queue, x) =>
                  IsIn(turn.queue, x) \/ (Awaited /\ x = Entry("decided", turn.id, "cancel"))
             /\ \A n : Ended(turn.queue, n) => Ended(s.queue, n)
<1> DEFINE t == StoppedTurn(turn)
           e == Entry("decided", turn.id, "cancel")
<1>1. /\ t \in TurnRecords /\ t.pc = turn.pc /\ t.id = turn.id /\ t.failed = turn.failed
      /\ t.stopping /\ t.authority = turn.authority /\ t.queue = turn.queue
      /\ ~Unanswered(t) /\ (t.answer = "none" => turn.answer = "none")
      /\ Awaited => t.answer = "cancel"
  BY StoppedGoes, RunNow, StoppedFacts
<1>2. CASE Awaited
  <2>1. e \in Entries
    BY RunNow, EntryFacts DEF Words
  <2>2. Cancelled(turn) = Telling(t, e)
    BY <1>2 DEF Cancelled
  <2>3. e = Entry("decided", turn.id, "cancel")
    OBVIOUS
  <2> HIDE DEF t, e
  <2>4. LET s == Telling(t, e)
        IN  /\ s \in TurnRecords /\ s.pc = t.pc /\ s.id = t.id /\ s.failed = t.failed
            /\ s.stopping = t.stopping /\ s.asked = t.asked /\ s.answer = t.answer
            /\ s.authority = t.authority
            /\ \A x : IsIn(s.queue, x) => IsIn(t.queue, x) \/ x = e
            /\ \A n : Ended(t.queue, n) => Ended(s.queue, n)
    BY <1>1, <2>1, TellingFacts
  <2> QED BY <1>1, <1>2, <2>2, <2>3, <2>4 DEF Unanswered
<1>3. CASE ~Awaited
  BY <1>1, <1>3 DEF Cancelled
<1> QED BY <1>2, <1>3

LEMMA ApproverRemovedInv == ASSUME RunInv, ApproverRemoved PROVE RunInv'
<1>1. approver' = "removed" /\ UNCHANGED <<taskLog, stuck, commands, control, shut, faults>>
  BY DEF ApproverRemoved
<1>2. CASE ~(turn.pc = "running" /\ turn.authority)
  <2>1. UNCHANGED <<turn, execution>>
    BY <1>2 DEF ApproverRemoved
  <2>2. EndFits(taskLog, turn', execution', shut', approver')
    BY <1>1, <2>1, RunNow DEF EndFits
  <2>3. /\ TurnFits(turn', execution', shut') /\ PendingFits(stuck, execution', shut')
        /\ ControlFits(control', execution')
    BY <1>1, <2>1, RunNow
  <2> QED BY <1>1, <2>1, <2>2, <2>3, RunNow, TurnMoves
<1>3. CASE turn.pc = "running" /\ turn.authority
  <2> DEFINE d == [execution EXCEPT !.granted = FALSE]
  <2>1. turn' = Cancelled(turn) /\ execution' = CancelledOnDisk(d) /\ UnderWay(turn)
    BY <1>3 DEF ApproverRemoved, UnderWay
  <2>2. /\ d \in Executions /\ d.turn = execution.turn /\ d.state = execution.state
        /\ d.failure = execution.failure /\ d.logged = execution.logged
        /\ d.settled = execution.settled /\ d.atFailure = execution.atFailure /\ d.open = execution.open
    BY RunNow, GrantFacts
  <2> HIDE DEF d
  <2>3. /\ turn' \in TurnRecords /\ turn'.pc = turn.pc /\ turn'.id = turn.id /\ turn'.failed = turn.failed
        /\ turn'.stopping /\ turn'.authority = turn.authority
        /\ ~Unanswered(turn') /\ (turn'.answer = "none" => turn.answer = "none")
        /\ Awaited => turn'.answer = "cancel"
        /\ \A x : IsIn(turn'.queue, x) =>
             IsIn(turn.queue, x) \/ (Awaited /\ x = Entry("decided", turn.id, "cancel"))
        /\ \A n : Ended(turn.queue, n) => Ended(turn'.queue, n)
    BY <2>1, CancelledFacts
  <2>4. UnderWay(turn')
    BY <2>1, <2>3 DEF UnderWay
  <2>5. CASE Awaited
    <3>1. /\ execution' \in Executions /\ execution'.turn = execution.turn /\ execution'.state = execution.state
          /\ execution'.failure = execution.failure /\ execution'.logged = execution.logged
          /\ execution'.settled = [execution.settled EXCEPT ![turn.id] = "cancel"]
          /\ execution'.atFailure = execution.atFailure /\ execution'.open = {}
      BY <2>1, <2>2, <2>5, AwaitedFacts, SettledFacts DEF CancelledOnDisk
    <3>2. ControlFits(control', execution')
      BY <1>1, <3>1, RunNow DEF ControlFits
    <3> QED BY <1>1, <2>3, <2>5, <3>1, <3>2, RunNow, Settles
  <2>6. CASE ~Awaited
    <3>1. /\ execution' \in Executions /\ execution'.turn = execution.turn /\ execution'.state = execution.state
          /\ execution'.failure = execution.failure /\ execution'.logged = execution.logged
          /\ execution'.settled = execution.settled /\ execution'.atFailure = execution.atFailure
          /\ execution'.open = execution.open
      BY <2>1, <2>2, <2>6 DEF CancelledOnDisk
    <3>2. ControlFits(control', execution')
      BY <1>1, <3>1, RunNow DEF ControlFits
    <3> QED BY <1>1, <1>3, <2>1, <2>3, <2>4, <2>6, <3>1, <3>2, RunNow, TurnGoes
  <2> QED BY <2>5, <2>6
<1> QED BY <1>2, <1>3

LEMMA ControlInterruptsInv == ASSUME RunInv, ControlInterrupts PROVE RunInv'
<1>1. UNCHANGED <<taskLog, stuck, approver, shut, faults>> /\ control.pc = "taken"
  BY DEF ControlInterrupts, Acting
<1>2. CASE ~Running
  BY <1>1, <1>2, RefusedInv DEF ControlInterrupts
<1>3. CASE Running
  <2> DEFINE t == Cancelled(turn)
             r == Entry("receipt", turn.id, "none")
  <2>1. /\ execution' = Updated(CancelledOnDisk(execution)) /\ UnderWay(turn) /\ turn.pc = "running"
        /\ \/ turn' = t /\ Refused
           \/ /\ turn' = [t EXCEPT !.queue = Append(@, r)]
              /\ control' = [control EXCEPT !.pc = "waiting"] /\ UNCHANGED commands
    BY <1>3 DEF ControlInterrupts, Running, UnderWay
  <2>2. /\ t \in TurnRecords /\ t.pc = turn.pc /\ t.id = turn.id /\ t.failed = turn.failed
        /\ t.stopping /\ t.authority = turn.authority
        /\ ~Unanswered(t) /\ (t.answer = "none" => turn.answer = "none")
        /\ Awaited => t.answer = "cancel"
        /\ \A x : IsIn(t.queue, x) =>
             IsIn(turn.queue, x) \/ (Awaited /\ x = Entry("decided", turn.id, "cancel"))
        /\ \A n : Ended(turn.queue, n) => Ended(t.queue, n)
    BY <2>1, CancelledFacts
  <2>3. r \in Entries /\ r.what = "receipt" /\ r.turn = turn.id
    BY RunNow, EntryFacts DEF Words
  <2> HIDE DEF t, r
  <2>4. /\ turn' \in TurnRecords /\ turn'.pc = turn.pc /\ turn'.id = turn.id /\ turn'.failed = turn.failed
        /\ turn'.stopping /\ turn'.authority = turn.authority /\ turn'.answer = t.answer
        /\ \A x : IsIn(turn'.queue, x) => IsIn(t.queue, x) \/ x = r
        /\ \A n : Ended(t.queue, n) => Ended(turn'.queue, n)
        /\ ~Unanswered(turn')
    <3>1. CASE turn' = t
      BY <2>2, <3>1
    <3>2. CASE turn' = [t EXCEPT !.queue = Append(@, r)]
      BY <2>2, <2>3, <3>2, QueuedFacts DEF Unanswered
    <3> QED BY <2>1, <3>1, <3>2
  <2>5. /\ control' \in Controls /\ control'.pc \in {"none", "waiting"}
        /\ commands' \in [Orders -> {"new", "accepted", "rejected", "completed"}]
        /\ control'.pc # "none" => control'.order = control.order
    <3>1. CASE Refused
      BY <3>1, CommandFacts
    <3>2. CASE control' = [control EXCEPT !.pc = "waiting"] /\ UNCHANGED commands
      BY <3>2, RunNow, PlaceFacts
    <3> QED BY <2>1, <3>1, <3>2
  <2>6. UnderWay(turn')
    BY <2>1, <2>4 DEF UnderWay
  <2>7. CASE Awaited
    <3>1. /\ execution' \in Executions /\ execution'.turn = execution.turn /\ execution'.state = execution.state
          /\ execution'.failure = execution.failure /\ execution'.logged = execution.logged
          /\ execution'.settled = [execution.settled EXCEPT ![turn.id] = "cancel"]
          /\ execution'.atFailure = execution.atFailure /\ execution'.open = {}
      BY <2>1, <2>7, RunNow, AwaitedFacts, SettledFacts DEF CancelledOnDisk, Updated
    <3>2. ControlFits(control', execution')
      BY <1>1, <2>5, <3>1, RunNow DEF ControlFits
    <3> QED BY <1>1, <2>2, <2>3, <2>4, <2>5, <2>7, <3>1, <3>2, RunNow, Settles
  <2>8. CASE ~Awaited
    <3>1. execution' = execution
      BY <2>1, <2>8 DEF CancelledOnDisk, Updated
    <3>2. ControlFits(control', execution')
      BY <1>1, <2>5, <3>1, RunNow DEF ControlFits
    <3>3. \A x \in Entries : IsIn(turn'.queue, x) =>
            IsIn(turn.queue, x) \/ (x.turn = turn.id /\ x.what \notin Answers \cup {"recovery"})
      BY <2>2, <2>3, <2>4, <2>8 DEF Answers
    <3> QED BY <1>1, <2>1, <2>2, <2>4, <2>5, <2>6, <2>8, <3>1, <3>2, <3>3, RunNow, TurnGoes
  <2> QED BY <2>7, <2>8
<1> QED BY <1>2, <1>3

-----------------------------------------------------------------------------
(* Delegation: much may happen before it is known who takes part.          *)
LEMMA ControlDelegatesInv == ASSUME RunInv, ControlDelegates PROVE RunInv'
<1>1. UNCHANGED <<taskLog, stuck, execution, turn, approver, shut, faults>> /\ control.pc = "taken"
  BY DEF ControlDelegates, Acting
<1>2. CASE Refused
  BY <1>1, <1>2, RefusedInv
<1>3. CASE Running /\ control' = [control EXCEPT !.pc = "delegating"] /\ UNCHANGED commands
  <2>1. /\ control' \in Controls /\ control'.order = control.order /\ control'.order \in Orders
        /\ control'.order.turn = turn.id /\ UnderWay(turn)
    BY <1>1, <1>3, RunNow, PlaceFacts DEF Running, ControlFits, UnderWay
  <2>2. turn.id = execution.turn
    BY <2>1, RunNow DEF TurnFits
  <2>3. ControlFits(control', execution')
    BY <1>1, <2>1, <2>2, RunNow DEF ControlFits
  <2>4. /\ TurnFits(turn', execution', shut') /\ PendingFits(stuck, execution', shut')
        /\ EndFits(taskLog, turn', execution', shut', approver')
    BY <1>1, RunNow
  <2> QED BY <1>1, <1>3, <2>1, <2>3, <2>4, RunNow, TurnMoves
<1> QED BY <1>2, <1>3 DEF ControlDelegates

LEMMA ControlDelegatedInv == ASSUME RunInv, ControlDelegated PROVE RunInv'
<1> DEFINE grant == control.order.action = "grant"
           e == Entry(IF grant THEN "granted" ELSE "revoked", control.order.turn, "none")
           over == turn.id # control.order.turn
           failed == turn.failed \/ (over /\ execution.state = "recovery")
<1>1. /\ control.pc = "delegating" /\ UNCHANGED <<approver, shut, faults>>
      /\ control.order \in Orders /\ control.order.turn <= execution.turn
      /\ control.order.turn \in Turns /\ control.order.turn \in 0 .. MaxTurns
  <2>1. control.pc = "delegating" /\ UNCHANGED <<approver, shut, faults>>
    BY DEF ControlDelegated
  <2> QED BY <2>1, RunNow, RunConstants DEF ControlFits
<1>2. /\ e \in Entries /\ e.what \in {"granted", "revoked"} /\ e.turn = control.order.turn
  BY <1>1, EntryFacts DEF Words
<1>3. \/ Refused /\ UNCHANGED <<taskLog, stuck, execution, turn>>
      \/ /\ execution' = [execution EXCEPT !.granted = grant] /\ over
         /\ Written(e) /\ Completed /\ UNCHANGED turn
      \/ /\ execution' = [execution EXCEPT !.granted = grant] /\ ~over
         /\ turn' = [turn EXCEPT !.queue = Append(@, e)]
         /\ control' = [control EXCEPT !.pc = "waiting"] /\ UNCHANGED <<taskLog, stuck, commands>>
  BY DEF ControlDelegated
<1>4. LET d == [execution EXCEPT !.granted = grant]
      IN  /\ d \in Executions /\ d.turn = execution.turn /\ d.state = execution.state
          /\ d.failure = execution.failure /\ d.logged = execution.logged
          /\ d.atFailure = execution.atFailure /\ d.open = execution.open
          /\ d.settled = execution.settled
  <2>1. grant \in BOOLEAN
    OBVIOUS
  <2> HIDE DEF grant
  <2> QED BY <2>1, RunNow, GrantFacts
<1> HIDE DEF e, grant, failed
<1>5. CASE Refused /\ UNCHANGED <<taskLog, stuck, execution, turn>>
  BY <1>1, <1>5, RefusedInv
<1>6. CASE /\ execution' = [execution EXCEPT !.granted = grant]
           /\ Written(e) /\ Completed /\ UNCHANGED turn
  <2>1. /\ execution' \in Executions /\ execution'.turn = execution.turn /\ execution'.state = execution.state
        /\ execution'.failure = execution.failure /\ execution'.logged = execution.logged
        /\ execution'.atFailure = execution.atFailure /\ execution'.open = execution.open
        /\ execution'.settled = execution.settled
    BY <1>4, <1>6
  <2>2. \A x \in Entries : IsIn(taskLog, x) /\ x.what = "recovery" => x.turn # e.turn
    BY <1>1, <1>2 DEF RunInv, LostInv, LostIsOver
  <2>3. Fitting(e) /\ Appended(e)
    BY <1>2, <1>6, <2>2 DEF Fitting, Appended
  <2>4. stuck' = NoEntry /\ \A n : Ended(taskLog, n) => Ended(taskLog', n)
    BY <1>2, <1>6, <2>3, LogFacts DEF Written
  <2>5. Truth(e, execution', turn')
    BY <1>1, <1>2, <2>1 DEF Truth, Answers
  <2>6. TurnFits(turn', execution', shut')
    BY <1>1, <1>6, <2>1, RunNow DEF TurnFits
  <2>7. PendingFits(stuck', execution', shut')
    BY <2>4, NoEntryFacts DEF PendingFits
  <2>8. EndFits(taskLog', turn', execution', shut', approver')
    BY <1>1, <1>6, <2>1, <2>4, RunNow DEF EndFits
  <2>9. /\ control' \in Controls /\ control'.pc = "none" /\ ControlFits(control', execution')
        /\ commands' \in [Orders -> {"new", "accepted", "rejected", "completed"}]
    BY <1>6, CommandFacts DEF ControlFits
  <2>10. \A x \in Entries : Out(x) /\ Truth(x, execution, turn) => Truth(x, execution', turn')
    <3>1. Calm(execution, turn, execution', turn')
      BY <1>6, <2>1, RunNow DEF Calm
    <3> QED BY <2>1, <3>1, RunNow, CalmTruth
  <2>11. \A x \in Entries : LostIsOver(x, stuck, turn, control) => LostIsOver(x, stuck, turn', control')
    BY <1>6, <2>9, LostKept
  <2> QED BY <1>1, <1>2, <1>6, <2>1, <2>3, <2>5, <2>6, <2>7, <2>8, <2>9, <2>10, <2>11, RunNow, RunMoves
<1>7. CASE /\ execution' = [execution EXCEPT !.granted = grant] /\ ~over
           /\ turn' = [turn EXCEPT !.queue = Append(@, e)]
           /\ control' = [control EXCEPT !.pc = "waiting"] /\ UNCHANGED <<taskLog, stuck, commands>>
  <2>1. /\ execution' \in Executions /\ execution'.turn = execution.turn /\ execution'.state = execution.state
        /\ execution'.failure = execution.failure /\ execution'.logged = execution.logged
        /\ execution'.atFailure = execution.atFailure /\ execution'.open = execution.open
        /\ execution'.settled = execution.settled
    BY <1>4, <1>7
  <2>2. /\ turn' \in TurnRecords /\ turn'.pc = turn.pc /\ turn'.id = turn.id /\ turn'.failed = turn.failed
        /\ turn'.stopping = turn.stopping /\ turn'.asked = turn.asked /\ turn'.answer = turn.answer
        /\ turn'.authority = turn.authority
        /\ \A x : IsIn(turn'.queue, x) => IsIn(turn.queue, x) \/ x = e
        /\ \A n : Ended(turn.queue, n) => Ended(turn'.queue, n)
    BY <1>2, <1>7, RunNow, QueuedFacts
  <2>3. turn.pc \in {"running", "flushing"}
    <3>1. turn.id = control.order.turn
      BY <1>7
    <3>2. turn.pc # "creating"
      BY <1>1, <3>1, RunNow DEF TurnFits
    <3>3. turn.pc # "none"
      BY <1>1, <3>1, RunNow DEF TurnFits
    <3> QED BY <3>2, <3>3, RunNow DEF TurnRecords
  <2>4. UnderWay(turn) /\ UnderWay(turn')
    BY <2>2, <2>3 DEF UnderWay
  <2>5. /\ control' \in Controls /\ control'.pc = "waiting" /\ control'.order = control.order
        /\ ControlFits(control', execution')
    BY <1>1, <1>7, RunNow, PlaceFacts DEF ControlFits
  <2>6. \A x \in Entries : IsIn(turn'.queue, x) =>
          IsIn(turn.queue, x) \/ (x.turn = turn.id /\ x.what \notin Answers \cup {"recovery"})
    BY <1>2, <1>7, <2>2 DEF Answers
  <2>7. Unanswered(turn') => ~shut' /\ ~turn'.stopping
    BY <1>1, <2>2, RunNow DEF TurnFits, Unanswered
  <2>8. commands' \in [Orders -> {"new", "accepted", "rejected", "completed"}]
    BY <1>7, RunNow
  <2> QED BY <1>1, <1>7, <2>1, <2>2, <2>4, <2>5, <2>6, <2>7, <2>8, RunNow, TurnGoes
<1> QED BY <1>3, <1>5, <1>6, <1>7

-----------------------------------------------------------------------------
(* The queue is sent, or fails.                                            *)
LEMMA HeadFacts ==
  ASSUME RunInv, turn.queue # <<>>
  PROVE  /\ turn.queue[1] \in Entries /\ IsIn(turn.queue, turn.queue[1]) /\ Fitting(turn.queue[1])
         /\ UnderWay(turn) /\ turn.queue[1].turn = turn.id
         /\ turn.queue[1].what \notin {"recovery", "closed"}
         /\ turn.id = execution.turn /\ turn.id # 0
         /\ Truth(turn.queue[1], execution, turn)
<1>1. /\ turn.queue[1] \in Entries /\ IsIn(turn.queue, turn.queue[1])
  BY RunNow, TailFacts
<1>2. UnderWay(turn)
  BY RunNow DEF TurnFits
<1>3. turn.queue[1].turn = turn.id /\ turn.queue[1].what \notin {"recovery", "closed"}
  BY <1>1, RunNow DEF TurnFits
<1>4. turn.id = execution.turn /\ turn.id # 0
  BY <1>2, RunNow DEF TurnFits
<1>5. Truth(turn.queue[1], execution, turn)
  BY <1>1, OutIsTrue DEF Out
<1>6. \A x \in Entries : IsIn(taskLog, x) /\ x.what = "recovery" => x.turn # turn.id
  BY <1>2 DEF RunInv, LostInv, LostIsOver
<1>7. Fitting(turn.queue[1])
  BY <1>3, <1>6 DEF Fitting
<1> QED BY <1>1, <1>2, <1>3, <1>4, <1>5, <1>6, <1>7

LEMMA QueueAppendsInv == ASSUME RunInv, QueueAppends PROVE RunInv'
<1> DEFINE e == turn.queue[1]
<1>1. /\ turn.queue # <<>> /\ Written(e) /\ turn' = [turn EXCEPT !.queue = Tail(turn.queue)]
      /\ UNCHANGED <<execution, approver, shut, faults>>
      /\ Completed \/ UNCHANGED <<commands, control>>
  BY DEF QueueAppends
<1>2. /\ e \in Entries /\ IsIn(turn.queue, e) /\ UnderWay(turn) /\ e.turn = turn.id
      /\ e.what \notin {"recovery", "closed"} /\ Truth(e, execution, turn) /\ Fitting(e)
  BY <1>1, HeadFacts
<1>3. /\ Tail(turn.queue) \in Seq(Entries) /\ \A x : IsIn(turn.queue, x) <=> x = e \/ IsIn(Tail(turn.queue), x)
      /\ \A n : Ended(turn.queue, n) => (e.what = "ended" /\ e.turn = n) \/ Ended(Tail(turn.queue), n)
  BY <1>1, RunNow, TailFacts
<1> HIDE DEF e
<1>4. /\ turn' \in TurnRecords /\ turn'.queue = Tail(turn.queue) /\ turn'.pc = turn.pc /\ turn'.id = turn.id
      /\ turn'.failed = turn.failed /\ turn'.stopping = turn.stopping /\ turn'.asked = turn.asked
      /\ turn'.answer = turn.answer /\ turn'.authority = turn.authority
  BY <1>1, <1>3, RunNow DEF TurnRecords
<1>5. Appended(e)
  BY <1>1 DEF Appended
<1>6. /\ stuck' = NoEntry /\ \A n : Ended(taskLog, n) => Ended(taskLog', n)
      /\ e.what = "ended" => Ended(taskLog', e.turn)
  <2>1. taskLog' = Append(Through, e) /\ stuck' = NoEntry
    BY <1>1 DEF Written
  <2> QED BY <1>2, <1>5, <2>1, ThroughFacts, AppendFacts, LogFacts
<1>7. \A x \in Entries : Truth(x, execution, turn) => Truth(x, execution', turn')
  <2>1. Calm(execution, turn, execution', turn')
    BY <1>1, <1>4, RunNow DEF Calm
  <2> QED BY <1>1, <2>1, RunNow, CalmTruth
<1>8. \A x \in Entries : IsIn(turn'.queue, x) => IsIn(turn.queue, x)
  BY <1>3, <1>4
<1>9. TurnFits(turn', execution', shut')
  BY <1>1, <1>2, <1>4, <1>8, RunNow DEF TurnFits, UnderWay, Unanswered
<1>10. PendingFits(stuck', execution', shut')
  BY <1>6, NoEntryFacts DEF PendingFits
<1>11. EndFits(taskLog', turn', execution', shut', approver')
  <2>1. turn.pc = "flushing" /\ ~turn.failed /\ ~shut => Ended(taskLog', turn.id) \/ Ended(turn'.queue, turn.id)
    BY <1>2, <1>3, <1>4, <1>6, RunNow DEF EndFits
  <2> QED BY <1>1, <1>4, <1>6, <2>1, RunNow DEF EndFits, UnderWay
<1>12. /\ control' \in Controls /\ control'.pc \in {"none", control.pc} /\ ControlFits(control', execution')
       /\ commands' \in [Orders -> {"new", "accepted", "rejected", "completed"}]
       /\ control'.pc = "delegating" => control' = control
  BY <1>1, RunNow, CommandFacts DEF ControlFits
<1>13. \A x \in Entries : LostIsOver(x, stuck, turn, control) => LostIsOver(x, stuck, turn', control')
  BY <1>2, <1>4, <1>12, LostKept
<1> QED BY <1>1, <1>2, <1>4, <1>5, <1>7, <1>8, <1>9, <1>10, <1>11, <1>12, <1>13, RunNow, RunMoves

(* The first failure: the turn stops and its record says so.               *)
LEMMA QueueFailsInv == ASSUME RunInv, NEW reached \in BOOLEAN, QueueFails(reached) PROVE RunInv'
<1> DEFINE e == turn.queue[1]
           t == StoppedTurn(turn)
           d == [execution EXCEPT !.state = "recovery", !.failure = TRUE, !.atFailure = execution.open,
                                  !.granted = FALSE]
<1>1. /\ turn.queue # <<>> /\ NotWritten(e, reached) /\ turn' = [t EXCEPT !.failed = TRUE, !.queue = <<>>]
      /\ execution' = Updated(CancelledOnDisk(d)) /\ UNCHANGED <<approver, shut>>
      /\ Refused \/ UNCHANGED <<commands, control>>
  BY DEF QueueFails
<1>2. /\ e \in Entries /\ IsIn(turn.queue, e) /\ UnderWay(turn) /\ e.turn = turn.id
      /\ e.what \notin {"recovery", "closed"} /\ Truth(e, execution, turn) /\ Fitting(e)
      /\ turn.id = execution.turn /\ turn.id # 0
  BY <1>1, HeadFacts
<1>3. /\ t \in TurnRecords /\ t.pc = turn.pc /\ t.id = turn.id
      /\ t.stopping /\ t.authority = turn.authority
      /\ ~Unanswered(t) /\ (t.answer = "none" => turn.answer = "none")
      /\ Awaited => t.answer = "cancel"
  BY <1>2, StoppedGoes, RunNow, StoppedFacts
<1>4. /\ d \in Executions /\ d.turn = execution.turn /\ d.state = "recovery" /\ d.failure
      /\ d.logged = execution.logged /\ d.settled = execution.settled
      /\ d.atFailure = execution.open /\ d.open = execution.open
  BY RunNow DEF Executions
<1> HIDE DEF e, t, d
<1>5. /\ turn' \in TurnRecords /\ turn'.pc = turn.pc /\ turn'.id = turn.id /\ turn'.failed /\ turn'.stopping
      /\ turn'.authority = turn.authority /\ turn'.queue = <<>> /\ ~Unanswered(turn')
      /\ turn'.answer = "none" => turn.answer = "none"
      /\ Awaited => turn'.answer = "cancel"
  BY <1>1, <1>3, EmptyFacts DEF TurnRecords, Unanswered
<1>6. Appended(e) /\ faults' \in 0 .. MaxFaults
  <2>1. Appended(e)
    BY <1>1 DEF Appended, NotWritten
  <2>2. faults' = faults + 1 /\ faults < MaxFaults
    BY <1>1 DEF NotWritten
  <2> QED BY <2>1, <2>2, RunNow, RunConstants
<1>7. /\ stuck' \in {NoEntry, e} /\ \A n : Ended(taskLog, n) => Ended(taskLog', n)
  BY <1>1, <1>2, <1>6, LogFacts DEF NotWritten, Written
<1>8. /\ execution' \in Executions /\ execution'.turn = execution.turn /\ execution'.logged = execution.logged
      /\ execution'.open \subseteq execution.open
      /\ execution'.atFailure \subseteq execution.open \cup execution.atFailure
      /\ shut => execution' = execution
      /\ ~shut => execution'.state = "recovery" /\ execution'.failure
      /\ Awaited => execution'.settled = [execution.settled EXCEPT ![turn.id] = "cancel"]
      /\ ~Awaited => execution'.settled = execution.settled
  <2>1. CASE shut
    BY <1>1, <2>1, RunNow, AwaitedFacts DEF Updated
  <2>2. CASE ~shut /\ Awaited
    <3>1. execution' = SettledAs(d, "cancel") /\ turn.id \in Turns
      BY <1>1, <2>2, AwaitedFacts DEF Updated, CancelledOnDisk
    <3> QED BY <1>4, <2>2, <3>1, SettledFacts
  <2>3. CASE ~shut /\ ~Awaited
    <3>1. execution' = d
      BY <1>1, <2>3 DEF Updated, CancelledOnDisk
    <3> QED BY <1>4, <2>3, <3>1
  <2> QED BY <2>1, <2>2, <2>3
<1>9. \A x \in Entries : Truth(x, execution, turn) => Truth(x, execution', turn')
  <2>1. CASE Awaited
    <3>1. turn.pc = "running" /\ turn.answer = "none" /\ turn'.answer # "none"
      BY <1>5, <2>1 DEF Awaited
    <3> QED BY <1>8, <2>1, <3>1, RunNow, SettledTruth
  <2>2. CASE ~Awaited
    <3>1. Calm(execution, turn, execution', turn')
      BY <1>5, <1>8, <2>2, RunNow DEF Calm
    <3> QED BY <1>8, <3>1, RunNow, CalmTruth
  <2> QED BY <2>1, <2>2
<1>10. TurnFits(turn', execution', shut')
  <2>1. ~execution'.logged /\ UnderWay(turn')
    BY <1>2, <1>5, <1>8, RunNow DEF TurnFits, UnderWay
  <2>2. execution'.open \subseteq 1 .. execution'.turn /\ execution'.atFailure \subseteq 1 .. execution'.turn
    BY <1>8, RunNow DEF TurnFits
  <2>3. execution'.state = "none" <=> execution'.turn = 0
    BY <1>2, <1>8, RunNow DEF TurnFits
  <2> QED BY <1>2, <1>5, <1>8, <2>1, <2>2, <2>3, EmptyFacts DEF TurnFits, UnderWay
<1>11. PendingFits(stuck', execution', shut')
  BY <1>1, <1>2, <1>7, <1>8, <1>10, RunNow, NoEntryFacts DEF PendingFits, TurnFits
<1>12. EndFits(taskLog', turn', execution', shut', approver')
  BY <1>1, <1>5, <1>7, <1>8, RunNow DEF EndFits, UnderWay
<1>13. /\ control' \in Controls /\ control'.pc \in {"none", control.pc} /\ ControlFits(control', execution')
       /\ commands' \in [Orders -> {"new", "accepted", "rejected", "completed"}]
       /\ control'.pc = "delegating" => control' = control
  BY <1>1, <1>8, RunNow, CommandFacts DEF ControlFits
<1>14. \A x \in Entries : LostIsOver(x, stuck, turn, control) => LostIsOver(x, stuck, turn', control')
  BY <1>2, <1>5, <1>13, LostKept
<1>15. \A x : ~IsIn(turn'.queue, x)
  BY <1>5, EmptyFacts
<1>16. Truth(e, execution', turn')
  BY <1>2, <1>9
<1> QED BY <1>1, <1>2, <1>5, <1>6, <1>8, <1>9, <1>10, <1>11, <1>12, <1>13, <1>14, <1>15, <1>16, RunNow, RunMoves

-----------------------------------------------------------------------------
(* A turn is settled, or lost with its process.                            *)
LEMMA TurnSettlesInv == ASSUME RunInv, TurnSettles PROVE RunInv'
<1>1. /\ turn.pc = "flushing" /\ turn.queue = <<>> /\ turn' = NoTurn
      /\ UNCHANGED <<taskLog, stuck, commands, control, approver, shut, faults>>
      /\ execution' = Updated([execution EXCEPT !.state = IF turn.failed THEN "recovery" ELSE "finished",
                                                !.granted = FALSE])
  BY DEF TurnSettles
<1>2. /\ execution' \in Executions /\ execution'.turn = execution.turn /\ execution'.settled = execution.settled
      /\ execution'.open = execution.open /\ execution'.atFailure = execution.atFailure
      /\ execution'.failure = execution.failure /\ execution'.logged = execution.logged
      /\ shut => execution' = execution
      /\ ~shut => execution'.state = IF turn.failed THEN "recovery" ELSE "finished"
  BY <1>1, RunNow DEF Updated, Executions
<1>3. /\ turn.id = execution.turn /\ execution.turn # 0 /\ ~execution.logged
      /\ execution.failure => turn.failed
  BY <1>1, RunNow DEF TurnFits, UnderWay
<1>4. TurnFits(turn', execution', shut')
  <2>1. execution'.open \subseteq 1 .. execution'.turn /\ execution'.atFailure \subseteq 1 .. execution'.turn
    BY <1>2, RunNow DEF TurnFits
  <2>2. execution'.state = "none" <=> execution'.turn = 0
    BY <1>2, <1>3, RunNow DEF TurnFits
  <2> QED BY <1>1, <2>1, <2>2, NoTurnFacts, EmptyFacts DEF TurnFits, UnderWay, Unanswered
<1>5. PendingFits(stuck, execution', shut')
  BY <1>1, <1>2, <1>3, RunNow DEF PendingFits
<1>6. EndFits(taskLog', turn', execution', shut', approver')
  <2>1. ~shut /\ ~turn.failed => Ended(taskLog, turn.id)
    <3>1. \A n : ~Ended(<<>>, n)
      BY DEF Ended
    <3> QED BY <1>1, <3>1, RunNow DEF EndFits
  <2> QED BY <1>1, <1>2, <1>3, <2>1, RunNow, NoTurnFacts DEF EndFits, UnderWay
<1>7. ControlFits(control', execution')
  BY <1>1, <1>2, RunNow DEF ControlFits
<1>8. \A x \in Entries : Out(x) /\ Truth(x, execution, turn) => Truth(x, execution', turn')
  <2>1. Calm(execution, turn, execution', turn')
    BY <1>1, <1>2, RunNow, NoTurnFacts DEF Calm
  <2> QED BY <1>2, <2>1, RunNow, CalmTruth
<1>9. turn' \in TurnRecords /\ ~UnderWay(turn') /\ \A x : ~IsIn(turn'.queue, x)
  BY <1>1, NoTurnFacts, EmptyFacts DEF UnderWay
<1> QED BY <1>1, <1>2, <1>4, <1>5, <1>6, <1>7, <1>8, <1>9, RunNow, TurnMoves

LEMMA HostStartsAgainInv == ASSUME RunInv, HostStartsAgain PROVE RunInv'
<1>1. /\ shut' = FALSE /\ turn' = NoTurn /\ control' = NoControl /\ taskLog' = Through /\ stuck' = NoEntry
      /\ UNCHANGED <<execution, commands, approver>>
  BY DEF HostStartsAgain
<1>2. faults' \in 0 .. MaxFaults
  BY RunNow, RunConstants DEF HostStartsAgain
<1>3. Appended(NoEntry) /\ Fitting(NoEntry) /\ NoEntry \in Entries /\ NoEntry.what = "none"
  BY <1>1, NoEntryFits, NoEntryFacts DEF Appended
<1>4. \A n : Ended(taskLog, n) => Ended(taskLog', n)
  BY <1>1, ThroughFacts
<1>5. TurnFits(turn', execution', shut')
  BY <1>1, RunNow, NoTurnFacts, EmptyFacts DEF TurnFits, UnderWay, Unanswered
<1>6. EndFits(taskLog', turn', execution', shut', approver')
  BY <1>1, <1>4, RunNow, NoTurnFacts DEF EndFits, UnderWay
<1>7. PendingFits(stuck', execution', shut')
  BY <1>1, NoEntryFacts DEF PendingFits
<1>8. control' \in Controls /\ control'.pc = "none" /\ ControlFits(control', execution')
  BY <1>1 DEF NoControl, Controls, ControlFits
<1>9. \A x \in Entries : LostIsOver(x, stuck, turn, control) => LostIsOver(x, stuck, turn', control')
  BY <1>1, <1>8, NoTurnFacts, LostKept DEF UnderWay
<1>10. /\ \A x : ~IsIn(turn'.queue, x)
       /\ \A x \in Entries : Out(x) /\ Truth(x, execution, turn) => Truth(x, execution', turn')
  BY <1>1, NoTurnFacts, TurnGone
<1>11. Truth(NoEntry, execution', turn') /\ turn' \in TurnRecords
  BY <1>1, RunNow, NoEntryTrue, NoTurnFacts
<1> QED BY <1>1, <1>2, <1>3, <1>5, <1>6, <1>7, <1>8, <1>9, <1>10, <1>11, RunNow, RunMoves

-----------------------------------------------------------------------------
(* A turn begins to run: the record is of a later turn than all that is    *)
(* out.                                                                    *)
LEMMA TurnRunsInv == ASSUME RunInv, TurnRuns PROVE RunInv'
<1> DEFINE a == Entry("started", turn.id, "none")
<1>1. /\ turn.pc = "creating" /\ ~shut /\ UNCHANGED <<approver, shut, faults>>
      /\ turn' = [turn EXCEPT !.pc = "running", !.queue = <<a>>, !.authority = approver = "verified"]
      /\ execution' = [execution EXCEPT !.state = "running", !.turn = turn.id, !.open = {}, !.abandoned = {},
                                    !.atFailure = {}, !.failure = FALSE, !.granted = FALSE, !.logged = FALSE]
      /\ Completed \/ UNCHANGED <<commands, control>>
      /\ Written(Entry("created", 0, "none")) \/ UNCHANGED <<taskLog, stuck>>
  BY DEF TurnRuns
<1>2. /\ turn.id = execution.turn + 1 /\ ~turn.asked /\ turn.id \in Turns /\ turn.id \in 0 .. MaxTurns
      /\ execution.turn < turn.id /\ turn.id # 0
  <2>1. turn.id = execution.turn + 1 /\ ~turn.asked
    BY <1>1, RunNow DEF TurnFits
  <2> QED BY <2>1, RunNow
<1>3. /\ a \in Entries /\ a.what = "started" /\ a.turn = turn.id
      /\ <<a>> \in Seq(Entries) /\ \A x : IsIn(<<a>>, x) => x = a
  <2>1. a \in Entries /\ a.what = "started" /\ a.turn = turn.id
    BY <1>2, EntryFacts DEF Words
  <2> HIDE DEF a
  <2> QED BY <2>1 DEF IsIn
<1> HIDE DEF a
<1>4. /\ turn' \in TurnRecords /\ turn'.pc = "running" /\ turn'.id = turn.id /\ turn'.queue = <<a>>
      /\ turn'.asked = turn.asked /\ turn'.failed = turn.failed /\ turn'.stopping = turn.stopping
      /\ turn'.authority = (approver = "verified")
  BY <1>1, <1>3, RunNow DEF TurnRecords
<1>5. /\ execution' \in Executions /\ execution'.turn = turn.id /\ execution'.state = "running"
      /\ execution'.open = {} /\ execution'.atFailure = {} /\ ~execution'.failure /\ ~execution'.logged
      /\ execution'.settled = execution.settled
  BY <1>1, <1>2, RunNow DEF Executions
<1>6. PICK e \in Entries : /\ Appended(e) /\ e.what \in {"none", "created"} /\ e.turn = 0
                           /\ stuck' \in {stuck, NoEntry}
  <2>1. CASE Written(Entry("created", 0, "none"))
    <3>1. /\ Entry("created", 0, "none") \in Entries /\ Entry("created", 0, "none").what = "created"
          /\ Entry("created", 0, "none").turn = 0
      BY EntryFacts, RunConstants DEF Words
    <3> QED BY <2>1, <3>1 DEF Appended, Written
  <2>2. CASE UNCHANGED <<taskLog, stuck>>
    BY <2>2, NoEntryFacts DEF Appended
  <2> QED BY <1>1, <2>1, <2>2
<1>7. Fitting(e)
  BY <1>6, NoEntryFits, NoEntryFacts DEF Fitting
<1>8. \A n : Ended(taskLog, n) => Ended(taskLog', n)
  BY <1>6, <1>7, LogFacts
<1>9. ASSUME NEW x \in Entries, Truth(x, execution, turn)
      PROVE  Truth(x, execution', turn')
  <2>1. x.turn <= execution'.turn /\ x.turn # turn'.id
    <3>1. x.turn <= execution.turn /\ x.turn \in Nat
      BY <1>9, RunNow DEF Truth, Entries
    <3> QED BY <1>2, <1>4, <1>5, <3>1, RunNow
  <2> QED BY <1>5, <1>9, <2>1 DEF Truth
<1>10. TurnFits(turn', execution', shut')
  <2>1. \A x \in Entries : IsIn(turn'.queue, x) => x.turn = turn'.id /\ x.what \notin {"recovery", "closed"}
    BY <1>3, <1>4
  <2>2. turn'.failed => turn'.stopping
    BY <1>4, RunNow DEF TurnFits
  <2> QED BY <1>1, <1>2, <1>4, <1>5, <2>1, <2>2 DEF TurnFits, UnderWay, Unanswered
<1>11. PendingFits(stuck', execution', shut')
  <2>1. stuck.what # "asked"
    BY <1>1, RunNow DEF PendingFits, TurnFits
  <2> QED BY <1>6, <2>1, NoEntryFacts DEF PendingFits
<1>12. EndFits(taskLog', turn', execution', shut', approver')
  BY <1>1, <1>4, <1>5 DEF EndFits
<1>13. /\ control' \in Controls /\ control'.pc \in {"none", control.pc}
       /\ commands' \in [Orders -> {"new", "accepted", "rejected", "completed"}]
       /\ control'.pc = "delegating" => control' = control
  BY <1>1, RunNow, CommandFacts
<1>14. ControlFits(control', execution')
  <2>1. CASE UNCHANGED control
    <3>1. control.pc = "delegating" => control.order.turn \in Turns /\ control.order.turn <= execution.turn
      BY RunNow, RunConstants DEF ControlFits
    <3> QED BY <1>2, <1>5, <2>1, <3>1, RunNow DEF ControlFits
  <2>2. CASE control'.pc = "none"
    BY <2>2 DEF ControlFits
  <2> QED BY <1>1, <2>1, <2>2, CommandFacts
<1>15. ASSUME NEW x \in Entries, IsIn(taskLog, x), x.what = "recovery", LostIsOver(x, stuck, turn, control)
       PROVE  LostIsOver(x, stuck, turn', control')
  <2>1. x.turn # turn'.id
    <3>1. x.turn <= execution.turn /\ x.turn \in Nat
      BY <1>15, OutIsTrue DEF Truth, Entries, Out
    <3> QED BY <1>2, <1>4, <3>1, RunNow
  <2> QED BY <1>13, <1>15, <2>1 DEF LostIsOver
<1>16. Truth(a, execution', turn') /\ Truth(e, execution', turn')
  <2>1. Truth(a, execution', turn')
    BY <1>2, <1>3, <1>5, RunNow DEF Truth, Answers
  <2>2. Truth(e, execution', turn')
    BY <1>2, <1>5, <1>6, RunNow DEF Truth, Answers
  <2> QED BY <2>1, <2>2
<1>17. \A x \in Entries : IsIn(turn'.queue, x) => IsIn(turn.queue, x) \/ Truth(x, execution', turn')
  BY <1>3, <1>4, <1>16
<1> QED BY <1>1, <1>4, <1>5, <1>6, <1>7, <1>9, <1>10, <1>11, <1>12, <1>13, <1>14, <1>15, <1>16, <1>17,
           RunNow, RunMoves

-----------------------------------------------------------------------------
(* What is said of a lost turn.                                            *)
LEMMA SayingFacts ==
  ASSUME RunInv, NEW what, NEW n
  PROVE  Saying(what, n) <=> \E x \in Entries : IsIn(taskLog, x) /\ x.what = what /\ x.turn = n
BY RunNow DEF Saying, IsIn

LEMMA LostFacts ==
  ASSUME RunInv, Lost
  PROVE  /\ turn.pc = "none" /\ ~UnderWay(turn) /\ ~shut /\ control.pc # "delegating"
         /\ execution.turn # 0 /\ execution.turn \in Turns
         /\ execution.state \in {"running", "recovery"} /\ ~execution.logged
BY RunNow DEF Lost, TurnFits, UnderWay

LEMMA ClosingFacts ==
  ASSUME RunInv, Lost
  PROVE  /\ Closing \in Executions /\ Closing.turn = execution.turn /\ Closing.settled = execution.settled
         /\ Closing.state = "recovery" /\ Closing.open = {} /\ Closing.atFailure = execution.atFailure
         /\ TurnFits(turn, Closing, shut)
<1>1. Abandoned \in SUBSET Turns
  BY RunNow DEF Abandoned, Executions
<1>2. /\ Closing \in Executions /\ Closing.turn = execution.turn /\ Closing.settled = execution.settled
      /\ Closing.state = "recovery" /\ Closing.open = {} /\ Closing.atFailure = execution.atFailure
  BY <1>1, RunNow DEF Closing, Executions
<1> HIDE DEF Closing
<1>3. TurnFits(turn, Closing, shut)
  BY <1>2, LostFacts, RunNow DEF TurnFits, UnderWay, Unanswered
<1> QED BY <1>2, <1>3

LEMMA LostTurnToldBeforeInv == ASSUME RunInv, LostTurnToldBefore PROVE RunInv'
<1>1. /\ Lost /\ execution' = Closing /\ Saying("recovery", execution.turn)
      /\ UNCHANGED <<taskLog, stuck, commands, control, turn, approver, shut, faults>>
  BY DEF LostTurnToldBefore
<1>2. PendingFits(stuck, execution', shut')
  <2>1. PICK x \in Entries : IsIn(taskLog, x) /\ x.what = "recovery" /\ x.turn = execution.turn
    BY <1>1, SayingFacts
  <2>2. stuck.turn # execution.turn
    BY <2>1 DEF RunInv, LostInv, LostIsOver
  <2> QED BY <2>2, RunNow DEF PendingFits
<1>3. TurnFits(turn', execution', shut') /\ execution' \in Executions
  BY <1>1, ClosingFacts
<1>4. EndFits(taskLog', turn', execution', shut', approver') /\ ControlFits(control', execution')
  BY <1>1, ClosingFacts, RunNow DEF EndFits, ControlFits
<1>5. \A x \in Entries : Out(x) /\ Truth(x, execution, turn) => Truth(x, execution', turn')
  <2>1. Calm(execution, turn, execution', turn')
    BY <1>1, ClosingFacts, RunNow DEF Calm
  <2> QED BY <1>3, <2>1, RunNow, CalmTruth
<1>6. \A x \in Entries : IsIn(turn'.queue, x) => IsIn(turn.queue, x)
  BY <1>1
<1> QED BY <1>1, <1>2, <1>3, <1>4, <1>5, <1>6, RunNow, TurnMoves

LEMMA LostRequestDecidedInv == ASSUME RunInv, NEW t \in Turns, LostRequestDecided(t) PROVE RunInv'
<1> DEFINE e == Entry("closed", t, Verdict(t))
<1>1. /\ Lost /\ t \in ToDecide /\ Written(e)
      /\ UNCHANGED <<execution, commands, control, turn, approver, shut, faults>>
  BY DEF LostRequestDecided
<1>2. /\ Verdict(t) \in {"accept", "cancel"}
      /\ execution.settled[t] = Verdict(t) \/ (execution.settled[t] = "none" /\ Verdict(t) = "cancel")
  BY RunNow DEF Verdict, Executions
<1>3. e \in Entries /\ e.what = "closed" /\ e.turn = t /\ e.said = Verdict(t)
  BY <1>2, RunNow, EntryFacts DEF Words
<1>4. t <= execution.turn
  <2>1. CASE Saying("asked", t)
    <3>1. PICK x \in Entries : IsIn(taskLog, x) /\ x.turn = t
      BY <2>1, SayingFacts
    <3> QED BY <3>1, OutIsTrue DEF Out, Truth
  <2>2. CASE t \in Abandoned
    BY <2>2, RunNow DEF Abandoned, TurnFits
  <2> QED BY <1>1, <2>1, <2>2 DEF ToDecide, Unresolved
<1> HIDE DEF e
<1>5. Truth(e, execution, turn)
  BY <1>1, <1>2, <1>3, <1>4, LostFacts DEF Truth, Answers
<1>6. Fitting(e) /\ Appended(e)
  BY <1>1, <1>3 DEF Fitting, Appended
<1> QED BY <1>1, <1>3, <1>5, <1>6, RunNow, ControlMoves DEF ControlFits

LEMMA LostTurnToldInv == ASSUME RunInv, NEW heard \in BOOLEAN, LostTurnTold(heard) PROVE RunInv'
<1> DEFINE e == Entry("recovery", execution.turn, IF execution.failure THEN "unwritable" ELSE "restarted")
<1>1. /\ Lost /\ ToDecide = {} /\ ~Saying("recovery", execution.turn) /\ Written(e)
      /\ execution' = IF heard THEN Closing ELSE execution
      /\ UNCHANGED <<commands, control, turn, approver, shut, faults>>
  BY DEF LostTurnTold
<1>2. /\ e \in Entries /\ e.what = "recovery" /\ e.turn = execution.turn
      /\ e.said = "restarted" => ~execution.failure
  BY RunNow, EntryFacts DEF Words
<1> HIDE DEF e
<1>3. ASSUME e.said = "restarted", NEW x \in Entries, IsIn(Through, x), x.what = "asked"
      PROVE  \E y \in Entries : IsIn(Through, y) /\ y.what \in Answers /\ y.turn = x.turn
  <2>1. IsIn(taskLog, x)
    <3>1. stuck.what # "asked"
      BY <1>1, <1>2, <1>3, LostFacts, RunNow DEF PendingFits
    <3> QED BY <1>3, <3>1, ThroughFacts
  <2>2. Saying("asked", x.turn) /\ x.turn \in Turns
    BY <1>3, <2>1, SayingFacts, OutIsTrue DEF Out, Truth
  <2>3. Saying("decided", x.turn) \/ Saying("closed", x.turn)
    BY <1>1, <2>2 DEF ToDecide, Unresolved
  <2>4. PICK y \in Entries : IsIn(taskLog, y) /\ y.what \in {"decided", "closed"} /\ y.turn = x.turn
    BY <2>3, SayingFacts
  <2> QED BY <2>4, ThroughFacts DEF Answers
<1>4. Appended(e) /\ Fitting(e)
  <2>1. \A x \in Entries : IsIn(taskLog, x) /\ x.what = "recovery" => x.turn # e.turn
    BY <1>1, <1>2, SayingFacts
  <2> QED BY <1>1, <1>3, <2>1 DEF Fitting, Appended
<1>5. /\ execution' \in Executions /\ execution'.turn = execution.turn /\ execution'.settled = execution.settled
      /\ execution'.state \in {"running", "recovery"} /\ TurnFits(turn', execution', shut')
  BY <1>1, ClosingFacts, LostFacts, RunNow
<1>6. \A x \in Entries : Truth(x, execution, turn) => Truth(x, execution', turn')
  <2>1. Calm(execution, turn, execution', turn')
    BY <1>1, <1>5, RunNow DEF Calm
  <2> QED BY <1>5, <2>1, RunNow, CalmTruth
<1>7. Truth(e, execution', turn')
  BY <1>2, <1>5, LostFacts, <1>1, RunNow DEF Truth, Answers
<1>8. stuck' = NoEntry /\ \A n : Ended(taskLog, n) => Ended(taskLog', n)
  BY <1>1, <1>2, <1>4, LogFacts DEF Written
<1>9. PendingFits(stuck', execution', shut')
  BY <1>8, NoEntryFacts DEF PendingFits
<1>10. EndFits(taskLog', turn', execution', shut', approver')
  BY <1>1, <1>5, <1>8, LostFacts, RunNow DEF EndFits
<1>11. ControlFits(control', execution')
  BY <1>1, <1>5, RunNow DEF ControlFits
<1>12. ~UnderWay(turn') /\ control'.pc # "delegating"
  BY <1>1, LostFacts
<1>13. /\ \A x \in Entries : IsIn(turn'.queue, x) => IsIn(turn.queue, x)
       /\ \A x \in Entries : LostIsOver(x, stuck, turn, control) => LostIsOver(x, stuck, turn', control')
  BY <1>1
<1> QED BY <1>1, <1>2, <1>4, <1>5, <1>6, <1>7, <1>9, <1>10, <1>11, <1>12, <1>13, RunNow, RunMoves

-----------------------------------------------------------------------------
LEMMA RunInvInit == RunInit => RunInv
<1> SUFFICES ASSUME RunInit PROVE RunInv
  OBVIOUS
<1>1. /\ taskLog = <<>> /\ stuck = NoEntry /\ turn = NoTurn /\ control = NoControl
      /\ commands = [o \in Orders |-> "new"] /\ approver = "verified" /\ shut = FALSE /\ faults = 0
      /\ execution.state = "none" /\ execution.turn = 0 /\ execution.open = {} /\ execution.atFailure = {}
      /\ ~execution.failure
  BY DEF RunInit
<1>2. execution \in Executions
  BY RunConstants DEF RunInit, Executions
<1>3. control \in Controls /\ ControlFits(control, execution)
  BY <1>1 DEF Controls, NoControl, ControlFits
<1>4. /\ taskLog \in Seq(Entries) /\ \A x : ~IsIn(taskLog, x) /\ ~IsIn(turn.queue, x)
      /\ DOMAIN taskLog = {}
  BY <1>1, EmptyFacts, NoTurnFacts
<1>5. RunShapes
  <2>1. stuck \in Entries /\ turn \in TurnRecords /\ taskLog \in Seq(Entries)
    BY <1>1, <1>4, NoEntryFacts, NoTurnFacts
  <2>2. commands \in [Orders -> {"new", "accepted", "rejected", "completed"}]
    BY <1>1
  <2>3. faults \in 0 .. MaxFaults
    BY <1>1, RunConstants
  <2>4. shut \in BOOLEAN /\ approver \in {"verified", "removed", "told"}
    BY <1>1
  <2> QED BY <1>2, <1>3, <2>1, <2>2, <2>3, <2>4 DEF RunShapes
<1>6. TurnFits(turn, execution, shut)
  BY <1>1, <1>4, NoTurnFacts DEF TurnFits, UnderWay, Unanswered
<1>7. TruthInv /\ LostInv
  BY <1>1, <1>2, <1>4, NoEntryTrue, NoEntryFacts DEF TruthInv, LostInv, Out
<1>8. PendingFits(stuck, execution, shut)
  BY <1>1, NoEntryFacts DEF PendingFits
<1>9. EndFits(taskLog, turn, execution, shut, approver) /\ OrderOK(taskLog)
  BY <1>1, <1>4, NoTurnFacts DEF EndFits, OrderOK
<1> QED BY <1>3, <1>5, <1>6, <1>7, <1>8, <1>9 DEF RunInv

LEMMA RunInvStep == RunInv /\ [RunNext]_runVars => RunInv'
<1> SUFFICES ASSUME RunInv, [RunNext]_runVars PROVE RunInv'
  OBVIOUS
<1>1. CASE UNCHANGED runVars
  <2>1. UNCHANGED <<taskLog, stuck, execution, commands, control, turn, approver, shut, faults>>
    BY <1>1 DEF runVars
  <2> QED BY <2>1, RunNow, NoEntryFacts, TurnMoves
<1>2. CASE TaskBegins \/ TurnRuns \/ TurnTooLate \/ \E b \in BOOLEAN : TaskNotCreated(b)
  BY <1>2, TaskBeginsInv, TurnRunsInv, TurnTooLateInv, TaskNotCreatedInv
<1>3. CASE RequestMade \/ RequestExpires \/ TurnEnds \/ TurnSettles
  BY <1>3, RequestMadeInv, RequestExpiresInv, TurnEndsInv, TurnSettlesInv
<1>4. CASE QueueAppends \/ \E b \in BOOLEAN : QueueFails(b)
  BY <1>4, QueueAppendsInv, QueueFailsInv
<1>5. CASE LostTurnToldBefore \/ (\E t \in Turns : LostRequestDecided(t)) \/ \E b \in BOOLEAN : LostTurnTold(b)
  BY <1>5, LostTurnToldBeforeInv, LostRequestDecidedInv, LostTurnToldInv
<1>6. CASE ControlStarts \/ ControlAnswers \/ ControlDelegates \/ ControlDelegated \/ ControlInterrupts
  BY <1>6, ControlStartsInv, ControlAnswersInv, ControlDelegatesInv, ControlDelegatedInv, ControlInterruptsInv
<1>7. CASE \/ \E o \in Orders : ControlTaken(o)
           \/ \E b \in BOOLEAN : \E f \in BOOLEAN : ControlConcludes(f, b)
  BY <1>7, ControlTakenInv, ControlConcludesInv
<1>8. CASE ApproverRemoved \/ RemovalTold \/ HostStops \/ HostStartsAgain
  BY <1>8, ApproverRemovedInv, RemovalToldInv, HostStopsInv, HostStartsAgainInv
<1> QED BY <1>1, <1>2, <1>3, <1>4, <1>5, <1>6, <1>7, <1>8 DEF RunNext

LEMMA RunInvHolds == RunSpec => []RunInv
BY RunInvInit, RunInvStep, PTL DEF RunSpec

-----------------------------------------------------------------------------
LEMMA RunInvTypes == RunInv => RunTypeOK
<1> SUFFICES ASSUME RunInv PROVE RunTypeOK
  OBVIOUS
<1>1. \A i \in DOMAIN taskLog : taskLog[i].turn \in 0 .. MaxTurns
  <2>1. \A i \in DOMAIN taskLog : taskLog[i] \in Entries
    BY RunNow
  <2> QED BY <2>1 DEF Entries
<1> QED BY <1>1, RunNow DEF RunTypeOK, Executions, Controls, TurnRecords

(* Every variable of a task's run has its shape, at any number of turns,   *)
(* orders and failures: RunTypeOK.                                         *)
THEOREM RunTypeCorrect == RunSpec => []RunTypeOK
BY RunInvHolds, RunInvTypes, PTL

(* What the log tells of a task is true of what the host has on disk, for  *)
(* any number of turns, lost appends and restarts: TaskHistoryTrue, the    *)
(* order in which EncryptedExecution saves its record, sends what it has   *)
(* to say and, after a crash, tells what it lost.                          *)
THEOREM TaskHistoryTrueHolds == RunSpec => []TaskHistoryTrue
<1>1. RunInv => TaskHistoryTrue
  <2> SUFFICES ASSUME RunInv PROVE TaskHistoryTrue
    OBVIOUS
  <2>1. \A i \in DOMAIN taskLog : taskLog[i] \in Entries /\ Truth(taskLog[i], execution, turn)
    <3>1. \A i \in DOMAIN taskLog : taskLog[i] \in Entries /\ Out(taskLog[i])
      BY RunNow DEF Out, IsIn
    <3> QED BY <3>1, OutIsTrue
  <2>2. \A i \in DOMAIN taskLog : Answer(i) =>
          /\ execution.settled[taskLog[i].turn] \in {taskLog[i].said, "none"}
          /\ taskLog[i].said = "accept" => execution.settled[taskLog[i].turn] = "accept"
    BY <2>1 DEF Answer, Answers, Truth
  <2>3. \A i \in DOMAIN taskLog : taskLog[i].what = "recovery" =>
          /\ taskLog[i].said = "restarted" => \A j \in 1 .. i : taskLog[j].what = "asked" =>
               \E k \in 1 .. i : Answer(k) /\ taskLog[k].turn = taskLog[j].turn
          /\ \A j \in DOMAIN taskLog : j > i /\ taskLog[j].turn = taskLog[i].turn => taskLog[j].what = "closed"
    BY DEF RunInv, OrderOK, Answer, Answers
  <2>4. execution.state = "finished" => Saying("ended", execution.turn)
    BY RunNow DEF EndFits, Ended, Saying
  <2>5. approver = "told" /\ turn.pc = "running" => ~turn.authority
    BY RunNow DEF EndFits, UnderWay
  <2> QED BY <2>2, <2>3, <2>4, <2>5 DEF TaskHistoryTrue
<1> QED BY <1>1, RunInvHolds, PTL

-----------------------------------------------------------------------------
(* The path as a whole.                                                    *)

(* Every variable of the encrypted path has its shape, whichever part of   *)
(* it runs, for any number of devices, records, restarts and turns.        *)
THEOREM EncryptedTypesCorrect == Spec => []TypesOK
<1> DEFINE Inv == ChainInv /\ LogInv /\ HostInv /\ RunInv
<1>1. Init => Inv
  BY ChainInvInit, LogInvInit, HostInvInit, RunInvInit DEF Init
<1>2. Inv /\ [Next]_<<part, chainVars, logVars, hostVars, runVars>> => Inv'
  <2> SUFFICES ASSUME Inv, [Next]_<<part, chainVars, logVars, hostVars, runVars>> PROVE Inv'
    OBVIOUS
  <2>1. [ChainNext]_chainVars /\ [LogNext]_logVars /\ [HostNext]_hostVars /\ [RunNext]_runVars
    BY DEF Next
  <2> QED BY <2>1, ChainInvStep, LogInvStep, HostInvStep, RunInvStep
<1>3. Inv => TypesOK
  BY LogShapesAreTypes, HostShapesAreTypes, RunInvTypes DEF ChainInv, LogInv, TypesOK
<1> QED BY <1>1, <1>2, <1>3, PTL DEF Spec

=============================================================================
