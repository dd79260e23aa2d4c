----------------------------- MODULE WebProofs -----------------------------
(* Proofs about TokenService and, through it, about the web console over    *)
(* it, for any tokens, keys, pods, clicks, loads and pages.                 *)
EXTENDS WebConsole, TLAPS

USE TokensAssumption

(* Only keys that were committed are found to revoke.                       *)
TargetsExist == \A k \in Keys : \A x \in targets[k] : rows[x] # "none"

(* A key is seen by others only when its issue is over.                     *)
SeenWhenOver == \A k \in Keys : rows[k] # "none" => issue[k] = "over"

(* From writing the Secret to its end, an issue revokes no key the agents   *)
(* read: its own is new, and so is any that was written over it.            *)
SparesSecret == \A k \in Keys : issue[k] \in {"stored", "deleted"} => secret \notin targets[k]

SecretWritten == secret \in Keys => issue[secret] \in {"stored", "deleted", "over"}

(* AgentKeyWorks while issues run.                                          *)
SecretWorks == ~spoilt /\ secret # None =>
                   \/ issue[secret] \in {"stored", "deleted"}
                   \/ rows[secret] = "live"
                   \/ rows[secret] = "revoked" /\ secret \in byUser

(* PodsCarryKey while issues run: an issue is followed by the pods only     *)
(* when it has deleted those of the key before.                             *)
Followed == \/ secret = None
            \/ secret \in Keys /\ issue[secret] = "deleted"
            \/ secret \in Keys /\ issue[secret] = "over" /\ ~spoilt
PodsFollow == Followed => \A p \in Pods : podKey[p] \in {"absent", secret}

TokensInv == /\ ServiceTypeOK /\ TargetsExist /\ SeenWhenOver /\ SparesSecret
             /\ SecretWritten /\ SecretWorks /\ PodsFollow

LEMMA TokensInit == ServiceInit => TokensInv
<1> SUFFICES ASSUME ServiceInit PROVE TokensInv
  OBVIOUS
<1> USE DEF ServiceInit, All
<1>1. ServiceTypeOK
  BY DEF ServiceTypeOK, Statuses
<1>2. TargetsExist /\ SeenWhenOver /\ SparesSecret
  BY DEF TargetsExist, SeenWhenOver, SparesSecret
<1>3. SecretWritten /\ SecretWorks
  BY DEF SecretWritten, SecretWorks
<1>4. PodsFollow
  BY DEF PodsFollow, Followed
<1> QED
  BY <1>1, <1>2, <1>3, <1>4 DEF TokensInv

(* What an issue does to the table of issues.                               *)
LEMMA GoesOne ==
    ASSUME TokensInv, NEW k \in Keys, NEW step, Goes(k, step)
    PROVE  issue'[k] = step /\ \A j \in Keys : j # k => issue'[j] = issue[j]
  BY DEF TokensInv, ServiceTypeOK, Goes

(* A key that is being issued is neither seen nor about to be revoked.      *)
LEMMA IssuedUnseen ==
    ASSUME TokensInv, NEW k \in Keys, issue[k] # "over"
    PROVE  rows[k] = "none" /\ \A j \in Keys : k \notin targets[j]
  BY DEF TokensInv, SeenWhenOver, TargetsExist

(* Steps that change no row, key or Secret.                                 *)
LEMMA InvKept ==
    ASSUME TokensInv, UNCHANGED <<rows, issue, targets, secret, byUser, spoilt>>,
           ServiceTypeOK',
           \A p \in Pods : podKey'[p] \in {podKey[p], "absent", secret}
    PROVE  TokensInv'
<1>1. TargetsExist' /\ SeenWhenOver' /\ SparesSecret'
  BY DEF TokensInv, TargetsExist, SeenWhenOver, SparesSecret
<1>2. SecretWritten' /\ SecretWorks'
  BY DEF TokensInv, SecretWritten, SecretWorks
<1>3. PodsFollow'
  BY DEF TokensInv, PodsFollow, Followed
<1> QED
  BY <1>1, <1>2, <1>3 DEF TokensInv

LEMMA CreateKept == ASSUME TokensInv, NEW t \in Tokens, CreateToken(t) PROVE TokensInv'
<1> USE DEF CreateToken
<1>1. /\ \A k \in Keys : k # t /\ rows'[k] = rows[k]
      /\ \A x \in All : rows[x] # "none" => rows'[x] # "none"
  BY DEF TokensInv, ServiceTypeOK, All, Statuses
<1>2. ServiceTypeOK'
  BY <1>1 DEF TokensInv, ServiceTypeOK, All, Statuses
<1>3. TargetsExist' /\ SeenWhenOver' /\ SparesSecret'
  BY <1>1 DEF TokensInv, ServiceTypeOK, TargetsExist, SeenWhenOver, SparesSecret
<1>4. SecretWritten' /\ SecretWorks'
  BY <1>1 DEF TokensInv, ServiceTypeOK, SecretWritten, SecretWorks
<1>5. PodsFollow'
  BY DEF TokensInv, PodsFollow, Followed
<1> QED
  BY <1>2, <1>3, <1>4, <1>5 DEF TokensInv

LEMMA RevokeKept == ASSUME TokensInv, NEW x \in All, RevokeToken(x) PROVE TokensInv'
<1> USE DEF RevokeToken
<1>1. /\ rows'[x] = "revoked" /\ \A y \in All : y # x => rows'[y] = rows[y]
      /\ rows[x] = "live" => x \in byUser'
      /\ byUser \subseteq byUser'
  BY DEF TokensInv, ServiceTypeOK
<1>2. rows[x] \in {"live", "revoked"}
  BY DEF TokensInv, ServiceTypeOK, Statuses
<1>3. ServiceTypeOK'
  BY <1>1 DEF TokensInv, ServiceTypeOK, All, Statuses
<1>4. TargetsExist' /\ SeenWhenOver' /\ SparesSecret'
  BY <1>1, <1>2 DEF TokensInv, ServiceTypeOK, TargetsExist, SeenWhenOver, SparesSecret, All
<1>5. SecretWritten' /\ SecretWorks'
  BY <1>1, <1>2 DEF TokensInv, ServiceTypeOK, SecretWritten, SecretWorks, All
<1>6. PodsFollow'
  BY DEF TokensInv, PodsFollow, Followed
<1> QED
  BY <1>3, <1>4, <1>5, <1>6 DEF TokensInv

LEMMA StartsKept == ASSUME TokensInv, NEW k \in Keys, IssueStarts(k) PROVE TokensInv'
<1> USE DEF IssueStarts
<1>1. issue'[k] = "update" /\ \A j \in Keys : j # k => issue'[j] = issue[j]
  BY GoesOne
<1>2. targets'[k] = LiveKeys /\ \A j \in Keys : j # k => targets'[j] = targets[j]
  BY DEF TokensInv, ServiceTypeOK
<1>3. secret # k /\ rows[k] = "none"
  BY IssuedUnseen DEF TokensInv, SecretWritten
<1>4. ServiceTypeOK'
  BY <1>2 DEF TokensInv, ServiceTypeOK, Goes, LiveKeys
<1>5. TargetsExist' /\ SeenWhenOver' /\ SparesSecret'
  BY <1>1, <1>2, <1>3 DEF TokensInv, TargetsExist, SeenWhenOver, SparesSecret, LiveKeys
<1>6. SecretWritten' /\ SecretWorks'
  BY <1>1, <1>3 DEF TokensInv, ServiceTypeOK, SecretWritten, SecretWorks
<1>7. PodsFollow'
  BY <1>1, <1>3 DEF TokensInv, PodsFollow, Followed
<1> QED
  BY <1>4, <1>5, <1>6, <1>7 DEF TokensInv

LEMMA InsertsKept == ASSUME TokensInv, NEW k \in Keys, IssueInserts(k) PROVE TokensInv'
<1> USE DEF IssueInserts, Unseen
<1>1. issue'[k] = "inserted" /\ \A j \in Keys : j # k => issue'[j] = issue[j]
  BY GoesOne
<1>2. \A j \in Keys : targets'[j] \subseteq targets[j]
  BY DEF TokensInv, ServiceTypeOK
<1>3. secret # k /\ rows[k] = "none"
  BY IssuedUnseen DEF TokensInv, SecretWritten
<1>4. ServiceTypeOK'
  BY DEF TokensInv, ServiceTypeOK, Goes, LiveKeys
<1>5. TargetsExist' /\ SeenWhenOver' /\ SparesSecret'
  BY <1>1, <1>2, <1>3 DEF TokensInv, TargetsExist, SeenWhenOver, SparesSecret
<1>6. SecretWritten' /\ SecretWorks'
  BY <1>1, <1>3 DEF TokensInv, ServiceTypeOK, SecretWritten, SecretWorks
<1>7. PodsFollow'
  BY <1>1, <1>3 DEF TokensInv, PodsFollow, Followed
<1> QED
  BY <1>4, <1>5, <1>6, <1>7 DEF TokensInv

LEMMA StoreKept == ASSUME TokensInv, NEW k \in Keys, StoreInferenceKey(k) PROVE TokensInv'
<1>1. rows[k] = "none" /\ \A j \in Keys : k \notin targets[j]
  BY IssuedUnseen DEF StoreInferenceKey, Delivers
<1>2. CASE issue[k] = "inserted"
  <2> USE DEF StoreInferenceKey, Delivers
  <2>1. Goes(k, "stored") /\ secret' = k /\ UNCHANGED podKey
    BY <1>2
  <2>2. issue'[k] = "stored" /\ \A j \in Keys : j # k => issue'[j] = issue[j]
    BY <2>1, GoesOne
  <2>3. ServiceTypeOK'
    BY <2>1 DEF TokensInv, ServiceTypeOK, Goes
  <2>4. TargetsExist' /\ SeenWhenOver' /\ SparesSecret'
    BY <1>1, <2>1, <2>2 DEF TokensInv, TargetsExist, SeenWhenOver, SparesSecret
  <2>5. SecretWritten' /\ SecretWorks' /\ PodsFollow'
    BY <2>1, <2>2 DEF SecretWritten, SecretWorks, PodsFollow, Followed
  <2> QED
    BY <2>3, <2>4, <2>5 DEF TokensInv
<1>3. CASE issue[k] = "stored"
  <2> USE DEF StoreInferenceKey, Delivers
  <2>1. Goes(k, "deleted") /\ UNCHANGED secret /\ podKey' = [p \in Pods |-> "absent"]
    BY <1>3
  <2>2. issue'[k] = "deleted" /\ \A j \in Keys : j # k => issue'[j] = issue[j]
    BY <2>1, GoesOne
  <2>3. ServiceTypeOK'
    BY <2>1 DEF TokensInv, ServiceTypeOK, Goes
  <2>4. TargetsExist' /\ SeenWhenOver' /\ SparesSecret'
    BY <1>1, <1>3, <2>1, <2>2 DEF TokensInv, TargetsExist, SeenWhenOver, SparesSecret
  <2>5. SecretWritten' /\ SecretWorks'
    BY <1>3, <2>1, <2>2 DEF TokensInv, ServiceTypeOK, SecretWritten, SecretWorks
  <2>6. PodsFollow'
    BY <2>1 DEF PodsFollow
  <2> QED
    BY <2>3, <2>4, <2>5, <2>6 DEF TokensInv
<1> QED
  BY <1>2, <1>3 DEF StoreInferenceKey, Delivers

(* The commit revokes what the UPDATE found, the key the agents read never  *)
(* among it.                                                                *)
LEMMA CommitKept == ASSUME TokensInv, NEW k \in Keys, Commit(k) PROVE TokensInv'
<1> USE DEF Commit
<1>1. issue'[k] = "over" /\ \A j \in Keys : j # k => issue'[j] = issue[j]
  BY GoesOne
<1>2. rows[k] = "none" /\ secret \notin targets[k]
  BY IssuedUnseen DEF TokensInv, SparesSecret
<1>3. /\ rows'[k] = "live"
      /\ \A x \in All : rows[x] # "none" => rows'[x] # "none"
      /\ \A x \in All : x # k /\ rows[x] = "none" => rows'[x] = "none"
      /\ \A x \in All : x # k /\ x \notin targets[k] => rows'[x] = rows[x]
  BY DEF TokensInv, ServiceTypeOK, TargetsExist, All
<1>4. ServiceTypeOK'
  <2>1. rows' \in [All -> Statuses]
    BY DEF TokensInv, ServiceTypeOK, Statuses
  <2>2. issue' \in [Keys -> {"idle", "update", "stored", "deleted", "inserted", "over"}]
    BY DEF TokensInv, ServiceTypeOK, Goes
  <2>3. answered' \in SUBSET All /\ spoilt' \in BOOLEAN
    BY DEF TokensInv, ServiceTypeOK, All
  <2>4. \A j \in Keys : rows'[j] # "none" => j \in answered'
    BY <1>3 DEF TokensInv, ServiceTypeOK, All
  <2> QED
    BY <2>1, <2>2, <2>3, <2>4 DEF TokensInv, ServiceTypeOK
<1>5. TargetsExist' /\ SeenWhenOver' /\ SparesSecret'
  <2>1. \A j \in Keys : targets[j] \subseteq All
    BY DEF TokensInv, ServiceTypeOK, All
  <2> QED
    BY <1>1, <1>3, <2>1 DEF TokensInv, TargetsExist, SeenWhenOver, SparesSecret, All
<1>6. SecretWritten'
  BY <1>1 DEF TokensInv, SecretWritten
<1>7. SecretWorks' /\ PodsFollow'
  <2>1. CASE secret = k
    BY <1>1, <1>3, <2>1 DEF TokensInv, SecretWorks, PodsFollow, Followed
  <2>2. CASE secret # k
    <3>1. spoilt' = spoilt /\ (secret # None => secret \in Keys /\ rows'[secret] = rows[secret]
                                                /\ issue'[secret] = issue[secret])
      BY <1>1, <1>2, <1>3, <2>2 DEF TokensInv, ServiceTypeOK, All
    <3>2. SecretWorks'
      BY <3>1 DEF TokensInv, SecretWorks
    <3>3. PodsFollow'
      BY <3>1 DEF TokensInv, PodsFollow, Followed
    <3> QED
      BY <3>2, <3>3
  <2> QED
    BY <2>1, <2>2
<1> QED
  BY <1>4, <1>5, <1>6, <1>7 DEF TokensInv

LEMMA RollbackKept == ASSUME TokensInv, NEW k \in Keys, Rollback(k) PROVE TokensInv'
<1> USE DEF Rollback
<1>1. issue'[k] = "over" /\ \A j \in Keys : j # k => issue'[j] = issue[j]
  BY GoesOne
<1>2. secret = k => spoilt'
  BY DEF TokensInv, SecretWritten
<1>3. spoilt => spoilt'
  OBVIOUS
<1>4. ServiceTypeOK'
  BY DEF TokensInv, ServiceTypeOK, Goes
<1>5. TargetsExist' /\ SeenWhenOver' /\ SparesSecret'
  BY <1>1 DEF TokensInv, TargetsExist, SeenWhenOver, SparesSecret
<1>6. SecretWritten' /\ SecretWorks'
  BY <1>1, <1>2, <1>3 DEF TokensInv, ServiceTypeOK, SecretWritten, SecretWorks
<1>7. PodsFollow'
  BY <1>1, <1>2, <1>3 DEF TokensInv, PodsFollow, Followed
<1> QED
  BY <1>4, <1>5, <1>6, <1>7 DEF TokensInv

LEMMA TokensStep == TokensInv /\ [ServiceNext]_serviceVars => TokensInv'
<1> SUFFICES ASSUME TokensInv, [ServiceNext]_serviceVars PROVE TokensInv'
  OBVIOUS
<1>1. ASSUME NEW k \in Keys, IssueStarts(k) \/ Issuing(k) PROVE TokensInv'
  BY <1>1, StartsKept, InsertsKept, StoreKept, CommitKept, RollbackKept DEF Issuing
<1>2. ASSUME NEW t \in Tokens, CreateToken(t) PROVE TokensInv'
  BY <1>2, CreateKept
<1>3. ASSUME NEW x \in All, RevokeToken(x) PROVE TokensInv'
  BY <1>3, RevokeKept
<1>4. ASSUME NEW p \in Pods, PodStarts(p) PROVE TokensInv'
  <2>1. ServiceTypeOK'
    BY <1>4 DEF PodStarts, TokensInv, ServiceTypeOK
  <2>2. \A q \in Pods : podKey'[q] \in {podKey[q], "absent", secret}
    BY <1>4 DEF PodStarts, TokensInv, ServiceTypeOK
  <2> QED
    BY <1>4, <2>1, <2>2, InvKept DEF PodStarts
<1>5. ASSUME NEW p \in Pods, PodStops(p) PROVE TokensInv'
  <2>1. ServiceTypeOK'
    BY <1>5 DEF PodStops, TokensInv, ServiceTypeOK
  <2>2. \A q \in Pods : podKey'[q] \in {podKey[q], "absent", secret}
    BY <1>5 DEF PodStops, TokensInv, ServiceTypeOK
  <2> QED
    BY <1>5, <2>1, <2>2, InvKept DEF PodStops
<1>6. ASSUME UNCHANGED serviceVars PROVE TokensInv'
  <2>1. ServiceTypeOK'
    BY <1>6 DEF serviceVars, TokensInv, ServiceTypeOK
  <2> QED
    BY <1>6, <2>1, InvKept DEF serviceVars
<1> QED
  BY <1>1, <1>2, <1>3, <1>4, <1>5, <1>6 DEF ServiceNext

LEMMA InvImplies == TokensInv => ServiceTypeOK /\ AgentKeyWorks /\ PodsCarryKey
<1> SUFFICES ASSUME TokensInv PROVE ServiceTypeOK /\ AgentKeyWorks /\ PodsCarryKey
  OBVIOUS
<1>1. secret # None => secret \in Keys
  BY DEF TokensInv, ServiceTypeOK
<1>2. AgentKeyWorks
  BY <1>1 DEF TokensInv, SecretWorks, AgentKeyWorks, AtRest
<1>3. PodsCarryKey
  BY <1>1 DEF TokensInv, SecretWritten, PodsFollow, Followed, PodsCarryKey, AtRest
<1> QED
  BY <1>2, <1>3 DEF TokensInv

(* pat-service's handlers keep the key of the agents, whoever calls them.   *)
THEOREM KeyWorks == ServiceSpec => [](ServiceTypeOK /\ AgentKeyWorks /\ PodsCarryKey)
  BY TokensInit, TokensStep, InvImplies, PTL DEF ServiceSpec
----------------------------------------------------------------------------
(* What an issue revokes: every key that was live when it began is still to *)
(* be revoked by it, or is, and that is so when it is over with a row.      *)
IssueTargets == \A k \in Keys :
    /\ targets[k] \subseteq seen[k]
    /\ issue[k] = "update" => seen[k] = targets[k]
    /\ InTx(k) => \A x \in seen[k] : x \in targets[k] \/ rows[x] = "revoked"
    /\ rows[k] # "none" => \A x \in seen[k] : rows[x] = "revoked"

UsersRevoked == byUser \subseteq All /\ \A x \in byUser : rows[x] = "revoked"

Replaced == {x \in Keys : \E k \in Keys : rows[k] # "none" /\ x \in seen[k]}
Explained == \A x \in All : rows[x] = "revoked" => x \in byUser \cup Replaced

ReplaceInv == IssueTargets /\ UsersRevoked /\ Explained

LEMMA ReplaceInit == ServiceInit => ReplaceInv
  BY DEF ServiceInit, ReplaceInv, IssueTargets, UsersRevoked, Explained, InTx, All

(* Steps that leave the rows and the issues.                                *)
LEMMA ReplaceKept ==
    ASSUME ReplaceInv, UNCHANGED <<rows, issue, targets, seen, byUser>> PROVE ReplaceInv'
  BY DEF ReplaceInv, IssueTargets, UsersRevoked, Explained, Replaced, InTx

LEMMA CreateReplaces ==
    ASSUME TokensInv, ReplaceInv, NEW t \in Tokens, CreateToken(t) PROVE ReplaceInv'
<1>1. /\ \A x \in All : x # t => rows'[x] = rows[x]
      /\ rows[t] = "none" /\ rows'[t] = "live" /\ t \notin Keys /\ t \in All
      /\ \A k \in Keys : k \in All /\ targets[k] \subseteq Keys /\ seen[k] \subseteq Keys
      /\ UNCHANGED <<issue, targets, seen, byUser>>
  BY DEF CreateToken, TokensInv, ServiceTypeOK, All
<1>2. IssueTargets'
  BY <1>1 DEF ReplaceInv, IssueTargets, InTx, All
<1>3. UsersRevoked'
  BY <1>1 DEF ReplaceInv, UsersRevoked
<1>4. Explained'
  BY <1>1 DEF ReplaceInv, Explained, Replaced, All
<1> QED
  BY <1>2, <1>3, <1>4 DEF ReplaceInv

LEMMA RevokeReplaces ==
    ASSUME TokensInv, ReplaceInv, NEW x \in All, RevokeToken(x) PROVE ReplaceInv'
<1>1. /\ rows[x] # "none" /\ rows'[x] = "revoked" /\ \A y \in All : y # x => rows'[y] = rows[y]
      /\ rows[x] \in {"live", "revoked"}
      /\ byUser' = IF rows[x] = "live" THEN byUser \cup {x} ELSE byUser
      /\ \A k \in Keys : k \in All /\ targets[k] \subseteq Keys /\ seen[k] \subseteq Keys
      /\ UNCHANGED <<issue, targets, seen>>
  BY DEF RevokeToken, TokensInv, ServiceTypeOK, Statuses, All
<1>2. IssueTargets'
  BY <1>1 DEF ReplaceInv, IssueTargets, InTx, All
<1>3. UsersRevoked'
  BY <1>1 DEF ReplaceInv, UsersRevoked
<1>4. Explained'
  BY <1>1 DEF ReplaceInv, Explained, Replaced, All
<1> QED
  BY <1>2, <1>3, <1>4 DEF ReplaceInv

LEMMA StartsReplaces ==
    ASSUME TokensInv, ReplaceInv, NEW k \in Keys, IssueStarts(k) PROVE ReplaceInv'
<1>1. /\ issue'[k] = "update" /\ \A j \in Keys : j # k => issue'[j] = issue[j]
      /\ rows[k] = "none"
  BY GoesOne, IssuedUnseen DEF IssueStarts
<1>2. /\ targets'[k] = LiveKeys /\ \A j \in Keys : j # k => targets'[j] = targets[j]
      /\ seen'[k] = LiveKeys /\ \A j \in Keys : j # k => seen'[j] = seen[j]
      /\ UNCHANGED <<rows, byUser>>
  BY DEF IssueStarts, TokensInv, ServiceTypeOK
<1>3. IssueTargets'
  BY <1>1, <1>2 DEF ReplaceInv, IssueTargets, InTx
<1>4. UsersRevoked'
  BY <1>2 DEF ReplaceInv, UsersRevoked
<1>5. Explained'
  BY <1>1, <1>2 DEF ReplaceInv, Explained, Replaced
<1> QED
  BY <1>3, <1>4, <1>5 DEF ReplaceInv

(* The rows that are no longer live once they are free were revoked.        *)
LEMMA InsertsReplaces ==
    ASSUME TokensInv, ReplaceInv, NEW k \in Keys, IssueInserts(k) PROVE ReplaceInv'
<1>1. /\ issue[k] = "update" /\ issue'[k] = "inserted"
      /\ \A j \in Keys : j # k => issue'[j] = issue[j]
  BY GoesOne DEF IssueInserts
<1>2. /\ targets'[k] = targets[k] \cap LiveKeys /\ targets[k] \subseteq Keys
      /\ \A j \in Keys : j # k => targets'[j] = targets[j]
      /\ UNCHANGED <<rows, seen, byUser>>
  BY DEF IssueInserts, Unseen, TokensInv, ServiceTypeOK
<1>3. \A x \in targets[k] : x \in targets'[k] \/ rows[x] = "revoked"
  BY <1>2 DEF LiveKeys, TokensInv, ServiceTypeOK, TargetsExist, Statuses, All
<1>4. IssueTargets'
  BY <1>1, <1>2, <1>3 DEF ReplaceInv, IssueTargets, InTx
<1>5. UsersRevoked' /\ Explained'
  BY <1>2 DEF ReplaceInv, UsersRevoked, Explained, Replaced
<1> QED
  BY <1>4, <1>5 DEF ReplaceInv

LEMMA StoreReplaces ==
    ASSUME TokensInv, ReplaceInv, NEW k \in Keys, StoreInferenceKey(k) PROVE ReplaceInv'
<1>1. /\ InTx(k) /\ InTx(k)' /\ issue[k] # "update" /\ issue'[k] # "update"
      /\ \A j \in Keys : j # k => issue'[j] = issue[j]
      /\ UNCHANGED <<rows, targets, seen, byUser>>
  BY GoesOne DEF StoreInferenceKey, Delivers, InTx
<1>2. \A j \in Keys : InTx(j)' <=> InTx(j)
  BY <1>1 DEF InTx
<1>3. IssueTargets'
  BY <1>1, <1>2 DEF ReplaceInv, IssueTargets
<1>4. UsersRevoked' /\ Explained'
  BY <1>1 DEF ReplaceInv, UsersRevoked, Explained, Replaced
<1> QED
  BY <1>3, <1>4 DEF ReplaceInv

LEMMA CommitReplaces ==
    ASSUME TokensInv, ReplaceInv, NEW k \in Keys, Commit(k) PROVE ReplaceInv'
<1>1. /\ InTx(k) /\ issue'[k] = "over" /\ \A j \in Keys : j # k => issue'[j] = issue[j]
      /\ rows[k] = "none" /\ \A j \in Keys : k \notin targets[j]
  BY GoesOne, IssuedUnseen DEF Commit, InTx
<1>2. /\ \A x \in All : rows'[x] = IF x = k THEN "live"
                                  ELSE IF x \in targets[k] THEN "revoked" ELSE rows[x]
      /\ \A j \in Keys : j \in All /\ targets[j] \subseteq Keys /\ seen[j] \subseteq Keys
      /\ UNCHANGED <<targets, seen, byUser>>
  BY DEF Commit, TokensInv, ServiceTypeOK, All
<1>3. \A x \in All : rows[x] = "revoked" => rows'[x] = "revoked"
  BY <1>1, <1>2
<1>4. \A x \in seen[k] : rows'[x] = "revoked"
  BY <1>1, <1>2, <1>3 DEF ReplaceInv, IssueTargets, All
<1>5. ASSUME NEW j \in Keys, j # k
      PROVE  /\ rows'[j] # "none" => rows[j] # "none"
             /\ InTx(j)' => InTx(j)
             /\ issue'[j] = issue[j]
  BY <1>1, <1>2, <1>5 DEF InTx, TokensInv, TargetsExist, All
<1>6. IssueTargets'
  <2> SUFFICES ASSUME NEW j \in Keys
               PROVE  /\ targets[j] \subseteq seen[j]
                      /\ issue'[j] = "update" => seen[j] = targets[j]
                      /\ InTx(j)' => \A x \in seen[j] : x \in targets[j] \/ rows'[x] = "revoked"
                      /\ rows'[j] # "none" => \A x \in seen[j] : rows'[x] = "revoked"
    BY <1>2 DEF IssueTargets
  <2>1. CASE j = k
    BY <1>1, <1>4, <2>1 DEF ReplaceInv, IssueTargets, InTx
  <2>2. CASE j # k
    <3>1. \A x \in seen[j] : x \in All
      BY <1>2
    <3> QED
      BY <1>3, <1>5, <2>2, <3>1 DEF ReplaceInv, IssueTargets
  <2> QED
    BY <2>1, <2>2
<1>7. UsersRevoked'
  BY <1>2, <1>3 DEF ReplaceInv, UsersRevoked
<1>8. Explained'
  <2>1. rows'[k] # "none" /\ \A j \in Keys : rows[j] # "none" => rows'[j] # "none"
    BY <1>2
  <2>2. targets[k] \subseteq seen[k]
    BY DEF ReplaceInv, IssueTargets
  <2> QED
    BY <1>2, <2>1, <2>2 DEF ReplaceInv, Explained, Replaced
<1> QED
  BY <1>6, <1>7, <1>8 DEF ReplaceInv

LEMMA RollbackReplaces ==
    ASSUME TokensInv, ReplaceInv, NEW k \in Keys, Rollback(k) PROVE ReplaceInv'
<1>1. /\ issue'[k] = "over" /\ \A j \in Keys : j # k => issue'[j] = issue[j]
      /\ UNCHANGED <<rows, targets, seen, byUser>>
  BY GoesOne DEF Rollback
<1>2. IssueTargets'
  BY <1>1 DEF ReplaceInv, IssueTargets, InTx
<1>3. UsersRevoked' /\ Explained'
  BY <1>1 DEF ReplaceInv, UsersRevoked, Explained, Replaced
<1> QED
  BY <1>2, <1>3 DEF ReplaceInv

LEMMA ReplaceStep == TokensInv /\ ReplaceInv /\ [ServiceNext]_serviceVars => ReplaceInv'
<1> SUFFICES ASSUME TokensInv, ReplaceInv, [ServiceNext]_serviceVars PROVE ReplaceInv'
  OBVIOUS
<1>1. ASSUME NEW k \in Keys, IssueStarts(k) \/ Issuing(k) PROVE ReplaceInv'
  BY <1>1, StartsReplaces, InsertsReplaces, StoreReplaces, CommitReplaces, RollbackReplaces
     DEF Issuing
<1>2. ASSUME NEW t \in Tokens, CreateToken(t) PROVE ReplaceInv'
  BY <1>2, CreateReplaces
<1>3. ASSUME NEW x \in All, RevokeToken(x) PROVE ReplaceInv'
  BY <1>3, RevokeReplaces
<1>4. ASSUME \/ \E p \in Pods : PodStarts(p) \/ PodStops(p)
             \/ UNCHANGED serviceVars
      PROVE  ReplaceInv'
  BY <1>4, ReplaceKept DEF PodStarts, PodStops, serviceVars
<1> QED
  BY <1>1, <1>2, <1>3, <1>4 DEF ServiceNext

(* What is revoked is what the user revoked and what was live when an issue *)
(* that succeeded began, and nothing else, however issues overlap and fail. *)
THEOREM IssuesReplace == ServiceSpec => []IssueReplaces
<1>1. TokensInv /\ ReplaceInv => IssueReplaces
  <2> SUFFICES ASSUME TokensInv, ReplaceInv, NEW x \in All
               PROVE  rows[x] = "revoked" <=> x \in byUser \cup Replaced
    BY DEF IssueReplaces, Replaced
  <2>1. x \in Replaced => rows[x] = "revoked"
    BY DEF ReplaceInv, IssueTargets, Replaced
  <2> QED
    BY <2>1 DEF ReplaceInv, UsersRevoked, Explained
<1> QED
  BY <1>1, TokensInit, TokensStep, ReplaceInit, ReplaceStep, PTL DEF ServiceSpec
----------------------------------------------------------------------------
(* The console over the service.                                            *)

LEMMA PageSteps == DashboardNext => [ServiceNext]_serviceVars
<1> USE DEF serviceVars
<1>1. ASSUME NEW l \in loads, Read(l) \/ Loaded(l) \/ NotLoaded(l) PROVE UNCHANGED serviceVars
  BY <1>1 DEF Read, Loaded, NotLoaded, Settles
<1>2. ASSUME Refresh PROVE UNCHANGED serviceVars
  BY <1>2 DEF Refresh
<1>3. ASSUME NEW x, Create(x) \/ Issue(x) \/ Revoke(x) \/ NoAnswer(x)
      PROVE  UNCHANGED serviceVars
  BY <1>3 DEF Create, Issue, Revoke, NoAnswer, Asks, Answers
<1>4. Service => ServiceNext
  BY DEF Service
<1> QED
  BY <1>1, <1>2, <1>3, <1>4 DEF DashboardNext

LEMMA WindowSteps == [WebNext]_webVars => [ServiceNext]_serviceVars
<1> USE DEF serviceVars
<1>1. ASSUME NEW p, Follows(p) PROVE UNCHANGED serviceVars
  BY <1>1 DEF Follows, Closes
<1>2. ASSUME SessionAnswers PROVE UNCHANGED serviceVars
  BY <1>2 DEF SessionAnswers, dashboardVars
<1>3. ASSUME Renders PROVE UNCHANGED serviceVars
  BY <1>3 DEF Renders, Shows, Opens, dashboardVars
<1>4. ASSUME ScreenNext, UNCHANGED dashboardVars PROVE UNCHANGED serviceVars
  BY <1>4 DEF dashboardVars
<1>5. ASSUME UNCHANGED webVars PROVE UNCHANGED serviceVars
  BY <1>5 DEF webVars, dashboardVars
<1> HIDE DEF serviceVars
<1> QED
  BY <1>1, <1>2, <1>3, <1>4, <1>5, PageSteps DEF WebNext

(* The window and its pages do with the service only what its handlers do.  *)
LEMMA ConsoleUsesService == WebSpec => ServiceSpec
<1>1. WebInit => ServiceInit
  BY DEF WebInit, DashboardInit
<1> QED
  BY <1>1, WindowSteps, PTL DEF WebSpec, ServiceSpec

(* So the key of the agents is valid and theirs under the console, too, and *)
(* what was issued replaces what was live.                                  *)
THEOREM ConsoleKeyWorks == WebSpec => []AgentKeyWorks /\ []PodsCarryKey /\ []IssueReplaces
<1>1. ServiceSpec => []AgentKeyWorks /\ []PodsCarryKey /\ []IssueReplaces
  BY KeyWorks, IssuesReplace, PTL
<1> QED
  BY <1>1, ConsoleUsesService
----------------------------------------------------------------------------
(* The page's loads and buttons.                                            *)
LoadKinds == {"page", "create", "issue"}
LoadRecords == [nr : Nat, for : LoadKinds, read : BOOLEAN, list : Lists]
LoadsNumbered == /\ newest \in Nat
                 /\ loads \subseteq LoadRecords
                 /\ \A l \in loads : l.nr <= newest

PageMove == \/ \E l \in loads : Read(l) \/ Loaded(l) \/ NotLoaded(l)
            \/ Refresh \/ Opens
            \/ \E t \in Tokens : Create(t)
            \/ \E k \in Keys : Issue(k)
            \/ \E x \in All : Revoke(x)
            \/ \E c \in calls : NoAnswer(c)
            \/ Closes
            \/ UNCHANGED pageVars

LEMMA PageMoves == [WebNext]_webVars => PageMove
<1>1. DashboardNext => PageMove
  BY DEF DashboardNext, PageMove, Service
<1>2. ASSUME NEW p, Follows(p) PROVE PageMove
  BY <1>2 DEF Follows, PageMove
<1>3. Renders => PageMove
  BY DEF Renders, Shows, PageMove, dashboardVars
<1>4. SessionAnswers \/ UNCHANGED webVars \/ (ScreenNext /\ UNCHANGED dashboardVars) => PageMove
  BY DEF SessionAnswers, webVars, dashboardVars, PageMove
<1> QED
  BY <1>1, <1>2, <1>3, <1>4 DEF WebNext

(* A load that is sent.                                                     *)
LEMMA SendsOne ==
    ASSUME LoadsNumbered, NEW what \in LoadKinds, Sends(what)
    PROVE  /\ \E new \in LoadRecords : /\ new.nr = newest' /\ new.for = what
                                       /\ loads' = loads \cup {new}
           /\ newest' = newest + 1 /\ loading' = TRUE /\ list' = list
<1> DEFINE new == [nr |-> newest', for |-> what, read |-> FALSE, list |-> NoTokens]
<1>1. new \in LoadRecords /\ new.nr = newest' /\ new.for = what
  BY DEF Sends, LoadsNumbered, LoadRecords, NoTokens, Lists, Statuses
<1>2. /\ newest' = newest + 1 /\ loads' = loads \cup {new}
      /\ loading' = TRUE /\ list' = list
  BY DEF Sends
<1> HIDE DEF new
<1> QED
  BY <1>1, <1>2

(* And one that is read.                                                    *)
LEMMA ReadsOne ==
    ASSUME TokensInv, LoadsNumbered, NEW l \in loads, Read(l)
    PROVE  /\ \E r \in LoadRecords : /\ r.nr = l.nr /\ r.for = l.for
                                     /\ loads' = (loads \ {l}) \cup {r}
           /\ UNCHANGED <<shown, clicks, list, newest, loading, creating, issuing, calls>>
<1> DEFINE r == [l EXCEPT !.read = TRUE, !.list = rows]
<1>1. r \in LoadRecords /\ r.nr = l.nr /\ r.for = l.for
  BY DEF LoadsNumbered, LoadRecords, TokensInv, ServiceTypeOK, Lists
<1>2. /\ loads' = (loads \ {l}) \cup {r}
      /\ UNCHANGED <<shown, clicks, list, newest, loading, creating, issuing, calls>>
  BY DEF Read, askVars
<1> HIDE DEF r
<1> QED
  BY <1>1, <1>2

LEMMA NumberedStep == TokensInv /\ LoadsNumbered /\ [WebNext]_webVars => LoadsNumbered'
<1> SUFFICES ASSUME TokensInv, LoadsNumbered, PageMove PROVE LoadsNumbered'
  BY PageMoves
<1>1. ASSUME NEW what \in LoadKinds, Sends(what) PROVE LoadsNumbered'
  <2>1. PICK new \in LoadRecords : new.nr = newest' /\ loads' = loads \cup {new}
    BY <1>1, SendsOne
  <2>2. newest \in Nat /\ newest' = newest + 1
    BY <1>1, SendsOne DEF LoadsNumbered
  <2>3. \A l \in loads : l.nr \in Nat /\ l.nr <= newest
    BY DEF LoadsNumbered, LoadRecords
  <2>4. \A l \in loads' : l.nr <= newest'
    BY <2>1, <2>2, <2>3
  <2> QED
    BY <2>1, <2>2, <2>4 DEF LoadsNumbered
<1>2. ASSUME NEW l \in loads, Read(l) PROVE LoadsNumbered'
  BY <1>2, ReadsOne DEF LoadsNumbered
<1>3. ASSUME newest' = newest, loads' \subseteq loads PROVE LoadsNumbered'
  BY <1>3 DEF LoadsNumbered
<1>4. ASSUME NEW l \in loads, Loaded(l) \/ NotLoaded(l) PROVE LoadsNumbered'
  BY <1>3, <1>4 DEF Loaded, NotLoaded, Settles
<1>5. Refresh \/ Opens => LoadsNumbered'
  BY <1>1 DEF Refresh, Opens, LoadKinds
<1>6. ASSUME NEW x, Create(x) \/ Issue(x) \/ Revoke(x) PROVE LoadsNumbered'
  BY <1>1, <1>3, <1>6 DEF Create, Issue, Revoke, Asks, LoadKinds, listVars
<1>7. ASSUME NEW c, NoAnswer(c) PROVE LoadsNumbered'
  BY <1>3, <1>7 DEF NoAnswer, listVars
<1>8. Closes => LoadsNumbered'
  BY DEF Closes, LoadsNumbered
<1>9. UNCHANGED pageVars => LoadsNumbered'
  BY <1>3 DEF pageVars, listVars
<1> QED
  BY <1>2, <1>4, <1>5, <1>6, <1>7, <1>8, <1>9 DEF PageMove

LEMMA NumberedStart == WebInit => LoadsNumbered
  BY DEF WebInit, DashboardInit, LoadsNumbered
----------------------------------------------------------------------------
ButtonsInv == OneAtATime /\ creating \in BOOLEAN /\ issuing \in BOOLEAN

(* Calls and loads that no button waits for.                                *)
LEMMA OthersKept ==
    ASSUME ButtonsInv, UNCHANGED <<creating, issuing>>,
           \A c \in calls \ calls' : c.what # "make", calls' \subseteq calls,
           \A l \in (loads \ loads') \cup (loads' \ loads) : l.for = "page",
           loading' => loads' # {}
    PROVE  ButtonsInv'
<1>1. Making(Tokens)' = Making(Tokens) /\ Making(Keys)' = Making(Keys)
  BY DEF Making
<1>2. Awaited("create")' = Awaited("create") /\ Awaited("issue")' = Awaited("issue")
  BY DEF Awaited
<1> QED
  BY <1>1, <1>2 DEF ButtonsInv, OneAtATime, Disabled

(* A click on create() or issue().                                          *)
LEMMA ClickedKept ==
    ASSUME ButtonsInv,
           \/ \E t \in Tokens : ~creating /\ Asks(t, "make") /\ creating' = TRUE /\ issuing' = issuing
           \/ \E k \in Keys : ~issuing /\ Asks(k, "make") /\ issuing' = TRUE /\ creating' = creating
    PROVE  ButtonsInv'
<1>1. UNCHANGED <<loads, loading>>
  BY DEF Asks, listVars
<1>2. Awaited("create")' = Awaited("create") /\ Awaited("issue")' = Awaited("issue")
  BY <1>1 DEF Awaited
<1>3. ASSUME NEW t \in Tokens, ~creating, Asks(t, "make"), creating' = TRUE, issuing' = issuing
      PROVE  ButtonsInv'
  <2>1. PICK c : c.of = t /\ c.what = "make" /\ calls' = calls \cup {c}
    BY <1>3 DEF Asks
  <2>2. Making(Tokens)' = Making(Tokens) \cup {c} /\ Making(Keys)' = Making(Keys)
    BY <1>3, <2>1 DEF Making
  <2>3. Making(Tokens) = {} /\ Awaited("create") = {}
    BY <1>3 DEF ButtonsInv, OneAtATime, Disabled
  <2> QED
    BY <1>1, <1>2, <1>3, <2>2, <2>3 DEF ButtonsInv, OneAtATime, Disabled
<1>4. ASSUME NEW k \in Keys, ~issuing, Asks(k, "make"), issuing' = TRUE, creating' = creating
      PROVE  ButtonsInv'
  <2>1. PICK c : c.of = k /\ c.what = "make" /\ calls' = calls \cup {c}
    BY <1>4 DEF Asks
  <2>2. Making(Keys)' = Making(Keys) \cup {c} /\ Making(Tokens)' = Making(Tokens)
    BY <1>4, <2>1 DEF Making
  <2>3. Making(Keys) = {} /\ Awaited("issue") = {}
    BY <1>4 DEF ButtonsInv, OneAtATime, Disabled
  <2> QED
    BY <1>1, <1>2, <1>4, <2>2, <2>3 DEF ButtonsInv, OneAtATime, Disabled
<1> QED
  BY <1>3, <1>4

(* The answer: the load takes the place of the call.                        *)
LEMMA AnsweredKept ==
    ASSUME LoadsNumbered, ButtonsInv, NEW c \in calls, Answers(c, "make"),
           \/ c.of \in Tokens /\ Sends("create")
           \/ c.of \in Keys /\ Sends("issue")
    PROVE  ButtonsInv'
<1>1. /\ c.what = "make" /\ calls' = calls \ {c}
      /\ UNCHANGED <<creating, issuing>>
  BY DEF Answers
<1>2. ASSUME c.of \in Tokens, Sends("create") PROVE ButtonsInv'
  <2>1. PICK new \in LoadRecords : new.for = "create" /\ loads' = loads \cup {new}
    BY <1>2, SendsOne DEF LoadKinds
  <2>2. Making(Tokens)' = Making(Tokens) \ {c} /\ Making(Keys)' = Making(Keys) /\ c \in Making(Tokens)
    BY <1>1, <1>2 DEF Making
  <2>3. Awaited("create")' = Awaited("create") \cup {new} /\ Awaited("issue")' = Awaited("issue")
    BY <2>1 DEF Awaited
  <2>4. Making(Tokens)' = {} /\ Awaited("create") = {} /\ creating
    BY <2>2 DEF ButtonsInv, OneAtATime, Disabled
  <2> QED
    BY <1>1, <2>1, <2>2, <2>3, <2>4 DEF ButtonsInv, OneAtATime, Disabled
<1>3. ASSUME c.of \in Keys, Sends("issue") PROVE ButtonsInv'
  <2>1. PICK new \in LoadRecords : new.for = "issue" /\ loads' = loads \cup {new}
    BY <1>3, SendsOne DEF LoadKinds
  <2>2. Making(Keys)' = Making(Keys) \ {c} /\ Making(Tokens)' = Making(Tokens) /\ c \in Making(Keys)
    BY <1>1, <1>3 DEF Making
  <2>3. Awaited("issue")' = Awaited("issue") \cup {new} /\ Awaited("create")' = Awaited("create")
    BY <2>1 DEF Awaited
  <2>4. Making(Keys)' = {} /\ Awaited("issue") = {} /\ issuing
    BY <2>2 DEF ButtonsInv, OneAtATime, Disabled
  <2> QED
    BY <1>1, <2>1, <2>2, <2>3, <2>4 DEF ButtonsInv, OneAtATime, Disabled
<1> QED
  BY <1>2, <1>3

LEMMA NoAnswerKept ==
    ASSUME ButtonsInv, NEW c \in calls, NoAnswer(c) PROVE ButtonsInv'
<1>1. /\ calls' = calls \ {c} /\ UNCHANGED <<loads, loading>>
      /\ creating' = (creating /\ c \notin Making(Tokens))
      /\ issuing' = (issuing /\ c \notin Making(Keys))
  BY DEF NoAnswer, listVars, Making
<1>2. Making(Tokens)' = Making(Tokens) \ {c} /\ Making(Keys)' = Making(Keys) \ {c}
  BY <1>1 DEF Making
<1>3. Awaited("create")' = Awaited("create") /\ Awaited("issue")' = Awaited("issue")
  BY <1>1 DEF Awaited
<1> QED
  BY <1>1, <1>2, <1>3 DEF ButtonsInv, OneAtATime, Disabled

LEMMA SettledKept ==
    ASSUME ButtonsInv, NEW l \in loads, NEW ok \in BOOLEAN, Settles(l, ok) PROVE ButtonsInv'
<1>1. /\ loads' = loads \ {l} /\ loading' = FALSE /\ calls' = calls
      /\ creating' = (creating /\ l \notin Awaited("create"))
      /\ issuing' = (issuing /\ l \notin Awaited("issue"))
  BY DEF Settles, Enables, Awaited
<1>2. Making(Tokens)' = Making(Tokens) /\ Making(Keys)' = Making(Keys)
  BY <1>1 DEF Making
<1>3. Awaited("create")' = Awaited("create") \ {l} /\ Awaited("issue")' = Awaited("issue") \ {l}
  BY <1>1 DEF Awaited
<1> QED
  BY <1>1, <1>2, <1>3 DEF ButtonsInv, OneAtATime, Disabled

LEMMA ReadKept ==
    ASSUME TokensInv, LoadsNumbered, ButtonsInv, NEW l \in loads, Read(l) PROVE ButtonsInv'
<1>1. PICK r \in LoadRecords : r.for = l.for /\ loads' = (loads \ {l}) \cup {r}
  BY ReadsOne
<1>2. UNCHANGED <<loading, creating, issuing, calls>>
  BY ReadsOne
<1>3. Making(Tokens)' = Making(Tokens) /\ Making(Keys)' = Making(Keys)
  BY <1>2 DEF Making
<1>4. ASSUME NEW for
      PROVE  Awaited(for)' = IF l \in Awaited(for) THEN (Awaited(for) \ {l}) \cup {r} ELSE Awaited(for)
  BY <1>1 DEF Awaited
<1> QED
  BY <1>1, <1>2, <1>3, <1>4 DEF ButtonsInv, OneAtATime, Disabled

LEMMA ButtonsStep == TokensInv /\ LoadsNumbered /\ ButtonsInv /\ [WebNext]_webVars => ButtonsInv'
<1> SUFFICES ASSUME TokensInv, LoadsNumbered, ButtonsInv, PageMove PROVE ButtonsInv'
  BY PageMoves
<1>1. ASSUME NEW l \in loads, Read(l) \/ Loaded(l) \/ NotLoaded(l) PROVE ButtonsInv'
  BY <1>1, ReadKept, SettledKept DEF Loaded, NotLoaded
<1>2. ASSUME Sends("page"), UNCHANGED <<creating, issuing>>, calls' \subseteq calls,
             \A c \in calls \ calls' : c.what # "make"
      PROVE  ButtonsInv'
  <2>1. PICK new \in LoadRecords : new.for = "page" /\ loads' = loads \cup {new}
    BY <1>2, SendsOne DEF LoadKinds
  <2> QED
    BY <1>2, <2>1, OthersKept
<1>3. Refresh \/ Opens => ButtonsInv'
  BY <1>2 DEF Refresh, Opens, askVars
<1>4. ASSUME NEW t \in Tokens, Create(t) PROVE ButtonsInv'
  BY <1>4, ClickedKept, AnsweredKept DEF Create
<1>5. ASSUME NEW k \in Keys, Issue(k) PROVE ButtonsInv'
  BY <1>5, ClickedKept, AnsweredKept DEF Issue
<1>6. ASSUME NEW x \in All, Revoke(x) PROVE ButtonsInv'
  <2>1. CASE Asks(x, "revoke") /\ UNCHANGED <<creating, issuing>>
    <3>1. PICK c : c.what = "revoke" /\ calls' = calls \cup {c}
      BY <2>1 DEF Asks
    <3>2. Making(Tokens)' = Making(Tokens) /\ Making(Keys)' = Making(Keys)
      BY <3>1 DEF Making
    <3>3. UNCHANGED <<loads, loading>>
      BY <2>1 DEF Asks, listVars
    <3>4. Awaited("create")' = Awaited("create") /\ Awaited("issue")' = Awaited("issue")
      BY <3>3 DEF Awaited
    <3> QED
      BY <2>1, <3>2, <3>3, <3>4 DEF ButtonsInv, OneAtATime, Disabled
  <2>2. CASE Sends("page") /\ \E c \in calls : Answers(c, "revoke")
    BY <1>2, <2>2 DEF Answers
  <2> QED
    BY <1>6, <2>1, <2>2 DEF Revoke
<1>7. ASSUME NEW c \in calls, NoAnswer(c) PROVE ButtonsInv'
  BY <1>7, NoAnswerKept
<1>8. Closes => ButtonsInv'
  BY DEF Closes, ButtonsInv, OneAtATime, Disabled, Making, Awaited
<1>9. ASSUME UNCHANGED pageVars PROVE ButtonsInv'
  <2>1. UNCHANGED <<loads, loading, creating, issuing, calls>>
    BY <1>9 DEF pageVars, listVars, askVars
  <2> QED
    BY <2>1 DEF ButtonsInv, OneAtATime, Disabled, Making, Awaited
<1> QED
  BY <1>1, <1>3, <1>4, <1>5, <1>6, <1>7, <1>8, <1>9 DEF PageMove

(* A button of the page is disabled exactly while the one thing it was      *)
(* clicked for is under way, for any number of clicks, calls and loads.     *)
THEOREM ButtonsTell == WebSpec => []OneAtATime
<1>1. WebInit => TokensInv
  BY TokensInit DEF WebInit, DashboardInit
<1>2. TokensInv /\ [WebNext]_webVars => TokensInv'
  BY WindowSteps, TokensStep
<1>3. WebInit => ButtonsInv
  BY DEF WebInit, DashboardInit, ButtonsInv, OneAtATime, Disabled, Making, Awaited
<1>4. ButtonsInv => OneAtATime
  BY DEF ButtonsInv
<1> QED
  BY <1>1, <1>2, <1>3, <1>4, NumberedStart, NumberedStep, ButtonsStep, PTL DEF WebSpec
=============================================================================
