---------------------------- MODULE TokenService ----------------------------
(* pat-service's tokens of one user: the handlers that list, create and     *)
(* revoke them, and the one that issues the agents' inference key, which is *)
(* written into the Secret the user's agent pods read when they start.      *)
(* Handlers run at once, each request on a goroutine; PostgreSQL is at READ *)
(* COMMITTED.                                                               *)
CONSTANTS Tokens,    (* personal access tokens, each made by one request    *)
          Keys,      (* agent keys, each issued by one request              *)
          Pods,      (* the user's agents                                   *)
          None

ASSUME TokensAssumption == Tokens \cap Keys = {} /\ None \notin Keys

VARIABLES rows,     (* personal_access_tokens: the status of each token     *)
          issue,    (* where issueAgentToken is for each key                *)
          targets,  (* the rows its UPDATE found to revoke                  *)
          seen,     (* history: the keys that were live when it began       *)
          secret,   (* INFERENCE_KEY in the Secret, or None                 *)
          podKey,   (* the key each pod started with; "absent" if there is  *)
                    (* no pod                                               *)
          byUser,   (* history: tokens the user revoked                     *)
          answered, (* requests whose handler answered with success         *)
          spoilt    (* history: an issue failed after it wrote the Secret,  *)
                    (* and none that succeeded has written it since         *)

serviceVars == <<rows, issue, targets, seen, secret, podKey, byUser, answered, spoilt>>

All == Tokens \cup Keys
Statuses == {"none", "live", "revoked"}

ServiceTypeOK == /\ rows \in [All -> Statuses]
                 /\ issue \in [Keys -> {"idle", "update", "stored", "deleted", "inserted",
                                        "over"}]
                 /\ targets \in [Keys -> SUBSET Keys] /\ seen \in [Keys -> SUBSET Keys]
                 /\ secret \in Keys \cup {None}
                 /\ podKey \in [Pods -> Keys \cup {None, "absent"}]
                 /\ byUser \in SUBSET All /\ answered \in SUBSET All /\ spoilt \in BOOLEAN
                 /\ \A k \in Keys : rows[k] # "none" => k \in answered

ServiceInit == /\ rows = [x \in All |-> "none"]
               /\ issue = [k \in Keys |-> "idle"]
               /\ targets = [k \in Keys |-> {}] /\ seen = [k \in Keys |-> {}]
               /\ secret = None
               /\ podKey \in [Pods -> {None, "absent"}]
               /\ byUser = {} /\ answered = {} /\ spoilt = FALSE
----------------------------------------------------------------------------
(* createToken.                                                             *)
CreateToken(t) == /\ rows[t] = "none"
                  /\ rows' = [rows EXCEPT ![t] = "live"]
                  /\ answered' = answered \cup {t}
                  /\ UNCHANGED <<issue, targets, seen, secret, podKey, byUser, spoilt>>

(* A transaction holds the rows it updated until it ends.                   *)
InTx(k) == issue[k] \in {"inserted", "stored", "deleted"}
Locked(x) == \E k \in Keys : InTx(k) /\ x \in targets[k]

(* revokeToken: one statement, which waits for the row.                     *)
RevokeToken(x) == /\ rows[x] # "none"
                  /\ ~Locked(x)
                  /\ rows' = [rows EXCEPT ![x] = "revoked"]
                  /\ byUser' = IF rows[x] = "live" THEN byUser \cup {x} ELSE byUser
                  /\ UNCHANGED <<issue, targets, seen, secret, podKey, answered, spoilt>>

Goes(k, step) == issue' = [issue EXCEPT ![k] = step]

(* Mutant: the user's own tokens are revoked with the keys.                 *)
Bug_LiveKeys == {x \in All : rows[x] = "live"}
LiveKeys == {x \in Keys : rows[x] = "live"}

(* The UPDATE sees what is committed when it starts.                        *)
IssueStarts(k) == /\ issue[k] = "idle"
                  /\ Goes(k, "update")
                  /\ targets' = [targets EXCEPT ![k] = LiveKeys]
                  /\ seen' = [seen EXCEPT ![k] = LiveKeys]
                  /\ UNCHANGED <<rows, secret, podKey, byUser, answered, spoilt>>

(* It waits for rows others hold, leaves those they revoked alone, and the  *)
(* new key is inserted; neither is seen before commit.                      *)
(* Mutant: the old keys are revoked outside the transaction.                *)
Bug_Unseen(k) == rows' = [x \in All |-> IF x \in targets[k] THEN "revoked" ELSE rows[x]]
Unseen(k) == UNCHANGED rows

IssueInserts(k) == /\ issue[k] = "update"
                   /\ \A x \in targets[k] : ~Locked(x)
                   /\ Goes(k, "inserted")
                   /\ targets' = [targets EXCEPT ![k] = @ \cap LiveKeys]
                   /\ Unseen(k)
                   /\ UNCHANGED <<seen, secret, podKey, byUser, answered, spoilt>>

(* storeInferenceKey: the Secret, then the pods, all of the user's.         *)
(* Mutant: the pods first.                                                  *)
Bug_Delivers(k) == \/ /\ issue[k] = "inserted"
                      /\ Goes(k, "stored")
                      /\ podKey' = [p \in Pods |-> "absent"]
                      /\ UNCHANGED secret
                   \/ /\ issue[k] = "stored"
                      /\ Goes(k, "deleted")
                      /\ secret' = k
                      /\ UNCHANGED podKey
Delivers(k) == \/ /\ issue[k] = "inserted"
                  /\ Goes(k, "stored")
                  /\ secret' = k
                  /\ UNCHANGED podKey
               \/ /\ issue[k] = "stored"
                  /\ Goes(k, "deleted")
                  /\ podKey' = [p \in Pods |-> "absent"]
                  /\ UNCHANGED secret

StoreInferenceKey(k) == Delivers(k) /\ UNCHANGED <<rows, targets, seen, byUser, answered, spoilt>>

Commit(k) == /\ issue[k] = "deleted"
             /\ Goes(k, "over")
             /\ rows' = [x \in All |-> IF x = k THEN "live"
                                       ELSE IF x \in targets[k] THEN "revoked" ELSE rows[x]]
             /\ answered' = answered \cup {k}
             /\ spoilt' = (spoilt /\ secret # k)
             /\ UNCHANGED <<targets, seen, secret, podKey, byUser>>

(* The deferred Rollback: the database fails or the client leaves, or the   *)
(* API server refuses the Secret or to delete the pods.                     *)
Rollback(k) == /\ issue[k] \in {"update", "inserted", "stored", "deleted"}
               /\ Goes(k, "over")
               /\ spoilt' = (spoilt \/ issue[k] \in {"stored", "deleted"})
               /\ UNCHANGED <<rows, targets, seen, secret, podKey, byUser, answered>>

(* The broker starts an agent, or stops it.                                 *)
PodStarts(p) == /\ podKey[p] = "absent"
                /\ podKey' = [podKey EXCEPT ![p] = secret]
                /\ UNCHANGED <<rows, issue, targets, seen, secret, byUser, answered, spoilt>>
PodStops(p) == /\ podKey[p] # "absent"
               /\ podKey' = [podKey EXCEPT ![p] = "absent"]
               /\ UNCHANGED <<rows, issue, targets, seen, secret, byUser, answered, spoilt>>

Issuing(k) == IssueInserts(k) \/ StoreInferenceKey(k) \/ Commit(k) \/ Rollback(k)

ServiceNext == \/ \E k \in Keys : IssueStarts(k) \/ Issuing(k)
               \/ \E t \in Tokens : CreateToken(t)
               \/ \E x \in All : RevokeToken(x)
               \/ \E p \in Pods : PodStarts(p) \/ PodStops(p)

ServiceSpec == ServiceInit /\ [][ServiceNext]_serviceVars
----------------------------------------------------------------------------
AtRest == \A k \in Keys : issue[k] \in {"idle", "over"}

(* "The Secret is written before commit: if it fails, the previous key      *)
(* stays both valid and in place" (agents.go).  When nothing is being       *)
(* issued, the key the agents read was issued and told to the user, and is  *)
(* valid unless the user has revoked it: no other issue has.  This is so    *)
(* until an issue fails with the Secret written, and again once one that    *)
(* succeeds writes it.                                                      *)
AgentKeyWorks == AtRest /\ ~spoilt /\ secret # None =>
                     \/ rows[secret] = "live"
                     \/ rows[secret] = "revoked" /\ secret \in byUser

(* And every running agent has that key.                                    *)
PodsCarryKey == AtRest /\ ~spoilt => \A p \in Pods : podKey[p] \in {"absent", secret}

(* "Issuing a new one revokes the previous agent key" (pat-service.md):     *)
(* every key that was live when the issue began, though others are issued,  *)
(* revoked and rolled back meanwhile.  And nothing else is ever revoked but *)
(* by the user: no token of the user's own, and no key by an issue that     *)
(* fails, wherever it fails (agents.go: the previous key "stays valid").    *)
IssueReplaces == \A x \in All : rows[x] = "revoked" <=>
                     \/ x \in byUser
                     \/ x \in Keys /\ \E k \in Keys : rows[k] # "none" /\ x \in seen[k]
=============================================================================
