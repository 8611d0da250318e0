------------------------ MODULE CollectDialog_proofs ------------------------
(***************************************************************************)
(* Request keys, for any number of requests, keys, payloads, tabs and      *)
(* forms: what the handler's transaction makes of them, and what the       *)
(* dialog may expect of a retry.                                           *)
(***************************************************************************)
EXTENDS CollectDialog, TLAPS

USE RequestAssumption, DialogAssumption

Sent(r) == apiPc[r] # "new"

InTransaction(r) == apiPc[r] \in {"outbox", "commit"}

-----------------------------------------------------------------------------
(* What the handler keeps true of the tables.                              *)

SentRequestsHaveKeys == \A r \in Request : Sent(r) => KeyOf(r) \in Key

\* A row is committed by the last statement of its request, together with its outbox row.
RowsAreWhole == outboxed = stored /\ \A r \in stored : apiPc[r] = "done"

KeysAreUnique == \A r, s \in stored : KeyOf(r) = KeyOf(s) => r = s

\* The unique index, and the lock an open transaction has on its key.
KeysInHandAreFree ==
    \A r \in Request : InTransaction(r) =>
        /\ \A s \in stored : KeyOf(s) # KeyOf(r)
        /\ \A s \in Request : InTransaction(s) /\ KeyOf(s) = KeyOf(r) => s = r

AnswersAreSound ==
    \A r \in Request :
        /\ apiPc[r] # "done" => answer[r] = Unanswered
        /\ IsOk(r) => answer[r].task # 0
        /\ answer[r].task # 0 => answer[r].task \in stored /\ asked[answer[r].task] = asked[r]

APIInv ==
    /\ SentRequestsHaveKeys
    /\ RowsAreWhole
    /\ KeysAreUnique
    /\ KeysInHandAreFree
    /\ AnswersAreSound

-----------------------------------------------------------------------------
(* What the dialog keeps true of its keys.                                 *)

\* Forms are numbered as they are filled in, and no two tabs show the same one.
FormsAreNumbered ==
    /\ \A k \in Key : keyForm[k] <= forms
    /\ \A tab \in Tab : formOf[tab] <= forms /\ (isOpen[tab] => formOf[tab] # 0)
    /\ \A t, u \in Tab : formOf[t] = formOf[u] /\ formOf[t] # 0 => t = u

KeysHaveOneForm ==
    \A k, l \in Key : keyForm[k] = keyForm[l] /\ keyForm[k] # 0 => k = l

\* A tab without a key has not sent the form it shows.
FormsWithoutKey ==
    \A tab \in Tab : submitKey[tab] = 0 => \A k \in Key : keyForm[k] = formOf[tab] => keyForm[k] = 0

\* A key in hand was made by a dialog, and belongs to one tab only.
KeysInUse ==
    /\ \A k \in ClientKey : keyForm[k] = 0
    /\ \A tab \in Tab : submitKey[tab] # 0 => keyForm[submitKey[tab]] # 0
    /\ \A t, u \in Tab : submitKey[t] = submitKey[u] /\ submitKey[t] # 0 => t = u

SentKeysWereMade == \A r \in Request : Sent(r) => KeyOf(r) \in ClientKey \/ keyForm[KeyOf(r)] # 0

\* Whatever a key was sent with, it will be sent with again.
KeysHaveOnePayload ==
    /\ \A r, s \in Request : Sent(r) /\ Sent(s) /\ KeyOf(r) = KeyOf(s) /\ KeyOf(r) \notin ClientKey
            => asked[r].payload = asked[s].payload
    /\ \A tab \in Tab, r \in Request : Sent(r) /\ KeyOf(r) = submitKey[tab]
            => asked[r].payload = form[tab]

DialogInv ==
    /\ FormsAreNumbered
    /\ KeysHaveOneForm
    /\ FormsWithoutKey
    /\ KeysInUse
    /\ SentKeysWereMade
    /\ KeysHaveOnePayload

IInv == TypeOK /\ APIInv /\ DialogInv /\ NeverRefused

-----------------------------------------------------------------------------
(* The steps of the handler.                                               *)

LEMMA ServerLeavesDialogs ==
    ASSUME TypeOK, NEW r \in Request, ServerStep(r)
    PROVE  /\ UNCHANGED <<dialogVars, asked>>
           /\ \A s \in Request : Sent(s)' <=> Sent(s)
           /\ \A s \in Request : s # r => apiPc'[s] = apiPc[s] /\ answer'[s] = answer[s]
           /\ apiPc[r] \in {"insert", "outbox", "commit", "lookup"}
<1> USE DEF TypeOK, APITypeOK, Sent, GoOn, Reply
<1>1. CASE InsertTask(r) \/ DuplicateKey(r) \/ InsertOutbox(r)
  BY <1>1 DEF ServerStep, InsertTask, DuplicateKey, InsertOutbox
<1>2. CASE Commit(r) \/ CommitReplyLost(r)
  BY <1>2 DEF ServerStep, Commit, CommitReplyLost, CommitRows
<1>3. CASE Lookup(r) \/ Fail(r)
  BY <1>3 DEF ServerStep, Lookup, Fail
<1> QED
  BY <1>1, <1>2, <1>3 DEF ServerStep, Serve, ServerFault

LEMMA ServerKeepsTypes ==
    ASSUME TypeOK, NEW r \in Request, ServerStep(r)
    PROVE  TypeOK'
<1> USE DEF APITypeOK, GoOn, Reply
<1>1. APITypeOK' => TypeOK'
  BY ServerLeavesDialogs DEF TypeOK, dialogVars
<1>2. asked' = asked /\ APITypeOK
  BY ServerLeavesDialogs DEF TypeOK
<1>3. \A status \in {"none", "accepted", "replayed", "conflict", "failed"}, task \in Request \cup {0} :
        Reply(r, status, task) =>
            /\ apiPc' \in [Request -> {"new", "insert", "outbox", "commit", "lookup", "done"}]
            /\ answer' \in [Request -> Answer]
  BY <1>2 DEF Answer
<1>4. CASE InsertTask(r) \/ DuplicateKey(r) \/ InsertOutbox(r)
  BY <1>1, <1>2, <1>4 DEF InsertTask, DuplicateKey, InsertOutbox
<1>5. CASE Commit(r) \/ CommitReplyLost(r)
  <2>1. Reply(r, "accepted", r) \/ Reply(r, "failed", 0)
    BY <1>5 DEF Commit, CommitReplyLost
  <2>2. stored' \subseteq Request /\ outboxed' \subseteq Request
    BY <1>2, <1>5 DEF Commit, CommitReplyLost, CommitRows, OutboxesAfterCommit
  <2> HIDE DEF Reply
  <2> QED
    BY <1>1, <1>2, <1>3, <2>1, <2>2
<1>6. CASE Lookup(r) \/ Fail(r)
  <2>1. UNCHANGED <<stored, outboxed>>
    BY <1>6 DEF Lookup, Fail
  <2> HIDE DEF Reply
  <2>2. Reply(r, "conflict", 0) \/ Reply(r, "failed", 0) \/ \E s \in Request : Reply(r, "replayed", s)
    BY <1>2, <1>6 DEF Lookup, Fail
  <2> QED
    BY <1>1, <1>2, <1>3, <2>1, <2>2
<1> QED
  BY <1>4, <1>5, <1>6 DEF ServerStep, Serve, ServerFault

LEMMA ServerKeepsTables ==
    ASSUME TypeOK, APIInv, NEW r \in Request, ServerStep(r)
    PROVE  APIInv'
<1> USE DEF TypeOK, APITypeOK, Answer, Unanswered, GoOn, Reply, KeyOf, InTransaction
<1>1. /\ UNCHANGED <<dialogVars, asked>>
      /\ \A s \in Request : Sent(s)' <=> Sent(s)
      /\ \A s \in Request : s # r => apiPc'[s] = apiPc[s] /\ answer'[s] = answer[s]
      /\ apiPc[r] \in {"insert", "outbox", "commit", "lookup"}
  BY ServerLeavesDialogs
<1>2. SentRequestsHaveKeys'
  BY <1>1 DEF APIInv, SentRequestsHaveKeys
<1>3. r \notin stored
  BY <1>1 DEF APIInv, RowsAreWhole
<1>4. CASE UNCHANGED <<stored, outboxed>>
  <2>1. RowsAreWhole' /\ KeysAreUnique'
    BY <1>1, <1>3, <1>4 DEF APIInv, RowsAreWhole, KeysAreUnique
  <2>2. CASE InsertTask(r)
    <3>1. KeysInHandAreFree'
      BY <1>1, <1>4, <2>2 DEF APIInv, KeysInHandAreFree, InsertTask, KeyIsLocked, KeyIsUsed
    <3>2. AnswersAreSound'
      BY <1>1, <1>4, <2>2 DEF APIInv, AnswersAreSound, IsOk, InsertTask
    <3> QED
      BY <1>2, <2>1, <3>1, <3>2 DEF APIInv
  <2>3. CASE DuplicateKey(r) \/ InsertOutbox(r)
    <3>1. KeysInHandAreFree'
      BY <1>1, <1>4, <2>3 DEF APIInv, KeysInHandAreFree, DuplicateKey, InsertOutbox
    <3>2. AnswersAreSound'
      BY <1>1, <1>4, <2>3 DEF APIInv, AnswersAreSound, IsOk, DuplicateKey, InsertOutbox
    <3> QED
      BY <1>2, <2>1, <3>1, <3>2 DEF APIInv
  <2>4. CASE Lookup(r) \/ Fail(r)
    <3>1. KeysInHandAreFree'
      BY <1>1, <1>4, <2>4 DEF APIInv, KeysInHandAreFree, Lookup, Fail
    <3>2. AnswersAreSound'
      <4>1. CASE Fail(r)
        BY <1>1, <1>4, <4>1 DEF APIInv, AnswersAreSound, IsOk, Fail
      <4>2. ASSUME NEW s \in stored, KeyOf(s) = KeyOf(r), SameRequest(r, s), Reply(r, "replayed", s)
            PROVE  AnswersAreSound'
        <5>1. asked[s] = asked[r]
          BY <4>2 DEF SameRequest
        <5> QED
          BY <1>1, <1>4, <4>2, <5>1 DEF APIInv, AnswersAreSound, IsOk
      <4>3. CASE Reply(r, "conflict", 0)
        BY <1>1, <1>4, <4>3 DEF APIInv, AnswersAreSound, IsOk
      <4> QED
        BY <2>4, <4>1, <4>2, <4>3 DEF Lookup
    <3> QED
      BY <1>2, <2>1, <3>1, <3>2 DEF APIInv
  <2>5. CASE CommitRows(r)
    BY <1>3, <1>4, <2>5 DEF CommitRows
  <2> QED
    BY <2>2, <2>3, <2>4, <2>5 DEF ServerStep, Serve, ServerFault, Commit, CommitReplyLost
<1>5. CASE CommitRows(r) /\ (Commit(r) \/ CommitReplyLost(r))
  <2>1. /\ apiPc[r] = "commit" /\ apiPc'[r] = "done"
        /\ stored' = stored \cup {r} /\ outboxed' = outboxed \cup {r}
    BY <1>5 DEF CommitRows, OutboxesAfterCommit, Commit, CommitReplyLost
  <2>2. RowsAreWhole'
    BY <1>1, <2>1 DEF APIInv, RowsAreWhole
  <2>3. KeysAreUnique'
    <3>1. \A s \in stored : KeyOf(s) # KeyOf(r)
      BY <2>1 DEF APIInv, KeysInHandAreFree
    <3> HIDE DEF TypeOK, APITypeOK, GoOn, Reply
    <3> QED
      BY <1>1, <2>1, <3>1 DEF APIInv, KeysAreUnique
  <2>4. KeysInHandAreFree'
    <3> stored \subseteq Request
      OBVIOUS
    <3> HIDE DEF TypeOK, APITypeOK, GoOn, Reply
    <3> QED
      BY <1>1, <2>1 DEF APIInv, KeysInHandAreFree
  <2>5. AnswersAreSound'
    BY <1>1, <1>5, <2>1 DEF APIInv, AnswersAreSound, IsOk, Commit, CommitReplyLost
  <2> QED
    BY <1>2, <2>2, <2>3, <2>4, <2>5 DEF APIInv
<1> QED
  BY <1>4, <1>5 DEF ServerStep, Serve, ServerFault, InsertTask, DuplicateKey, InsertOutbox,
     Lookup, Fail, Commit, CommitReplyLost

\* Only a used key with another payload is refused.
LEMMA ServerRefusesOthers ==
    ASSUME IInv, NEW r \in Request, ServerStep(r)
    PROVE  NeverRefused'
<1> USE DEF IInv, TypeOK, APITypeOK, Answer, Unanswered, GoOn, Reply, KeyOf, NeverRefused
<1>1. /\ UNCHANGED <<dialogVars, asked>>
      /\ \A s \in Request : s # r => answer'[s] = answer[s]
      /\ apiPc[r] \in {"insert", "outbox", "commit", "lookup"}
  BY ServerLeavesDialogs
<1>2. answer[r] = Unanswered
  BY <1>1 DEF APIInv, AnswersAreSound, IsOk
<1>3. CASE Lookup(r)
  <2>1. PICK s \in stored :
          /\ KeyOf(s) = KeyOf(r)
          /\ IF SameRequest(r, s) THEN Reply(r, "replayed", s) ELSE Reply(r, "conflict", 0)
    BY <1>3 DEF Lookup
  <2>2. Sent(r) /\ Sent(s)
    BY <1>1 DEF Sent, APIInv, RowsAreWhole
  <2>3. KeyOf(r) \in ClientKey \/ SameRequest(r, s)
    BY <2>1, <2>2 DEF DialogInv, KeysHaveOnePayload, SameRequest
  <2> QED
    BY <1>1, <2>1, <2>3
<1>4. CASE InsertTask(r) \/ DuplicateKey(r) \/ InsertOutbox(r)
  BY <1>1, <1>2, <1>4 DEF InsertTask, DuplicateKey, InsertOutbox
<1>5. CASE Commit(r) \/ CommitReplyLost(r) \/ Fail(r)
  BY <1>1, <1>5 DEF Commit, CommitReplyLost, Fail
<1> QED
  BY <1>3, <1>4, <1>5 DEF ServerStep, Serve, ServerFault

LEMMA ServerKeepsKeys ==
    ASSUME IInv, NEW r \in Request, ServerStep(r)
    PROVE  DialogInv'
<1>1. /\ UNCHANGED <<dialogVars, asked>>
      /\ \A s \in Request : Sent(s)' <=> Sent(s)
  BY ServerLeavesDialogs DEF IInv
<1> QED
  BY <1>1 DEF IInv, DialogInv, FormsAreNumbered, KeysHaveOneForm, FormsWithoutKey, KeysInUse,
     SentKeysWereMade, KeysHaveOnePayload, dialogVars, KeyOf

-----------------------------------------------------------------------------
(* The steps of users.                                                     *)

\* A request that is sent under a key of its own, or under one that is used again, changes
\* nothing about the rows and the answers.
LEMMA SendKeepsTables ==
    ASSUME TypeOK, APIInv, NeverRefused,
           NEW r \in Request, NEW key \in Key, NEW payload, Send(r, key, payload)
    PROVE  /\ APIInv' /\ NeverRefused'
           /\ \A s \in Request : Sent(s)' <=> Sent(s) \/ s = r
           /\ \A s \in Request : s # r => asked'[s] = asked[s]
           /\ asked'[r].key = key /\ asked'[r].payload = payload /\ ~Sent(r)
<1> USE DEF TypeOK, APITypeOK, Sent, KeyOf, Send
<1>1. /\ \A s \in Request : Sent(s)' <=> Sent(s) \/ s = r
      /\ \A s \in Request : s # r => asked'[s] = asked[s] /\ apiPc'[s] = apiPc[s]
      /\ asked'[r].key = key /\ asked'[r].payload = payload /\ ~Sent(r)
      /\ apiPc'[r] = "insert"
      /\ UNCHANGED <<answer, stored, outboxed>>
  OBVIOUS
<1>2. r \notin stored /\ answer[r] = Unanswered /\ answer[r].task = 0 /\ answer[r].status = "none"
  BY DEF APIInv, RowsAreWhole, AnswersAreSound, Unanswered
<1> stored \subseteq Request
  OBVIOUS
<1> HIDE DEF Send, TypeOK, APITypeOK
<1>3. SentRequestsHaveKeys'
  BY <1>1 DEF APIInv, SentRequestsHaveKeys
<1>4. RowsAreWhole'
  BY <1>1, <1>2 DEF APIInv, RowsAreWhole
<1>5. KeysAreUnique'
  BY <1>1, <1>2 DEF APIInv, KeysAreUnique
<1>6. KeysInHandAreFree'
  BY <1>1, <1>2 DEF APIInv, KeysInHandAreFree, InTransaction
<1>7. AnswersAreSound'
  <2> SUFFICES ASSUME NEW s \in Request
               PROVE  /\ apiPc'[s] # "done" => answer[s] = Unanswered
                      /\ IsOk(s) => answer[s].task # 0
                      /\ answer[s].task # 0 =>
                            answer[s].task \in stored /\ asked'[answer[s].task] = asked'[s]
    BY <1>1 DEF AnswersAreSound, IsOk
  <2>1. CASE s = r
    BY <1>2, <2>1 DEF IsOk
  <2>2. CASE s # r
    BY <1>1, <1>2, <2>2 DEF APIInv, AnswersAreSound
  <2> QED
    BY <2>1, <2>2
<1>8. NeverRefused'
  <2> SUFFICES ASSUME NEW s \in Request, answer'[s].status = "conflict"
               PROVE  asked'[s].key \in ClientKey
    BY DEF NeverRefused
  <2>1. s # r /\ KeyOf(s) \in ClientKey
    BY <1>1, <1>2 DEF NeverRefused
  <2> QED
    BY <1>1, <2>1
<1> QED
  BY <1>1, <1>3, <1>4, <1>5, <1>6, <1>7, <1>8 DEF APIInv

LEMMA SendKeepsTypes ==
    ASSUME APITypeOK, NEW r \in Request, NEW key \in Key, NEW payload \in Payload \cup {0},
           Send(r, key, payload)
    PROVE  APITypeOK'
BY DEF APITypeOK, Send

LEMMA TablesWithoutRequest ==
    ASSUME IInv, UNCHANGED apiVars
    PROVE  APITypeOK' /\ APIInv' /\ NeverRefused'
BY DEF IInv, TypeOK, APITypeOK, apiVars, APIInv, NeverRefused, SentRequestsHaveKeys, RowsAreWhole,
   KeysAreUnique, KeysInHandAreFree, AnswersAreSound, IsOk, InTransaction, KeyOf, Sent

\* A dialog shows a form that no key was made for.
LEMMA NewForm ==
    ASSUME IInv, NEW tab \in Tab, NEW payload \in Payload, FillIn(tab, payload),
           submitKey' = [submitKey EXCEPT ![tab] = 0],
           isOpen' = [isOpen EXCEPT ![tab] = TRUE] \/ isOpen' = isOpen,
           error' \in [Tab -> BOOLEAN],
           UNCHANGED <<apiVars, inFlight, pending, keyForm>>
    PROVE  IInv'
<1>1. APITypeOK' /\ isOpen' \in [Tab -> BOOLEAN]
  BY TablesWithoutRequest DEF IInv, TypeOK
<1>2. /\ forms' \in 0 .. MaxForms /\ formOf' \in [Tab -> 0 .. MaxForms]
      /\ keyForm' \in [Key -> 0 .. MaxForms] /\ form' \in [Tab -> Payload \cup {0}]
      /\ submitKey' \in [Tab -> Key \cup {0}]
  BY DEF IInv, TypeOK, FillIn
<1>3. TypeOK'
  BY <1>1, <1>2 DEF IInv, TypeOK
<1> USE DEF IInv, TypeOK, FillIn
<1>4. UNCHANGED <<keyForm, apiPc, asked>>
  BY DEF apiVars
<1>5. FormsAreNumbered'
  BY <1>4 DEF DialogInv, FormsAreNumbered
<1>6. KeysHaveOneForm' /\ SentKeysWereMade'
  BY <1>4 DEF DialogInv, KeysHaveOneForm, SentKeysWereMade, Sent, KeyOf
<1>7. FormsWithoutKey'
  BY <1>4 DEF DialogInv, FormsWithoutKey, FormsAreNumbered
<1>8. KeysInUse'
  BY <1>4 DEF DialogInv, KeysInUse
<1>9. KeysHaveOnePayload'
  BY <1>4 DEF DialogInv, KeysHaveOnePayload, Sent, KeyOf, APIInv, SentRequestsHaveKeys
<1> QED
  BY <1>3, <1>5, <1>6, <1>7, <1>8, <1>9, TablesWithoutRequest DEF DialogInv

\* The dialog closes, or an answer comes or does not: the form and the keys stay as they are.
LEMMA SameForm ==
    ASSUME IInv, TypeOK',
           UNCHANGED <<apiVars, form, submitKey, forms, formOf, keyForm>>,
           \A tab \in Tab : isOpen'[tab] => isOpen[tab]
    PROVE  IInv'
<1>1. DialogInv'
  BY DEF IInv, DialogInv, FormsAreNumbered, KeysHaveOneForm, FormsWithoutKey, KeysInUse,
     SentKeysWereMade, KeysHaveOnePayload, apiVars, KeyOf, Sent
<1> QED
  BY <1>1, TablesWithoutRequest DEF IInv

LEMMA ClientKeepsInv ==
    ASSUME IInv, NEW r \in Request, NEW key \in Key, NEW payload \in Payload,
           ClientPost(r, key, payload)
    PROVE  IInv'
<1>1. key \in ClientKey /\ Send(r, key, payload) /\ UNCHANGED dialogVars
  BY DEF ClientPost
<1>2. /\ APIInv' /\ NeverRefused'
      /\ \A s \in Request : Sent(s)' <=> Sent(s) \/ s = r
      /\ \A s \in Request : s # r => asked'[s] = asked[s]
      /\ asked'[r].key = key /\ ~Sent(r)
  BY <1>1, SendKeepsTables DEF IInv
<1>3. TypeOK'
  BY <1>1, SendKeepsTypes DEF IInv, TypeOK, dialogVars
<1> USE <1>1 DEF dialogVars, IInv, DialogInv
<1>4. FormsAreNumbered' /\ KeysHaveOneForm' /\ FormsWithoutKey' /\ KeysInUse'
  BY DEF FormsAreNumbered, KeysHaveOneForm, FormsWithoutKey, KeysInUse
<1>5. SentKeysWereMade'
  BY <1>2 DEF SentKeysWereMade, KeyOf
<1>6. \A tab \in Tab : submitKey[tab] # key
  BY DEF KeysInUse, TypeOK
<1>7. KeysHaveOnePayload'
  BY <1>2, <1>6 DEF KeysHaveOnePayload, KeyOf
<1> QED
  BY <1>2, <1>3, <1>4, <1>5, <1>7

LEMMA SubmitKeepsInv ==
    ASSUME IInv, NEW tab \in Tab, NEW r \in Request, NEW key \in Key, Submit(tab, r, key)
    PROVE  IInv'
<1>1. /\ Send(r, key, form[tab]) /\ isOpen[tab]
      /\ submitKey' = [submitKey EXCEPT ![tab] = key]
      /\ UNCHANGED <<isOpen, form, forms, formOf>>
  BY DEF Submit
<1>2. /\ APIInv' /\ NeverRefused'
      /\ \A s \in Request : Sent(s)' <=> Sent(s) \/ s = r
      /\ \A s \in Request : s # r => asked'[s] = asked[s]
      /\ asked'[r].key = key /\ asked'[r].payload = form[tab] /\ ~Sent(r)
  BY <1>1, SendKeepsTables DEF IInv
<1>3. form[tab] \in Payload \cup {0} /\ APITypeOK'
  BY <1>1, SendKeepsTypes DEF IInv, TypeOK
<1>4. TypeOK'
  BY <1>3 DEF IInv, TypeOK, Submit, UsesKey
<1> USE DEF IInv, DialogInv, TypeOK
<1>5. CASE submitKey[tab] = key /\ UNCHANGED keyForm
  <2>1. UNCHANGED submitKey
    BY <1>1, <1>5
  <2>2. FormsAreNumbered' /\ KeysHaveOneForm' /\ FormsWithoutKey' /\ KeysInUse'
    BY <1>1, <1>5, <2>1 DEF FormsAreNumbered, KeysHaveOneForm, FormsWithoutKey, KeysInUse
  <2>3. SentKeysWereMade'
    <3>1. keyForm[key] # 0
      BY <1>5 DEF KeysInUse
    <3> QED
      BY <1>2, <1>5, <3>1 DEF SentKeysWereMade, KeyOf
  <2>4. \A t \in Tab : submitKey[t] = key => t = tab
    BY <1>5 DEF KeysInUse
  <2>5. KeysHaveOnePayload'
    BY <1>1, <1>2, <1>5, <2>1, <2>4 DEF KeysHaveOnePayload, KeyOf
  <2> QED
    BY <1>2, <1>4, <2>2, <2>3, <2>5
<1>6. CASE /\ submitKey[tab] = 0
           /\ key \in Key \ ClientKey /\ keyForm[key] = 0
           /\ keyForm' = [keyForm EXCEPT ![key] = formOf[tab]]
  <2>1. formOf[tab] # 0 /\ formOf[tab] \in Nat
    BY <1>1 DEF FormsAreNumbered
  <2>2. \A k \in Key : keyForm[k] # formOf[tab]
    BY <1>6, <2>1 DEF FormsWithoutKey
  <2>3. /\ keyForm'[key] = formOf[tab]
        /\ \A k \in Key : k # key => keyForm'[k] = keyForm[k]
    BY <1>6
  <2>4. FormsAreNumbered'
    BY <1>1, <2>3 DEF FormsAreNumbered
  <2>5. KeysHaveOneForm'
    BY <2>2, <2>3 DEF KeysHaveOneForm
  <2>6. FormsWithoutKey'
    BY <1>1, <2>1, <2>3 DEF FormsWithoutKey, FormsAreNumbered
  <2>7. \A t \in Tab : submitKey[t] # key
    BY <1>6 DEF KeysInUse
  <2>8. KeysInUse'
    BY <1>1, <1>6, <2>1, <2>3, <2>7 DEF KeysInUse
  <2>9. \A s \in Request : Sent(s) => KeyOf(s) # key
    BY <1>6 DEF SentKeysWereMade
  <2>10. SentKeysWereMade'
    BY <1>2, <2>1, <2>3 DEF SentKeysWereMade, KeyOf, APIInv, SentRequestsHaveKeys
  <2>11. KeysHaveOnePayload'
    BY <1>1, <1>2, <2>7, <2>9 DEF KeysHaveOnePayload, KeyOf
  <2> QED
    BY <1>2, <1>4, <2>4, <2>5, <2>6, <2>8, <2>10, <2>11
<1> QED
  BY <1>5, <1>6 DEF Submit, UsesKey

-----------------------------------------------------------------------------
LEMMA StepsKeepInv == IInv /\ [Next]_vars => IInv'
<1> SUFFICES ASSUME IInv, [Next]_vars
             PROVE  IInv'
  OBVIOUS
<1>1. ASSUME NEW tab \in Tab, NEW payload \in Payload, OpenCollect(tab, payload)
      PROVE  IInv'
  <2>1. error' \in [Tab -> BOOLEAN]
    BY <1>1 DEF OpenCollect, IInv, TypeOK
  <2> QED
    BY <1>1, <2>1, NewForm DEF OpenCollect
<1>2. ASSUME NEW tab \in Tab, NEW payload \in Payload, Edit(tab, payload)
      PROVE  IInv'
  <2>1. error' \in [Tab -> BOOLEAN]
    BY <1>2 DEF Edit, IInv, TypeOK
  <2> QED
    BY <1>2, <2>1, NewForm DEF Edit, KeyAfterEdit
<1>3. ASSUME NEW tab \in Tab, CloseDialog(tab)
      PROVE  IInv'
  <2>1. TypeOK' /\ \A t \in Tab : isOpen'[t] => isOpen[t]
    BY <1>3, TablesWithoutRequest DEF CloseDialog, IInv, TypeOK
  <2> QED
    BY <1>3, <2>1, SameForm DEF CloseDialog
<1>4. ASSUME NEW tab \in Tab, NEW r \in Request, NEW key \in Key, Submit(tab, r, key)
      PROVE  IInv'
  BY <1>4, SubmitKeepsInv
<1>5. ASSUME NEW tab \in Tab, NEW r \in Request, Confirmed(tab, r)
      PROVE  IInv'
  <2>1. answer[r].task \in stored
    <3>1. answer[r].task # 0
      BY <1>5 DEF Confirmed, IsOk, IInv, APIInv, AnswersAreSound
    <3> QED
      BY <3>1 DEF IInv, APIInv, AnswersAreSound
  <2>2. answer[r].task \in Request
    BY <2>1 DEF IInv, TypeOK, APITypeOK
  <2>3. isOpen' \in [Tab -> BOOLEAN] /\ \A t \in Tab : isOpen'[t] => isOpen[t]
    BY <1>5 DEF Confirmed, IInv, TypeOK
  <2>4. TypeOK'
    <3>1. APITypeOK'
      BY <1>5, TablesWithoutRequest DEF Confirmed
    <3>2. pending' \in [Tab -> SUBSET Request] /\ inFlight' \in [Tab -> Request \cup {0}]
      BY <1>5, <2>2 DEF Confirmed, IInv, TypeOK
    <3> QED
      BY <1>5, <2>3, <3>1, <3>2 DEF Confirmed, IInv, TypeOK
  <2> QED
    BY <1>5, <2>3, <2>4, SameForm DEF Confirmed
<1>6. ASSUME NEW tab \in Tab, NEW r \in Request, Unconfirmed(tab, r)
      PROVE  IInv'
  <2>1. UNCHANGED submitKey
    BY <1>6 DEF Unconfirmed, KeyAfterError, IInv, TypeOK
  <2>2. TypeOK'
    BY <1>6, <2>1, TablesWithoutRequest DEF Unconfirmed, IInv, TypeOK
  <2> QED
    BY <1>6, <2>1, <2>2, SameForm DEF Unconfirmed
<1>7. ASSUME NEW r \in Request, NEW key \in Key, NEW payload \in Payload, ClientPost(r, key, payload)
      PROVE  IInv'
  BY <1>7, ClientKeepsInv
<1>8. ASSUME NEW r \in Request, ServerStep(r)
      PROVE  IInv'
  BY <1>8, ServerKeepsTypes, ServerKeepsTables, ServerKeepsKeys, ServerRefusesOthers DEF IInv
<1>9. CASE UNCHANGED vars
  <2>1. TypeOK'
    BY <1>9, TablesWithoutRequest DEF vars, dialogVars, IInv, TypeOK
  <2> QED
    BY <1>9, <2>1, SameForm DEF vars, dialogVars
<1> QED
  BY <1>1, <1>2, <1>3, <1>4, <1>5, <1>6, <1>7, <1>8, <1>9 DEF Next

LEMMA InitSatisfiesInv == Init => IInv
<1> SUFFICES ASSUME Init
             PROVE  IInv
  OBVIOUS
<1> USE DEF Init, APIInit, Unanswered
<1>1. TypeOK
  BY DEF TypeOK, APITypeOK, Answer
<1>2. APIInv
  BY DEF APIInv, SentRequestsHaveKeys, RowsAreWhole, KeysAreUnique, KeysInHandAreFree,
     AnswersAreSound, IsOk, Sent, InTransaction
<1>3. DialogInv
  BY DEF DialogInv, FormsAreNumbered, KeysHaveOneForm, FormsWithoutKey, KeysInUse,
     SentKeysWereMade, KeysHaveOnePayload, Sent
<1>4. NeverRefused
  BY DEF NeverRefused
<1> QED
  BY <1>1, <1>2, <1>3, <1>4 DEF IInv

\* The inductive invariant, for any number of requests, tabs and forms.
THEOREM InductiveInvariant == Spec => []IInv
<1> QED
  BY InitSatisfiesInv, StepsKeepInv, PTL DEF Spec

\* Every variable of the API and the dialog keeps its type.
THEOREM TypeCorrect == Spec => []TypeOK
<1>1. IInv => TypeOK
  BY DEF IInv
<1> QED
  BY <1>1, InductiveInvariant, PTL

\* A request key names one task for ever (request_key is unique, and ErrDuplicatedKey leads to
\* the row that has it).
THEOREM KeysNameOneTask == Spec => []AnswersAgree
<1>1. IInv => AnswersAgree
  <2> SUFFICES ASSUME IInv,
                      NEW r \in Request, NEW s \in Request,
                      answer[r].task # 0, answer[s].task # 0, KeyOf(r) = KeyOf(s)
               PROVE  answer[r].task = answer[s].task
    BY DEF AnswersAgree
  <2>1. /\ answer[r].task \in stored /\ KeyOf(answer[r].task) = KeyOf(r)
        /\ answer[s].task \in stored /\ KeyOf(answer[s].task) = KeyOf(s)
    BY DEF IInv, APIInv, AnswersAreSound, KeyOf
  <2> QED
    BY <2>1 DEF IInv, APIInv, KeysAreUnique
<1> QED
  BY <1>1, InductiveInvariant, PTL

\* A task that a client is told of is the one it asked for, committed with its outbox row.
THEOREM AnsweredTasksAreCommitted == Spec => []AnswersAreDurable
<1>1. IInv => AnswersAreDurable
  BY DEF IInv, APIInv, AnswersAreSound, IsOk, RowsAreWhole, AnswersAreDurable
<1> QED
  BY <1>1, InductiveInvariant, PTL

\* A form that is submitted again and again becomes one task at most.
THEOREM FormsBecomeOneTask == Spec => []OneTaskPerForm
<1>1. IInv => OneTaskPerForm
  <2> SUFFICES ASSUME IInv,
                      NEW r \in stored, NEW s \in stored,
                      keyForm[KeyOf(r)] # 0, keyForm[KeyOf(r)] = keyForm[KeyOf(s)]
               PROVE  r = s
    BY DEF OneTaskPerForm
  <2>1. r \in Request /\ s \in Request /\ Sent(r) /\ Sent(s)
    BY DEF IInv, TypeOK, APITypeOK, APIInv, RowsAreWhole, Sent
  <2>2. KeyOf(r) \in Key /\ KeyOf(s) \in Key
    BY <2>1 DEF IInv, APIInv, SentRequestsHaveKeys
  <2> QED
    BY <2>2 DEF IInv, APIInv, DialogInv, KeysHaveOneForm, KeysAreUnique
<1> QED
  BY <1>1, InductiveInvariant, PTL

\* The workbench is never answered that its key was used for another request.
THEOREM DialogsAreNotRefused == Spec => []NeverRefused
<1>1. IInv => NeverRefused
  BY DEF IInv
<1> QED
  BY <1>1, InductiveInvariant, PTL

\* The handler implements the acceptance that the pipeline starts from: its tables move by
\* whole acceptances, whatever fails and whichever replies are lost.
THEOREM HandlerImplementsAcceptance == Spec => CommitsAreAcceptances
<1>1. Init => Store!StoreInit
  BY DEF Init, APIInit, Store!StoreInit, Store!NoRow
<1>2. ASSUME IInv, [Next]_vars
      PROVE  [\E r \in Request : Store!CreateQueuedCrawlTaskWithOutbox(r)]_(Store!storeVars)
  <2>1. CASE UNCHANGED <<stored, outboxed>>
    BY <2>1 DEF Store!storeVars
  <2>2. ASSUME NEW r \in Request, CommitRows(r)
        PROVE  Store!CreateQueuedCrawlTaskWithOutbox(r)
    <3>1. r \notin stored
      BY <1>2, <2>2 DEF CommitRows, IInv, APIInv, RowsAreWhole
    <3>2. stored' = stored \cup {r} /\ outboxed' = outboxed \cup {r}
      BY <2>2 DEF CommitRows, OutboxesAfterCommit
    <3> QED
      BY <3>1, <3>2 DEF Store!CreateQueuedCrawlTaskWithOutbox
  <2>3. CASE \E r \in Request : ServerStep(r)
    BY <2>1, <2>2, <2>3 DEF ServerStep, Serve, ServerFault, InsertTask, DuplicateKey,
       InsertOutbox, Commit, CommitReplyLost, Lookup, Fail, GoOn
  <2>4. CASE Next /\ ~ \E r \in Request : ServerStep(r)
    BY <2>1, <2>4 DEF Next, OpenCollect, Edit, CloseDialog, Submit, Confirmed, Unconfirmed,
       ClientPost, Send, apiVars
  <2> QED
    BY <1>2, <2>1, <2>3, <2>4 DEF vars, apiVars
<1> QED
  BY <1>1, <1>2, InductiveInvariant, PTL DEF Spec, CommitsAreAcceptances

=============================================================================
