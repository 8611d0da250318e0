---------------------------- MODULE CollectDialog ----------------------------
(***************************************************************************)
(* The workbench's collect dialog (web/assets/app.js) against the task     *)
(* API.  A submission sends the form under a request key that is kept for  *)
(* a retry after an error, and thrown away by openCollect and by every     *)
(* edit.  The dialog can be edited, closed and opened while a submission   *)
(* is in flight; only the submit button is disabled then.  Other clients   *)
(* of the API choose their keys themselves.                                *)
(*                                                                         *)
(* Bounds: Request bounds the requests, MaxForms the forms filled in.      *)
(***************************************************************************)
EXTENDS TaskAPI

CONSTANTS
    Tab,        \* browser tabs
    ClientKey,  \* the keys other clients use; crypto.randomUUID never returns one of them
    MaxForms    \* openings and edits of all tabs together

ASSUME DialogAssumption == ClientKey \subseteq Key /\ MaxForms \in Nat

VARIABLES
    isOpen,     \* the dialog is shown
    form,       \* the payload filled in, 0 before the first
    submitKey,  \* state.submitKey, 0 for null
    inFlight,   \* the request the tab waits for, 0 for none (the button is disabled)
    error,      \* "submission not confirmed ... a retry will use the same request number"
    pending,    \* state.pending: the tasks the tab watches
    forms,      \* history: how many forms were filled in
    formOf,     \* history: the form a tab shows
    keyForm     \* history: the form a key was made for, 0 for a key not made yet

dialogVars == <<isOpen, form, submitKey, inFlight, error, pending, forms, formOf, keyForm>>
vars == <<apiVars, dialogVars>>

TypeOK ==
    /\ APITypeOK
    /\ isOpen \in [Tab -> BOOLEAN]
    /\ form \in [Tab -> Payload \cup {0}]
    /\ submitKey \in [Tab -> Key \cup {0}]
    /\ inFlight \in [Tab -> Request \cup {0}]
    /\ error \in [Tab -> BOOLEAN]
    /\ pending \in [Tab -> SUBSET Request]
    /\ forms \in 0 .. MaxForms
    /\ formOf \in [Tab -> 0 .. MaxForms]
    /\ keyForm \in [Key -> 0 .. MaxForms]

Init ==
    /\ APIInit
    /\ isOpen = [tab \in Tab |-> FALSE]
    /\ form = [tab \in Tab |-> 0]
    /\ submitKey = [tab \in Tab |-> 0]
    /\ inFlight = [tab \in Tab |-> 0]
    /\ error = [tab \in Tab |-> FALSE]
    /\ pending = [tab \in Tab |-> {}]
    /\ forms = 0
    /\ formOf = [tab \in Tab |-> 0]
    /\ keyForm = [k \in Key |-> 0]

-----------------------------------------------------------------------------
FillIn(tab, payload) ==
    /\ forms < MaxForms
    /\ forms' = forms + 1
    /\ formOf' = [formOf EXCEPT ![tab] = forms']
    /\ form' = [form EXCEPT ![tab] = payload]

\* openCollect: the rule in view fills the form.
OpenCollect(tab, payload) ==
    /\ ~isOpen[tab]
    /\ FillIn(tab, payload)
    /\ isOpen' = [isOpen EXCEPT ![tab] = TRUE]
    /\ submitKey' = [submitKey EXCEPT ![tab] = 0]
    /\ error' = [error EXCEPT ![tab] = FALSE]
    /\ UNCHANGED <<apiVars, inFlight, pending, keyForm>>

\* Mutation: an edit keeps the request key.
KeyAfterEdit_Kept(tab) == submitKey[tab]

KeyAfterEdit(tab) == 0

\* The rule is changed (updateCollectRule) or the URL typed over.
Edit(tab, payload) ==
    /\ isOpen[tab] /\ payload # form[tab]
    /\ FillIn(tab, payload)
    /\ submitKey' = [submitKey EXCEPT ![tab] = KeyAfterEdit(tab)]
    /\ UNCHANGED <<apiVars, isOpen, inFlight, error, pending, keyForm>>

CloseDialog(tab) ==
    /\ isOpen[tab]
    /\ isOpen' = [isOpen EXCEPT ![tab] = FALSE]
    /\ UNCHANGED <<apiVars, form, submitKey, inFlight, error, pending, forms, formOf, keyForm>>

\* state.submitKey ??= crypto.randomUUID().
UsesKey(tab, key) ==
    \/ submitKey[tab] = key /\ key # 0 /\ UNCHANGED keyForm
    \/ /\ submitKey[tab] = 0
       /\ key \in Key \ ClientKey /\ keyForm[key] = 0
       /\ keyForm' = [keyForm EXCEPT ![key] = formOf[tab]]

Submit(tab, r, key) ==
    /\ isOpen[tab] /\ inFlight[tab] = 0
    /\ UsesKey(tab, key)
    /\ Send(r, key, form[tab])
    /\ submitKey' = [submitKey EXCEPT ![tab] = key]
    /\ inFlight' = [inFlight EXCEPT ![tab] = r]
    /\ error' = [error EXCEPT ![tab] = FALSE]
    /\ UNCHANGED <<isOpen, form, pending, forms, formOf>>

\* response.ok: the answer names a task.
IsOk(r) == answer[r].status \in {"accepted", "replayed"}

\* The dialog closes, whatever it shows by now, and the task is watched.
Confirmed(tab, r) ==
    /\ inFlight[tab] = r /\ IsOk(r)
    /\ isOpen' = [isOpen EXCEPT ![tab] = FALSE]
    /\ pending' = [pending EXCEPT ![tab] = @ \cup {answer[r].task}]
    /\ inFlight' = [inFlight EXCEPT ![tab] = 0]
    /\ UNCHANGED <<apiVars, form, submitKey, error, forms, formOf, keyForm>>

\* Mutation: an error throws the key away.
KeyAfterError_Dropped(tab) == 0

KeyAfterError(tab) == submitKey[tab]

\* The answer is an error, or 20 seconds passed without one: the handler may still be running,
\* or its answer may be lost.
Unconfirmed(tab, r) ==
    /\ inFlight[tab] = r
    /\ error' = [error EXCEPT ![tab] = TRUE]
    /\ submitKey' = [submitKey EXCEPT ![tab] = KeyAfterError(tab)]
    /\ inFlight' = [inFlight EXCEPT ![tab] = 0]
    /\ UNCHANGED <<apiVars, isOpen, form, pending, forms, formOf, keyForm>>

\* A request of another client.
ClientPost(r, key, payload) ==
    /\ key \in ClientKey
    /\ Send(r, key, payload)
    /\ UNCHANGED dialogVars

ServerStep(r) == (Serve(r) \/ ServerFault(r)) /\ UNCHANGED dialogVars

Next ==
    \/ \E tab \in Tab, payload \in Payload : OpenCollect(tab, payload) \/ Edit(tab, payload)
    \/ \E tab \in Tab : CloseDialog(tab)
    \/ \E tab \in Tab, r \in Request, key \in Key : Submit(tab, r, key)
    \/ \E tab \in Tab, r \in Request : Confirmed(tab, r) \/ Unconfirmed(tab, r)
    \/ \E r \in Request, key \in Key, payload \in Payload : ClientPost(r, key, payload)
    \/ \E r \in Request : ServerStep(r)

Spec == Init /\ [][Next]_vars

\* net/http runs every handler, whose calls return, and InnoDB lets the transactions that wait
\* for a key go on once it is free.  Users owe nothing, nor do faults: no client needs to give up
\* for another to be served.
FairSpec == Spec /\ \A r \in Request : WF_vars(Serve(r) /\ UNCHANGED dialogVars)

-----------------------------------------------------------------------------
\* A request key names one task for ever: whatever requests were answered with a task under a
\* key, concurrently or after lost replies, were answered with the same one (the unique index
\* and the lookup after ErrDuplicatedKey).
AnswersAgree ==
    \A r, s \in Request :
        answer[r].task # 0 /\ answer[s].task # 0 /\ KeyOf(r) = KeyOf(s)
            => answer[r].task = answer[s].task

\* The task of an answer is the one asked for, and it is committed with its outbox row: what the
\* client is told to watch will be published.
AnswersAreDurable ==
    \A r \in Request : answer[r].task # 0 =>
        /\ answer[r].task \in stored \cap outboxed
        /\ asked[answer[r].task] = asked[r]

\* However often a form is submitted again after errors and lost answers, it becomes one task
\* at most (submitKey is kept for the retry, and the API replays).
OneTaskPerForm ==
    \A r, s \in stored :
        keyForm[KeyOf(r)] # 0 /\ keyForm[KeyOf(r)] = keyForm[KeyOf(s)] => r = s

\* The workbench is never told that its key was used for something else: an edit made a new key.
NeverRefused ==
    \A r \in Request : KeyOf(r) \notin ClientKey => answer[r].status # "conflict"

\* A handler never hangs, though transactions wait for each other's keys.
EveryRequestIsAnswered == \A r \in Request : apiPc[r] # "new" ~> apiPc[r] = "done"

\* The message an error puts up, "a retry will use the same request number": as long as the
\* dialog shows the payload that was sent, the next submission goes out under the key it was
\* sent under.
RetryKeepsKey ==
    [][\A tab \in Tab, r \in Request :
        Unconfirmed(tab, r) /\ isOpen[tab] /\ form[tab] = asked[r].payload
            => submitKey'[tab] = KeyOf(r)]_vars

-----------------------------------------------------------------------------
(* The handler implements the acceptance the pipeline starts from.         *)

Store == INSTANCE TaskStore WITH
    Task      <- Request,
    tasks     <- [r \in Request |-> [status     |-> IF r \in stored THEN "queued" ELSE "absent",
                                    runToken   |-> 0,
                                    lease      |-> "none",
                                    retryCount |-> 0]],
    outboxes  <- outboxed,
    messageID <- [r \in Request |-> 0],
    results   <- [r \in Request |-> 0],
    nextToken <- 1

\* Whatever the requests, their failures and their lost replies, the tables move by whole
\* acceptances: a queued task and its outbox row at once.
CommitsAreAcceptances ==
    /\ Store!StoreInit
    /\ [][\E r \in Request : Store!CreateQueuedCrawlTaskWithOutbox(r)]_(Store!storeVars)

=============================================================================
