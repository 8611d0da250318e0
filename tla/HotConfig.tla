------------------------------ MODULE HotConfig ------------------------------
(***************************************************************************)
(* The configuration that a process keeps in memory (internal/config/      *)
(* config.go), and what the publisher takes from it while it runs: the     *)
(* name of the stream, for every message.  The workers keep the name that  *)
(* they have read when they were started.                                  *)
(*                                                                         *)
(* Of a configuration only redis.stream is kept.  Nameless is the one that *)
(* viper reads in a file that an editor has truncated and not yet written: *)
(* an empty document is no error, and redis.stream has no default.         *)
(* Bounds: MaxConfigEdits edits; a task is published once.                 *)
(***************************************************************************)
EXTENDS Naturals

CONSTANTS
    Task,
    StreamName,     \* the names that editors give to the stream
    MaxConfigEdits

Nameless == "no name"

VARIABLES
    configFile,    \* configs/config.yaml
    configEvent,   \* an event waits for viper, which watches the directory
    viperConfig,   \* what viper has read last
    installing,    \* OnConfigChange is about to run
    globalConfig,  \* the publisher's
    workerConfig,  \* the workers'
    messages,      \* the streams that have a message for each task
    published,     \* the tasks whose outbox row is marked
    configEdits

configVars == <<configFile, configEvent, viperConfig, installing, globalConfig>>
vars == <<configVars, workerConfig, messages, published, configEdits>>

\* InitConfig, in both processes.
Init ==
    /\ configFile \in StreamName
    /\ viperConfig = configFile /\ globalConfig = configFile /\ workerConfig = configFile
    /\ configEvent = FALSE /\ installing = FALSE
    /\ messages = [t \in Task |-> {}]
    /\ published = {}
    /\ configEdits = 0

-----------------------------------------------------------------------------
(* Editors.                                                                *)

Put(content) ==
    /\ configFile' = content /\ configEvent' = TRUE
    /\ UNCHANGED <<viperConfig, installing, globalConfig, workerConfig, messages, published>>

BeginEdit == configEdits < MaxConfigEdits /\ configEdits' = configEdits + 1

\* One truncates the file ...
Truncate == configFile # Nameless /\ BeginEdit /\ Put(Nameless)

\* ... and writes it.
Write == configFile = Nameless /\ UNCHANGED configEdits /\ \E s \in StreamName : Put(s)

\* One renames a new file over it.
Replace == BeginEdit /\ \E s \in StreamName : Put(s)

-----------------------------------------------------------------------------
(* The publisher.                                                          *)

\* viper reads the file and calls back.
ReadInConfig ==
    /\ configEvent /\ ~installing
    /\ configEvent' = FALSE /\ installing' = TRUE
    /\ viperConfig' = configFile
    /\ UNCHANGED <<configFile, globalConfig, workerConfig, messages, published, configEdits>>

\* The pointer is replaced under the lock.
OnConfigChange ==
    /\ installing /\ installing' = FALSE
    /\ globalConfig' = viperConfig
    /\ UNCHANGED <<configFile, configEvent, viperConfig, workerConfig, messages, published,
                   configEdits>>

Get == globalConfig

\* XADD to the stream that Get names now.
PublishTask(t) ==
    /\ t \notin published /\ messages[t] = {}
    /\ messages' = [messages EXCEPT ![t] = {Get}]
    /\ UNCHANGED <<configVars, workerConfig, published, configEdits>>

\* The row is marked as published, whatever the name was.
MarkPublished(t) ==
    /\ t \notin published /\ messages[t] # {}
    /\ published' = published \cup {t}
    /\ UNCHANGED <<configVars, workerConfig, messages, configEdits>>

\* The workers are started again.  Without a name they exit.
RestartWorkers ==
    /\ configFile # Nameless
    /\ workerConfig' = configFile
    /\ UNCHANGED <<configVars, messages, published, configEdits>>

Next ==
    \/ Truncate \/ Write \/ Replace
    \/ ReadInConfig \/ OnConfigChange
    \/ \E t \in Task : PublishTask(t) \/ MarkPublished(t)
    \/ RestartWorkers

Spec == Init /\ [][Next]_vars

-----------------------------------------------------------------------------
\* "Delivery semantics: at least once": a task that is marked as published, and so is never
\* published again, has a message in the stream that the workers read.
PublishedIsDelivered == \A t \in published : workerConfig \in messages[t]

=============================================================================
