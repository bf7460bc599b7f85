----------------------------- MODULE SessionUse -----------------------------
(***************************************************************************)
(* TaskRetention with a history variable: when each database that the      *)
(* factory still has was last used by a request or an execution, cleanup   *)
(* runs not counted.                                                       *)
(***************************************************************************)
EXTENDS TaskRetention

VARIABLE lastUse

\* What is known of the databases that the factory still has.
UseKept ==
  LET same == {s \in DOMAIN lastUse \cap ActiveSessions(factory') :
                 factory'.databases[s] = factory.databases[s]}
  IN  [s \in same |-> lastUse[s]]

UseInit == Init /\ lastUse = <<>>

Used(key) == lastUse' = Put(UseKept, Normalize[key], now)

UseNext ==
  \/ (Tick \/ RunCleanup \/ \E key \in Keys : DeleteSession(key)) /\ lastUse' = UseKept
  \/ \E key \in Keys : (UseOnly(key) \/ CreateTask(key)) /\ Used(key)
  \/ \E t \in tasks, status \in {"unfinished", "completed", "failed"} :
       UpdateTask(t, status) /\ Used(t.sessionKey)
  \/ \E t \in tasks : (RetryTask(t) \/ DeleteTask(t)) /\ Used(t.sessionKey)

UseSpec == UseInit /\ [][UseNext]_<<vars, lastUse>>

\* "SESSION_TIMEOUT=1800000  # 30 minutes in milliseconds"
\* (src/SESSION_ISOLATION.md:50): a session that nobody used for SessionTimeout
\* is not served again.
UnusedSessionsExpire ==
  [][\A s \in DOMAIN lastUse \cap DOMAIN lastUse' :
       lastUse'[s] # lastUse[s] /\ factory'.databases[s] = factory.databases[s]
         => now - lastUse[s] < SessionTimeout]_<<vars, lastUse>>

=============================================================================
