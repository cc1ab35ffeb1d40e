------------------------ MODULE AdminTopicChurnProofs ------------------------
(***************************************************************************)
(* The accounts of AdminTopicChurn, for any number of names, cycles, runs  *)
(* and faults, and whatever the connector accepts.                         *)
(***************************************************************************)
EXTENDS AdminTopicChurn, FiniteSetTheorems, TLAPS

(* The churn loop runs only while the engine has the producers started.    *)
LoopInv == phase \notin {"warmup", "measure"} => pc = "ended"

Inv == TypeOK /\ LoopInv /\ FailuresHaveCauses /\ LeftoversExplained

USE NameSpaceAssumption, LenienciesAssumption, BoundsAssumption

-----------------------------------------------------------------------------
(* Sets of names that differ by at most one name.                          *)

(* The topic of a cycle has one of the names.                              *)
LEMMA TopicIsName == cycle \in Nat => Topic \in Names
  BY DEF Topic, Names

(* Sets of names are finite.                                               *)
LEMMA NameSets ==
  ASSUME NEW S \in SUBSET Names
  PROVE  IsFiniteSet(S) /\ Cardinality(S) \in Nat
  <1>1. IsFiniteSet(Names)
    BY FS_Interval DEF Names
  <1>2. IsFiniteSet(S)
    BY <1>1, FS_Subset
  <1>3. QED
    BY <1>2, FS_CardinalityType

(* A subset has no more names ...                                          *)
LEMMA NoMore ==
  ASSUME NEW S \in SUBSET Names, NEW T \in SUBSET Names, S \subseteq T
  PROVE  Cardinality(S) <= Cardinality(T)
  BY NameSets, FS_Subset

(* ... one name more counts for at most one ...                            *)
LEMMA OneMore ==
  ASSUME NEW S \in SUBSET Names, NEW T \in SUBSET Names, NEW t \in Names, S \subseteq T \cup {t}
  PROVE  Cardinality(S) <= Cardinality(T) + 1
  <1>1. Cardinality(T \cup {t}) <= Cardinality(T) + 1
    BY NameSets, FS_AddElement
  <1>2. Cardinality(S) <= Cardinality(T \cup {t})
    BY NoMore
  <1>3. QED
    BY <1>1, <1>2, NameSets

(* ... and one less for at least one.                                      *)
LEMMA OneLess ==
  ASSUME NEW S \in SUBSET Names, NEW T \in SUBSET Names, NEW t \in T, S \subseteq T \ {t}
  PROVE  Cardinality(S) + 1 <= Cardinality(T)
  <1>1. Cardinality(T \ {t}) = Cardinality(T) - 1
    BY NameSets, FS_RemoveElement
  <1>2. Cardinality(S) <= Cardinality(T \ {t})
    BY NoMore
  <1>3. QED
    BY <1>1, <1>2, NameSets

-----------------------------------------------------------------------------
(* Types, and where the loop may run.                                      *)

(* The outcomes of a call keep the types.                                  *)
LEMMA CallType ==
  ASSUME TypeOK, NEW q \in Nat
  PROVE  /\ Applied(q) \/ InDoubt(q) => partitions' \in [Names -> Nat]
         /\ Answered(q) \/ Resent(q) => partitions' \in [Names -> Nat] /\ faults' \in Nat
         /\ Interrupted => faults' \in Nat
         /\ \A next : Fails(next) => failures' \in Nat
  <1>1. Applied(q) \/ InDoubt(q) => partitions' \in [Names -> Nat]
    BY TopicIsName DEF TypeOK, Applied, InDoubt
  <1>2. Fault \/ NoFault => faults' \in Nat
    BY DEF TypeOK, Fault, NoFault
  <1>3. \A next : Fails(next) => failures' \in Nat
    BY DEF TypeOK, Fails
  <1>4. QED
    BY <1>1, <1>2, <1>3 DEF Answered, Resent, Interrupted

(* So do the answers of the connector.                                     *)
LEMMA Change ==
  ASSUME TypeOK, NEW n \in Nat
  PROVE  /\ partitions[Topic] \in Nat /\ CreateTopic(partitions[Topic]) \in Nat
         /\ CreatePartitions(partitions[Topic], n) \in Nat
  BY TopicIsName DEF TypeOK, CreatePartitions, CreateTopic

(* Every step keeps the types.                                             *)
LEMMA TypeStep == TypeOK /\ [Next]_vars => TypeOK'
  <1> SUFFICES ASSUME TypeOK, [Next]_vars
               PROVE  TypeOK'
    OBVIOUS
  <1> USE DEF TypeOK, Calls, Phases, connectorVars, engineVars, counterVars, historyVars, NoFault
  <1>1. CASE BeginCycle
    BY <1>1 DEF BeginCycle
  <1>2. CASE LoopEnds
    BY <1>2 DEF LoopEnds
  <1>3. CASE Create
    <2> DEFINE q == CreateTopic(partitions[Topic])
    <2>1. q \in Nat
      BY Change
    <2>2. partitions' \in [Names -> Nat] /\ faults' \in Nat
      BY <1>3, <2>1, CallType DEF Create
    <2>3. failures' \in Nat
      BY <1>3, <2>1, CallType DEF Create
    <2>4. pc' \in {"configs", "idle"} /\ strays' \in Nat
      BY <1>3 DEF Create, Fails
    <2>5. QED
      BY <1>3, <2>2, <2>3, <2>4 DEF Create
  <1>4. CASE DescribeConfigs
    <2>1. partitions' \in [Names -> Nat] /\ faults' \in Nat
      BY <1>4, Change, CallType DEF DescribeConfigs, Describe
    <2>2. failures' \in Nat
      BY <1>4, Change, CallType DEF DescribeConfigs, Describe
    <2>3. pc' \in Calls
      BY <1>4 DEF DescribeConfigs, Describe, Fails
    <2>4. QED
      BY <1>4, <2>1, <2>2, <2>3 DEF DescribeConfigs, Describe
  <1>5. CASE Metadata
    <2>1. partitions' \in [Names -> Nat] /\ faults' \in Nat
      BY <1>5, Change, CallType DEF Metadata, Describe
    <2>2. failures' \in Nat
      BY <1>5, Change, CallType DEF Metadata, Describe
    <2>3. pc' \in Calls
      BY <1>5 DEF Metadata, Describe, Fails
    <2>4. QED
      BY <1>5, <2>1, <2>2, <2>3 DEF Metadata, Describe
  <1>6. CASE Grow
    <2> DEFINE q == CreatePartitions(partitions[Topic], 2)
    <2>1. q \in Nat
      BY Change
    <2>2. partitions' \in [Names -> Nat] /\ faults' \in Nat
      BY <1>6, <2>1, CallType DEF Grow
    <2>3. failures' \in Nat
      BY <1>6, <2>1, CallType DEF Grow
    <2>4. pc' \in Calls
      BY <1>6 DEF Grow, Fails
    <2>5. QED
      BY <1>6, <2>2, <2>3, <2>4 DEF Grow
  <1>7. CASE Probe
    <2> DEFINE p == partitions[Topic]
               q == CreatePartitions(p, Probes[probe])
               a == IF Accepts(p, Probes[probe]) THEN 1 ELSE 0
    <2>1. Probes[probe] \in Nat
      BY DEF Probes
    <2>2. p \in Nat /\ q \in Nat /\ a \in {0, 1}
      BY <2>1, Change
    <2>3. CASE (Answered(q) \/ Resent(q)) /\ accepted' = accepted + a /\ failures' = failures + a
                 /\ rejected' = rejected + 1 - a /\ UNCHANGED masked
      <3>1. partitions' \in [Names -> Nat] /\ faults' \in Nat
        BY <2>2, <2>3, CallType
      <3>2. QED
        BY <1>7, <2>2, <2>3, <3>1 DEF Probe
    <2>4. CASE /\ Interrupted
               /\ \E b \in {0, a} :
                    /\ Applied(IF b = 1 THEN q ELSE p)
                    /\ accepted' = accepted + b
                    /\ masked' = masked + b
               /\ rejected' = rejected + 1
               /\ UNCHANGED failures
      <3>1. PICK b \in {0, a} : Applied(IF b = 1 THEN q ELSE p) /\ accepted' = accepted + b
                                 /\ masked' = masked + b
        BY <2>4
      <3>2. partitions' \in [Names -> Nat] /\ faults' \in Nat
        BY <2>2, <2>4, <3>1, CallType
      <3>3. QED
        BY <1>7, <2>2, <2>4, <3>1, <3>2 DEF Probe
    <2>5. QED
      BY <1>7, <2>3, <2>4 DEF Probe
  <1>8. CASE ProbingEnds
    BY <1>8 DEF ProbingEnds
  <1>9. CASE Delete
    <2>1. partitions' \in [Names -> Nat] /\ faults' \in Nat
      BY <1>9, CallType DEF Delete, Interrupted
    <2>2. QED
      BY <1>9, <2>1 DEF Delete
  <1>10. CASE StartProducers
    BY <1>10 DEF StartProducers
  <1>11. CASE CancelProducers
    BY <1>11 DEF CancelProducers
  <1>12. CASE ProducersStopped
    BY <1>12 DEF ProducersStopped
  <1>13. CASE ResetAfterWarmup
    BY <1>13 DEF ResetAfterWarmup
  <1>14. CASE StopConsumers
    BY <1>14 DEF StopConsumers
  <1>15. CASE NewRun
    <2>1. cancelled' \in BOOLEAN
      BY <1>15, Zenon DEF NewRun
    <2>2. QED
      BY <1>15, <2>1 DEF NewRun
  <1>16. CASE Cleanup
    BY <1>16 DEF Cleanup
  <1>17. CASE UNCHANGED vars
    BY <1>17 DEF vars
  <1>18. QED
    BY <1>1, <1>2, <1>3, <1>4, <1>5, <1>6, <1>7, <1>8, <1>9, <1>10, <1>11,
       <1>12, <1>13, <1>14, <1>15, <1>16, <1>17
       DEF Next, Churn, EngineCalls, Terminated

(* The loop is in a cycle only during warmup and measurement.              *)
LEMMA LoopStep == TypeOK /\ LoopInv /\ [Next]_vars => LoopInv'
  <1> SUFFICES ASSUME TypeOK, LoopInv, [Next]_vars
               PROVE  LoopInv'
    OBVIOUS
  <1> USE DEF LoopInv, TypeOK, Calls, Phases, engineVars
  <1>1. CASE Churn
    BY <1>1 DEF Churn, BeginCycle, LoopEnds, Create, DescribeConfigs, Metadata, Describe, Grow,
                Probe, ProbingEnds, Delete
  <1>2. CASE EngineCalls
    BY <1>2 DEF EngineCalls, StartProducers, CancelProducers, ProducersStopped, ResetAfterWarmup,
                StopConsumers, NewRun
  <1>3. CASE Cleanup
    BY <1>3 DEF Cleanup
  <1>4. CASE UNCHANGED vars
    BY <1>4 DEF vars
  <1>5. QED
    BY <1>1, <1>2, <1>3, <1>4 DEF Next, Terminated

-----------------------------------------------------------------------------
(* The accounts.                                                           *)

(* What a call does to the topics and to the faults.                       *)
LEMMA CallEffect ==
  ASSUME TypeOK, NEW q \in Nat
  PROVE  /\ Applied(q) => /\ partitions'[Topic] = q
                          /\ \A t \in Names \ {Topic} : partitions'[t] = partitions[t]
         /\ InDoubt(q) => /\ partitions'[Topic] \in {q, partitions[Topic]}
                          /\ \A t \in Names \ {Topic} : partitions'[t] = partitions[t]
         /\ Interrupted => \/ faults' = faults + 1
                           \/ cancelled /\ faults' = faults
         /\ Answered(q) => Applied(q) /\ faults' = faults
         /\ Resent(q) => Applied(q) /\ faults' = faults + 1
  BY TopicIsName DEF TypeOK, Applied, InDoubt, Interrupted, Answered, Resent, Fault, NoFault

(* A failed call counts at most one failure.                               *)
LEMMA FailsEffect ==
  ASSUME TypeOK, NEW next, Fails(next)
  PROVE  pc' = next /\ failures <= failures' /\ failures' <= failures + 1
  BY DEF TypeOK, Fails

(* A failure without a fault is the cancellation's, and not counted.       *)
LEMMA InterruptedFails ==
  ASSUME TypeOK, NEW next, Interrupted, Fails(next)
  PROVE  failures' - failures <= faults' - faults
  <1>1. CASE cancelled
    BY <1>1 DEF TypeOK, Interrupted, Fails, Fault, NoFault
  <1>2. CASE ~ cancelled
    BY <1>2 DEF TypeOK, Interrupted, Fails, Fault
  <1>3. QED
    BY <1>1, <1>2

(* The three ways a step may change the account: it has as many causes as  *)
(* failures; it leaves a grown topic and has a fault; it stumbles over a   *)
(* grown topic and removes it.                                             *)
LEMMA GrownSets ==
  ASSUME TypeOK, TypeOK'
  PROVE  /\ Grown \in SUBSET Names /\ Grown' \in SUBSET Names /\ Topic \in Names
         /\ Cardinality(Grown) \in Nat /\ Cardinality(Grown') \in Nat
         /\ FailuresHaveCauses' <=>
              forgotten' + failures' + Cardinality(Grown') <= accepted' + faults'
  <1>1. Grown \in SUBSET Names /\ Grown' \in SUBSET Names /\ Topic \in Names
    BY TopicIsName DEF Grown, TypeOK
  <1>2. QED
    BY <1>1, NameSets DEF FailuresHaveCauses

(* The counters are numbers.                                               *)
LEMMA Numbers ==
  ASSUME TypeOK, TypeOK'
  PROVE  /\ forgotten \in Nat /\ failures \in Nat /\ accepted \in Nat /\ faults \in Nat /\ strays \in Nat
         /\ forgotten' \in Nat /\ failures' \in Nat /\ accepted' \in Nat /\ faults' \in Nat /\ strays' \in Nat
  BY DEF TypeOK

(* A step that adds no failure beyond the causes it adds keeps the balance *)
(* ...                                                                     *)
LEMMA Balanced ==
  ASSUME TypeOK, TypeOK', FailuresHaveCauses, Grown' \subseteq Grown,
         forgotten' + failures' - forgotten - failures <= accepted' + faults' - accepted - faults
  PROVE  FailuresHaveCauses'
  <1>1. Cardinality(Grown') <= Cardinality(Grown)
    BY GrownSets, NoMore
  <1>2. QED
    BY <1>1, GrownSets, Numbers DEF FailuresHaveCauses

(* ... so does a fault that leaves one more grown topic behind ...         *)
LEMMA LeavesOne ==
  ASSUME TypeOK, TypeOK', FailuresHaveCauses, Grown' \subseteq Grown \cup {Topic},
         forgotten' + failures' = forgotten + failures,
         accepted' = accepted, faults' = faults + 1
  PROVE  FailuresHaveCauses'
  <1>1. Cardinality(Grown') <= Cardinality(Grown) + 1
    BY GrownSets, OneMore
  <1>2. QED
    BY <1>1, GrownSets, Numbers DEF FailuresHaveCauses

(* ... and a failure that a grown topic, now gone, had caused.             *)
LEMMA RemovesOne ==
  ASSUME TypeOK, TypeOK', FailuresHaveCauses, Topic \in Grown, Grown' \subseteq Grown \ {Topic},
         forgotten' + failures' <= forgotten + failures + 1,
         accepted' = accepted, faults' = faults
  PROVE  FailuresHaveCauses'
  <1>1. Cardinality(Grown') + 1 <= Cardinality(Grown)
    BY GrownSets, OneLess
  <1>2. QED
    BY <1>1, GrownSets, Numbers DEF FailuresHaveCauses

(* Every step keeps the balance of failures and causes.                    *)
LEMMA FailuresStep ==
  TypeOK /\ TypeOK' /\ LoopInv /\ FailuresHaveCauses /\ [Next]_vars => FailuresHaveCauses'
  <1> SUFFICES ASSUME TypeOK, TypeOK', LoopInv, FailuresHaveCauses, [Next]_vars
               PROVE  FailuresHaveCauses'
    OBVIOUS
  <1>0. Topic \in Names
    BY TopicIsName DEF TypeOK
  <1>1. ASSUME UNCHANGED <<partitions, pc, cycle, accepted, faults>>,
               forgotten' + failures' = forgotten + failures
        PROVE  FailuresHaveCauses'
    <2>1. Grown' \subseteq Grown
      BY <1>1 DEF Grown, Topic
    <2>2. forgotten' + failures' - forgotten - failures <= accepted' + faults' - accepted - faults
      BY <1>1, <2>1, Numbers
    <2>3. QED
      BY <1>1, <2>1, <2>2, Balanced
  <1>2. ASSUME UNCHANGED <<partitions, forgotten, failures, accepted, faults>>,
               pc \notin {"probe", "delete"}
        PROVE  FailuresHaveCauses'
    <2>1. Grown' \subseteq Grown
      BY <1>2 DEF Grown
    <2>2. forgotten' + failures' - forgotten - failures <= accepted' + faults' - accepted - faults
      BY <1>2, <2>1, Numbers
    <2>3. QED
      BY <1>2, <2>1, <2>2, Balanced
  <1>3. CASE BeginCycle \/ LoopEnds \/ StartProducers
    BY <1>2, <1>3 DEF BeginCycle, LoopEnds, StartProducers, LoopInv, connectorVars, counterVars, historyVars,
                      NoFault
  <1>4. CASE ProbingEnds
    <2>1. Grown' \subseteq Grown
      BY <1>4 DEF ProbingEnds, Grown, Topic, connectorVars
    <2>2. forgotten' + failures' - forgotten - failures <= accepted' + faults' - accepted - faults
      BY <1>4, <2>1, Numbers DEF ProbingEnds, counterVars, historyVars, NoFault
    <2>3. QED
      BY <1>4, <2>1, <2>2, Balanced
  <1>5. CASE CancelProducers \/ ProducersStopped \/ StopConsumers \/ ResetAfterWarmup
    <2>1. UNCHANGED <<partitions, pc, cycle, accepted, faults>>
      BY <1>5 DEF CancelProducers, ProducersStopped, StopConsumers, ResetAfterWarmup, connectorVars,
                  historyVars, NoFault
    <2>2. forgotten' + failures' = forgotten + failures
      BY <1>5, Numbers DEF CancelProducers, ProducersStopped, StopConsumers, ResetAfterWarmup,
                           counterVars, historyVars
    <2>3. QED
      BY <1>1, <2>1, <2>2
  <1>6. CASE NewRun
    <2>1. pc = "ended" /\ pc' = "ended" /\ partitions' = partitions
      BY <1>6 DEF NewRun, LoopInv, connectorVars
    <2>2. Grown' \subseteq Grown
      BY <2>1 DEF Grown
    <2>3. forgotten' + failures' - forgotten - failures <= accepted' + faults' - accepted - faults
      BY <1>6, <2>2, Numbers DEF NewRun, NoFault
    <2>4. QED
      BY <1>6, <2>2, <2>3, Balanced
  <1>7. CASE Cleanup
    <2>1. pc = "ended" /\ pc' = "ended"
      BY <1>7 DEF Cleanup, LoopInv
    <2>2. \A t \in Names : partitions'[t] > 1 => partitions[t] > 1
      BY <1>7 DEF Cleanup, TypeOK
    <2>3. Grown' \subseteq Grown
      BY <2>1, <2>2 DEF Grown
    <2>4. forgotten' + failures' - forgotten - failures <= accepted' + faults' - accepted - faults
      BY <1>7, <2>3, Numbers DEF Cleanup, counterVars, historyVars, NoFault
    <2>5. QED
      BY <1>7, <2>3, <2>4, Balanced
  <1>8. CASE Create
    <2> DEFINE q == CreateTopic(partitions[Topic])
    <2>1. q \in Nat /\ (q > 1 => partitions[Topic] > 1)
      BY Change, <1>0 DEF CreateTopic, TypeOK
    <2>2. \A t \in Names : partitions'[t] > 1 => partitions[t] > 1
      BY <1>8, <2>1, CallEffect DEF Create
    <2>3. Grown' \subseteq Grown
      BY <1>8, <2>2 DEF Create, Grown
    <2>4. failures' - failures <= faults' - faults /\ UNCHANGED <<forgotten, accepted>>
      BY <1>8, <2>1, CallEffect, InterruptedFails, Numbers DEF Create
    <2>5. forgotten' + failures' - forgotten - failures <= accepted' + faults' - accepted - faults
      BY <2>3, <2>4, Numbers
    <2>6. QED
      BY <2>3, <2>4, <2>5, Balanced
  <1>9. CASE DescribeConfigs \/ Metadata
    <2>1. partitions[Topic] \in Nat /\ pc \in {"configs", "metadata"}
          /\ UNCHANGED <<cycle, forgotten, accepted>>
      BY <1>9, Change DEF DescribeConfigs, Metadata, Describe, historyVars
    <2>2. \A t \in Names : partitions'[t] = partitions[t]
      BY <1>9, <2>1, CallEffect DEF DescribeConfigs, Metadata, Describe
    <2>3. Grown' \subseteq Grown
      BY <2>1, <2>2 DEF Grown
    <2>4. failures' - failures <= faults' - faults
      BY <1>9, <2>1, CallEffect, InterruptedFails, Numbers DEF DescribeConfigs, Metadata, Describe
    <2>5. forgotten' + failures' - forgotten - failures <= accepted' + faults' - accepted - faults
      BY <2>1, <2>3, <2>4, Numbers
    <2>6. QED
      BY <2>1, <2>3, <2>4, <2>5, Balanced

  <1>10. CASE Grow
    <2> DEFINE p == partitions[Topic]
               q == CreatePartitions(p, 2)
    <2>1. p \in Nat /\ q \in Nat /\ (~ Accepts(p, 2) => p > 1 /\ q = p)
      BY Change DEF CreatePartitions, Accepts, PartitionCap
    <2>2. /\ pc = "grow" /\ pc' \in {"probe", "delete"}
          /\ UNCHANGED <<cycle, forgotten, accepted>>
      BY <1>10 DEF Grow, Fails, historyVars
    <2>3. \A t \in Names \ {Topic} : partitions'[t] = partitions[t]
      BY <1>10, <2>1, CallEffect DEF Grow
    <2>4. Grown' \subseteq Grown \ {Topic}
      BY <2>2, <2>3 DEF Grown, Topic
    <2>5. CASE failures' - failures <= faults' - faults
      <3>1. forgotten' + failures' - forgotten - failures <= accepted' + faults' - accepted - faults
        BY <2>2, <2>5, Numbers
      <3>2. QED
        BY <2>4, <3>1, Balanced
    <2>6. CASE ~ (failures' - failures <= faults' - faults)
      <3>1. Answered(q) /\ ~ Accepts(p, 2) /\ Fails("delete")
        BY <1>10, <2>1, <2>6, CallEffect, FailsEffect, InterruptedFails, Numbers DEF Grow
      <3>2. Topic \in Grown
        BY <1>0, <2>1, <2>2, <3>1 DEF Grown
      <3>3. failures' <= failures + 1 /\ faults' = faults
        BY <2>1, <3>1, CallEffect, FailsEffect DEF TypeOK
      <3>4. forgotten' + failures' <= forgotten + failures + 1 /\ accepted' = accepted /\ faults' = faults
        BY <2>2, <2>4, <3>2, <3>3, Numbers
      <3>5. QED
        BY <2>2, <2>4, <3>2, <3>3, <3>4, RemovesOne
    <2>7. QED
      BY <2>5, <2>6
  <1>11. CASE Probe
    <2> DEFINE p == partitions[Topic]
               q == CreatePartitions(p, Probes[probe])
               a == IF Accepts(p, Probes[probe]) THEN 1 ELSE 0
    <2>1. Probes[probe] \in Nat
      BY DEF Probes, TypeOK
    <2>2. p \in Nat /\ q \in Nat /\ a \in {0, 1}
      BY <2>1, Change
    <2>3. pc = "probe" /\ pc' \in {"probe", "delete"} /\ UNCHANGED <<cycle, forgotten>>
      BY <1>11 DEF Probe
    <2>4. /\ \A t \in Names \ {Topic} : partitions'[t] = partitions[t]
          /\ failures' - failures <= accepted' - accepted
          /\ faults <= faults'
      <3>1. CASE (Answered(q) \/ Resent(q)) /\ accepted' = accepted + a /\ failures' = failures + a
        BY <2>2, <3>1, CallEffect DEF TypeOK
      <3>2. CASE /\ Interrupted
                 /\ \E b \in {0, a} : Applied(IF b = 1 THEN q ELSE p) /\ accepted' = accepted + b
                 /\ UNCHANGED failures
        <4>1. PICK b \in {0, a} : Applied(IF b = 1 THEN q ELSE p) /\ accepted' = accepted + b
          BY <3>2
        <4>2. QED
          BY <2>2, <3>2, <4>1, CallEffect DEF TypeOK
      <3>3. QED
        BY <1>11, <3>1, <3>2 DEF Probe
    <2>5. Grown' \subseteq Grown
      BY <2>3, <2>4 DEF Grown, Topic
    <2>6. forgotten' + failures' - forgotten - failures <= accepted' + faults' - accepted - faults
      BY <2>3, <2>4, <2>5, Numbers
    <2>7. QED
      BY <2>3, <2>4, <2>5, <2>6, Balanced
  <1>12. CASE Delete
    <2>1. /\ pc = "delete" /\ pc' = "idle"
          /\ UNCHANGED <<cycle, forgotten, failures, accepted>>
      BY <1>12 DEF Delete, counterVars
    <2>2. CASE Applied(0) /\ faults <= faults'
      <3>1. Grown' \subseteq Grown
        BY <2>1, <2>2, CallEffect DEF Grown, Topic
      <3>2. forgotten' + failures' - forgotten - failures <= accepted' + faults' - accepted - faults
        BY <2>1, <2>2, <3>1, Numbers
      <3>3. QED
        BY <2>1, <2>2, <3>1, <3>2, Balanced
    <2>3. CASE InDoubt(0) /\ Fault
      <3>1. Grown' \subseteq Grown \cup {Topic}
        BY <2>1, <2>3, CallEffect DEF Grown, Topic
      <3>2. forgotten' + failures' = forgotten + failures /\ accepted' = accepted /\ faults' = faults + 1
        BY <2>1, <2>3, <3>1, Numbers DEF TypeOK, Fault
      <3>3. QED
        BY <2>1, <2>3, <3>1, <3>2, LeavesOne
    <2>4. QED
      BY <1>12, <2>2, <2>3, CallEffect DEF Delete, TypeOK
  <1>13. CASE UNCHANGED vars
    BY <1>1, <1>13 DEF vars, connectorVars, counterVars, historyVars
  <1>14. QED
    BY <1>3, <1>4, <1>5, <1>6, <1>7, <1>8, <1>9, <1>10, <1>11, <1>12, <1>13
       DEF Next, Churn, EngineCalls, Terminated

(* The same for the topics left behind.                                    *)
LEMMA FewerLeft ==
  ASSUME TypeOK, TypeOK', LeftoversExplained, Leftovers' \subseteq Leftovers, strays <= strays'
  PROVE  LeftoversExplained'
  <1>1. Leftovers \in SUBSET Names /\ Leftovers' \in SUBSET Names
    BY DEF Leftovers
  <1>2. Cardinality(Leftovers') <= Cardinality(Leftovers)
    BY <1>1, NoMore
  <1>3. QED
    BY <1>1, <1>2, NameSets, Numbers DEF LeftoversExplained

(* A stray topic accounts for one more leftover.                           *)
LEMMA OneLeft ==
  ASSUME TypeOK, TypeOK', LeftoversExplained, Leftovers' \subseteq Leftovers \cup {Topic},
         strays' = strays + 1
  PROVE  LeftoversExplained'
  <1>1. Leftovers \in SUBSET Names /\ Leftovers' \in SUBSET Names /\ Topic \in Names
    BY TopicIsName DEF Leftovers, TypeOK
  <1>2. Cardinality(Leftovers') <= Cardinality(Leftovers) + 1
    BY <1>1, OneMore
  <1>3. QED
    BY <1>1, <1>2, NameSets, Numbers DEF LeftoversExplained

(* Every step keeps the leftovers accounted for.                           *)
LEMMA LeftoversStep ==
  TypeOK /\ TypeOK' /\ LoopInv /\ LeftoversExplained /\ [Next]_vars => LeftoversExplained'
  <1> SUFFICES ASSUME TypeOK, TypeOK', LoopInv, LeftoversExplained, [Next]_vars
               PROVE  LeftoversExplained'
    OBVIOUS
  <1> USE DEF InCycle, Calls
  <1>0. Topic \in Names
    BY TopicIsName DEF TypeOK
  <1>1. ASSUME UNCHANGED <<partitions, strays>>,
               \/ ~ InCycle
               \/ InCycle /\ InCycle' /\ UNCHANGED cycle
        PROVE  LeftoversExplained'
    <2>1. Leftovers' \subseteq Leftovers
      BY <1>1 DEF Leftovers, Topic
    <2>2. QED
      BY <1>1, <2>1, FewerLeft, Numbers
  <1>2. CASE BeginCycle \/ LoopEnds \/ StartProducers \/ ProbingEnds \/ NewRun
    BY <1>1, <1>2 DEF BeginCycle, LoopEnds, StartProducers, ProbingEnds, NewRun, LoopInv,
                      connectorVars, historyVars
  <1>3. CASE CancelProducers \/ ProducersStopped \/ StopConsumers \/ ResetAfterWarmup
    <2>1. UNCHANGED <<partitions, pc, cycle, strays>>
      BY <1>3 DEF CancelProducers, ProducersStopped, StopConsumers, ResetAfterWarmup,
                  connectorVars, historyVars
    <2>2. QED
      BY <1>1, <2>1
  <1>4. CASE Cleanup
    <2>1. pc = "ended" /\ pc' = "ended" /\ UNCHANGED strays
      BY <1>4 DEF Cleanup, LoopInv, historyVars
    <2>2. \A t \in Names : partitions'[t] # 0 => partitions[t] # 0
      BY <1>4 DEF Cleanup, TypeOK
    <2>3. Leftovers' \subseteq Leftovers
      BY <2>1, <2>2 DEF Leftovers
    <2>4. QED
      BY <2>1, <2>3, FewerLeft, Numbers
  <1>5. CASE Create
    <2> DEFINE q == CreateTopic(partitions[Topic])
    <2>1. q \in Nat
      BY Change
    <2>2. pc = "create" /\ UNCHANGED cycle
      BY <1>5 DEF Create
    <2>3. \A t \in Names \ {Topic} : partitions'[t] = partitions[t]
      BY <1>5, <2>1, CallEffect DEF Create
    <2>4. CASE pc' = "configs" /\ UNCHANGED strays
      <3>1. Leftovers' \subseteq Leftovers
        BY <2>2, <2>3, <2>4 DEF Leftovers, Topic
      <3>2. QED
        BY <2>4, <3>1, FewerLeft, Numbers
    <2>5. CASE strays' = strays + 1
      <3>1. Leftovers' \subseteq Leftovers \cup {Topic}
        BY <2>2, <2>3 DEF Leftovers, Topic
      <3>2. QED
        BY <2>5, <3>1, OneLeft
    <2>6. QED
      BY <1>5, <2>4, <2>5 DEF Create
  <1>6. CASE DescribeConfigs \/ Metadata \/ Grow \/ Probe
    <2>1. InCycle /\ InCycle' /\ UNCHANGED <<cycle, strays>>
      BY <1>6 DEF DescribeConfigs, Metadata, Describe, Grow, Probe, Fails, historyVars
    <2>2. partitions[Topic] \in Nat /\ CreatePartitions(partitions[Topic], 2) \in Nat
      BY Change
    <2>3. Probes[probe] \in Nat
      BY DEF Probes, TypeOK
    <2>4. CreatePartitions(partitions[Topic], Probes[probe]) \in Nat
      BY <2>3, Change
    <2>5. \E q \in Nat : Applied(q) \/ InDoubt(q)
      <3>1. CASE DescribeConfigs \/ Metadata
        BY <3>1, <2>2 DEF DescribeConfigs, Metadata, Describe, Answered
      <3>2. CASE Grow
        BY <3>2, <2>2 DEF Grow, Answered, Resent
      <3>3. CASE Probe
        BY <3>3, <2>2, <2>4 DEF Probe, Answered, Resent
      <3>4. QED
        BY <1>6, <3>1, <3>2, <3>3
    <2>6. \A t \in Names \ {Topic} : partitions'[t] = partitions[t]
      BY <2>5, CallEffect
    <2>7. Leftovers' \subseteq Leftovers
      BY <2>1, <2>6 DEF Leftovers, Topic
    <2>8. QED
      BY <2>1, <2>7, FewerLeft, Numbers
  <1>7. CASE Delete
    <2>1. pc = "delete" /\ pc' = "idle" /\ UNCHANGED cycle
      BY <1>7 DEF Delete
    <2>2. CASE Applied(0) /\ UNCHANGED strays
      <3>1. Leftovers' \subseteq Leftovers
        BY <2>1, <2>2, CallEffect DEF Leftovers, Topic
      <3>2. QED
        BY <2>2, <3>1, FewerLeft, Numbers
    <2>3. CASE InDoubt(0) /\ strays' = strays + 1
      <3>1. Leftovers' \subseteq Leftovers \cup {Topic}
        BY <2>1, <2>3, CallEffect DEF Leftovers, Topic
      <3>2. QED
        BY <2>3, <3>1, OneLeft
    <2>4. QED
      BY <1>7, <2>2, <2>3 DEF Delete, Answered, Resent
  <1>8. CASE UNCHANGED vars
    BY <1>1, <1>8 DEF vars, connectorVars, historyVars
  <1>9. QED
    BY <1>2, <1>3, <1>4, <1>5, <1>6, <1>7, <1>8 DEF Next, Churn, EngineCalls, Terminated

-----------------------------------------------------------------------------
(* The invariant holds before the first run.                               *)
LEMMA InitInv == Init => Inv
  <1> SUFFICES ASSUME Init PROVE Inv
    OBVIOUS
  <1>1. cancelled \in BOOLEAN
    BY Zenon DEF Init
  <1>2. TypeOK
    BY <1>1 DEF Init, TypeOK, Phases, Calls
  <1>3. Grown = {} /\ Leftovers = {}
    BY DEF Init, Grown, Leftovers
  <1>4. Cardinality({}) = 0
    BY FS_EmptySet
  <1>5. QED
    BY <1>2, <1>3, <1>4 DEF Init, Inv, LoopInv, FailuresHaveCauses, LeftoversExplained

(* The inductive invariant holds in every reachable state.                 *)
LEMMA Invariance == Spec => []Inv
  <1>1. Inv /\ [Next]_vars => Inv'
    BY TypeStep, LoopStep, FailuresStep, LeftoversStep DEF Inv
  <1>2. QED
    BY InitInv, <1>1, PTL DEF Spec

(* The gate of the worker is never failed without a cause: for any number  *)
(* of names, cycles, runs and faults, and wherever the runs are stopped.   *)
THEOREM NoFailureWithoutCause == Spec => []FailuresHaveCauses
  <1>1. Inv => FailuresHaveCauses
    BY DEF Inv
  <1>2. QED
    BY <1>1, Invariance, PTL

(* Every topic that outlives its cycle is due to a call in doubt.          *)
THEOREM EveryLeftoverExplained == Spec => []LeftoversExplained
  <1>1. Inv => LeftoversExplained
    BY DEF Inv
  <1>2. QED
    BY <1>1, Invariance, PTL
=============================================================================
