-------------------------- MODULE SDWanApplication --------------------------
(***************************************************************************)
(* The applications of the CPE: the base class SDWanApplication and its    *)
(* two implementations, SinApplication (a sample of packets every second)  *)
(* and SDWanStaticApplication (everything at start).  An application is a  *)
(* record; a method is an operator from the record it finds to the record  *)
(* it leaves.                                                              *)
(*                                                                         *)
(* The packets in the queue pendingpackets are arbitrary numbers that      *)
(* nothing reads (SDWanApplication.h:57-64), so the queue is its size.     *)
(* allPacketsGenerated of a static application is not initialised by its   *)
(* constructor, but nothing reads it before OnApplicationStart sets it.    *)
(***************************************************************************)
EXTENDS Totals

CONSTANT SimulationDurationInSeconds
ASSUME DurationAssumption == SimulationDurationInSeconds \in Nat \ {0}

\* The sample indexes of generateValues: one more than the duration.
SampleIndexes == 0..SimulationDurationInSeconds

\* The traffic of one application: sinValues, the packets of every sample.
SinValues == [SampleIndexes -> Nat]

AppState == [pendingpackets      : Nat,
             generatedPackets    : Nat,
             currentSample       : Nat,
             allPacketsGenerated : BOOLEAN]

NewApplication == [pendingpackets      |-> 0,
                   generatedPackets    |-> 0,
                   currentSample       |-> 0,
                   allPacketsGenerated |-> FALSE]

getHasStoppedGeneratingData(app) ==
    app.pendingpackets = 0 /\ app.allPacketsGenerated

-----------------------------------------------------------------------------
(* SinApplication *)

\* Faulty variant: goes on until it has given every sample there is.
enqueuePacketsForEverySample(app, sinValues) ==
    IF app.allPacketsGenerated
    THEN app
    ELSE LET amount == sinValues[app.currentSample]
         IN [pendingpackets      |-> app.pendingpackets + amount,
             generatedPackets    |-> app.generatedPackets + amount,
             currentSample       |-> app.currentSample + 1,
             allPacketsGenerated |->
                 app.currentSample = SimulationDurationInSeconds]

enqueuePacketsForCurrentSample(app, sinValues) ==
    IF app.allPacketsGenerated
    THEN app
    ELSE LET amount == sinValues[app.currentSample]
         IN [pendingpackets      |-> app.pendingpackets + amount,
             generatedPackets    |-> app.generatedPackets + amount,
             currentSample       |-> app.currentSample + 1,
             allPacketsGenerated |->
                 app.currentSample + 1 = SimulationDurationInSeconds]

\* The largest sample, in packets per second.
getRequiredPacketRate(sinValues) ==
    CHOOSE m \in {sinValues[s] : s \in SampleIndexes} :
        \A s \in SampleIndexes : sinValues[s] <= m

getTotalData(sinValues) == Total(sinValues)

-----------------------------------------------------------------------------
(* SDWanStaticApplication, built from the same samples: main.cpp:243-253   *)
(* gives it the total of a SinApplication as amountOfPacketsToSend.        *)

StaticOnApplicationStart(app, sinValues) ==
    LET amountOfPacketsToSend == getTotalData(sinValues)
    IN [pendingpackets      |-> app.pendingpackets + amountOfPacketsToSend,
        generatedPackets    |-> app.generatedPackets + amountOfPacketsToSend,
        currentSample       |-> app.currentSample,
        allPacketsGenerated |-> TRUE]

-----------------------------------------------------------------------------
(* The virtual calls: static says which of the two classes app is. *)

OnApplicationStart(static, app, sinValues) ==
    IF static THEN StaticOnApplicationStart(app, sinValues)
              ELSE enqueuePacketsForCurrentSample(app, sinValues)

OnUpdate(static, app, sinValues) ==
    IF static THEN app ELSE enqueuePacketsForCurrentSample(app, sinValues)

Update(static, app, sinValues) ==
    IF getHasStoppedGeneratingData(app) THEN app
    ELSE OnUpdate(static, app, sinValues)
=============================================================================
