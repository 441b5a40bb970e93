--------------------------- MODULE MavlinkHandler ---------------------------
(***************************************************************************)
(* telemetry/MavlinkHandler.cpp: the telemetry task's update() takes the   *)
(* messages that have arrived, one step each, then looks at the clock and  *)
(* sends what is due.  The ground station may fall silent at any time and  *)
(* for any time; millis() wraps.  The one stream modelled in full stands   *)
(* for the three whose rate a parameter sets.                              *)
(***************************************************************************)
EXTENDS Naturals, Sequences, FiniteSets

CONSTANTS MillisSize,        \* values of millis()
          GcsTimeout,        \* 3000 ms
          StreamPeriods,     \* what hzToPeriodMs() can return
          UpdatePeriod       \* the scheduler's period and lateness, a bound on time

ASSUME MavlinkAssumption ==
    /\ {MillisSize, GcsTimeout, UpdatePeriod} \subseteq Nat \ {0}
    /\ StreamPeriods \subseteq Nat \ {0}
    /\ \A p \in StreamPeriods \cup {GcsTimeout} : p + UpdatePeriod < MillisSize

VARIABLES
    millis,
    updating,        \* update() has begun
    lastGcsBeat,     \* _lastGroundStationHeartbeat
    gcsAlive,        \* _groundStationAlive
    sentVersion,     \* _sentVersionToGcs
    lastStreamSent,  \* _lastAttitudeSent
    streamPeriod,    \* _attitudePeriodMs
    replies,         \* what the last message was answered with
    asked,           \* the last message
    \* histories, none of which wraps
    sinceUpdate, gcsSilence, sinceStream,
    versions,        \* versions sent in this session of the ground station, up to 2
    early            \* the stream was sent before its period was over

linkVars == <<lastGcsBeat, gcsAlive, sentVersion>>
streamVars == <<lastStreamSent, streamPeriod>>
answerVars == <<replies, asked>>
mavHistory == <<sinceUpdate, gcsSilence, sinceStream, versions, early>>
mavVars == <<millis, updating, linkVars, streamVars, answerVars, mavHistory>>

MillisSince(t) == (millis + MillisSize - t) % MillisSize
Saturated == MillisSize + GcsTimeout
OneMore(n) == IF n < Saturated THEN n + 1 ELSE n

Commands == {"requestVersion", "requestOther", "service", "arm", "unknown"}
NoMessage == [kind |-> "none", ours |-> FALSE]

MavlinkInit ==
    /\ millis = 0 /\ updating = FALSE
    /\ lastGcsBeat = 0 /\ gcsAlive = FALSE /\ sentVersion = FALSE
    /\ lastStreamSent = 0 /\ streamPeriod \in StreamPeriods
    /\ replies = <<>> /\ asked = NoMessage
    /\ sinceUpdate = 0 /\ gcsSilence = Saturated /\ sinceStream = 0
    /\ versions = 0 /\ early = FALSE

-----------------------------------------------------------------------------
(* The messages of one update. *)

beginUpdate ==
    /\ ~updating
    /\ updating' = TRUE
    /\ UNCHANGED <<millis, linkVars, streamVars, answerVars, mavHistory>>

\* A heartbeat of anyone counts.
handleHeartbeat ==
    /\ updating
    /\ lastGcsBeat' = millis
    /\ gcsAlive' = TRUE
    /\ sentVersion' = TRUE
    /\ asked' = NoMessage
    /\ replies' = IF sentVersion THEN <<>> ELSE <<"version", "text">>
    /\ gcsSilence' = 0
    /\ versions' = IF sentVersion \/ versions = 2 THEN versions ELSE versions + 1
    /\ UNCHANGED <<millis, updating, streamVars, sinceUpdate, sinceStream, early>>

\* What a command for us is answered with: `reason` says whether its handler gave one.
\* Mutant: the version answers the request.
answerUnacked(kind, reason) ==
    CASE kind = "requestVersion" -> <<"version", "text">>
      [] kind \in {"service", "arm"} -> <<"ack">> \o (IF reason THEN <<"text">> ELSE <<>>)
      [] OTHER -> <<"ack">>

answer(kind, reason) ==
    CASE kind = "requestVersion" -> <<"version", "text", "ack">>
      [] kind \in {"service", "arm"} -> <<"ack">> \o (IF reason THEN <<"text">> ELSE <<>>)
      [] OTHER -> <<"ack">>

handleCommandLong ==
    /\ updating
    /\ \E kind \in Commands, ours \in BOOLEAN, reason \in BOOLEAN :
          /\ asked' = [kind |-> kind, ours |-> ours]
          /\ replies' = IF ours THEN answer(kind, reason) ELSE <<>>
    /\ UNCHANGED <<millis, updating, linkVars, streamVars, mavHistory>>

\* A parameter sets the rate.
setStreamRates ==
    /\ updating
    /\ streamPeriod' \in StreamPeriods
    /\ asked' = NoMessage /\ replies' = <<>>
    /\ UNCHANGED <<millis, updating, linkVars, lastStreamSent, mavHistory>>

-----------------------------------------------------------------------------
(* The rest of update(), at one reading of the clock. *)

\* Mutant: a time is compared without wrapping.
streamDueUnwrapped == millis >= lastStreamSent + streamPeriod

streamDue == MillisSince(lastStreamSent) >= streamPeriod

\* Mutant: a version already sent is not forgotten with its session.
checkGcsKept ==
    IF gcsAlive /\ MillisSince(lastGcsBeat) > GcsTimeout
      THEN gcsAlive' = FALSE /\ UNCHANGED sentVersion /\ versions' = 0
      ELSE UNCHANGED <<gcsAlive, sentVersion, versions>>

checkGcs ==
    IF gcsAlive /\ MillisSince(lastGcsBeat) > GcsTimeout
      THEN gcsAlive' = FALSE /\ sentVersion' = FALSE /\ versions' = 0
      ELSE UNCHANGED <<gcsAlive, sentVersion, versions>>

endUpdate ==
    /\ updating
    /\ updating' = FALSE
    /\ checkGcs
    /\ IF streamDue
         THEN lastStreamSent' = millis /\ sinceStream' = 0
              /\ early' = (early \/ sinceStream < streamPeriod)
         ELSE UNCHANGED <<lastStreamSent, sinceStream, early>>
    /\ asked' = NoMessage /\ replies' = <<>>
    /\ sinceUpdate' = 0
    /\ UNCHANGED <<millis, lastGcsBeat, streamPeriod, gcsSilence>>

\* update() is called in time; it may take time itself.
MavlinkTick ==
    /\ sinceUpdate < UpdatePeriod
    /\ millis' = (millis + 1) % MillisSize
    /\ sinceUpdate' = sinceUpdate + 1
    /\ gcsSilence' = OneMore(gcsSilence)
    /\ sinceStream' = OneMore(sinceStream)
    /\ UNCHANGED <<updating, linkVars, streamVars, answerVars, versions, early>>

MavlinkNext ==
    \/ beginUpdate \/ handleHeartbeat \/ handleCommandLong \/ setStreamRates \/ endUpdate
    \/ MavlinkTick

-----------------------------------------------------------------------------
MavlinkTypeOK ==
    /\ {millis, lastGcsBeat, lastStreamSent} \subseteq 0..(MillisSize - 1)
    /\ {updating, gcsAlive, sentVersion, early} \subseteq BOOLEAN
    /\ streamPeriod \in StreamPeriods
    /\ asked \in [kind : Commands, ours : BOOLEAN] \cup {NoMessage}
    /\ sinceUpdate \in 0..UpdatePeriod
    /\ {gcsSilence, sinceStream} \subseteq 0..Saturated
    /\ versions \in 0..2

\* Right after an update the ground station is held for alive exactly if it was heard
\* within the timeout, however long it has been silent, and a new session of a ground
\* station gets its version once.
GroundStationIsTracked ==
    /\ ~updating => (gcsAlive => gcsSilence <= GcsTimeout + UpdatePeriod)
    /\ gcsSilence <= GcsTimeout => gcsAlive
    /\ gcsAlive => versions = 1

\* A stream is never sent early and never late by more than an update, across
\* the clock's wrap and changes of its rate.
StreamsKeepTheirPeriod ==
    /\ ~early
    /\ ~updating => sinceStream < streamPeriod + UpdatePeriod

\* Every command for this vehicle is acknowledged exactly once, no other is.
CommandsAreAcknowledged ==
    asked # NoMessage =>
        Cardinality({i \in DOMAIN replies : replies[i] = "ack"}) = IF asked.ours THEN 1 ELSE 0
=============================================================================
