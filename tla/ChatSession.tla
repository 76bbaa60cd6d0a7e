----------------------------- MODULE ChatSession -----------------------------
(***************************************************************************)
(* One session of ActiveChatSessions: a producer that pushes events, the   *)
(* buffer they are replayed from, clients that attach and reattach, and    *)
(* the timers and sweeps that end it.  A client reads an async generator:  *)
(* between two of its items anything else may happen, and it is registered *)
(* for live events only after it has read all of the replay.               *)
(*                                                                         *)
(* Events are numbered in the order in which they are pushed.              *)
(***************************************************************************)
EXTENDS Integers, Sequences, FiniteSets

CONSTANTS
  Client,
  MaxBuffered,     \* MAX_BUFFERED_EVENTS
  MaxEvents        \* bound on the events of the session

ASSUME ChatAssumption == {MaxBuffered, MaxEvents} \subseteq Nat \ {0}

VARIABLES
  pushed,          \* events the session has taken
  buffer,          \* session.events
  present,         \* the session is in the map
  done,
  age,             \* time since startedAt: "young", past the grace, past the lifetime
  subscribers,
  pc, replay, queue,   \* each client's generator
  got,             \* what each client has been given
  aborted,         \* its signal has fired
  lost,            \* events that were not in the buffer when it subscribed
  gap              \* events pushed while it was being replayed to

clientVars == <<pc, replay, queue, got, aborted, lost, gap>>
vars == <<pushed, buffer, present, done, age, subscribers, clientVars>>

Event == 1..MaxEvents
Dropped == 0        \* the marker of dropped events
Null == -1          \* the end of the subscription
Truncated == -2     \* an error event with the message "__buffer_truncated__"

Items(s) == {s[i] : i \in DOMAIN s}

TypeOK ==
  /\ pushed \in 0..MaxEvents
  /\ buffer \in Seq(Event \cup {Dropped})
  /\ {present, done} \subseteq BOOLEAN
  /\ age \in {"young", "graced", "aged"}
  /\ pc \in [Client -> {"out", "replaying", "tailing", "over"}]
  /\ subscribers = {c \in Client : pc[c] = "tailing"}
  /\ replay \in [Client -> Seq(Event \cup {Dropped})]
  /\ queue \in [Client -> Seq(Event \cup {Null})]
  /\ got \in [Client -> Seq(Event \cup {Dropped})]
  /\ aborted \in [Client -> BOOLEAN]
  /\ lost \in [Client -> SUBSET Event] /\ gap \in [Client -> SUBSET Event]

Init ==
  /\ pushed = 0 /\ buffer = <<>> /\ present = TRUE /\ done = FALSE /\ age = "young"
  /\ subscribers = {}
  /\ pc = [c \in Client |-> "out"]
  /\ replay = [c \in Client |-> <<>>] /\ queue = [c \in Client |-> <<>>]
  /\ got = [c \in Client |-> <<>>] /\ aborted = [c \in Client |-> FALSE]
  /\ lost = [c \in Client |-> {}] /\ gap = [c \in Client |-> {}]

-----------------------------------------------------------------------------
(* The producer.                                                           *)

(***************************************************************************)
(* The buffer after an event.  The marker put in front at an overflow is   *)
(* not the one that is looked for: the next overflow takes it out, and not *)
(* an event, and puts it in again.                                         *)
(***************************************************************************)
Buffered(e) ==
  LET full    == Append(buffer, e)
      shifted == Tail(full)
  IN  IF Len(full) <= MaxBuffered THEN full
      ELSE IF shifted = <<>> \/ Head(shifted) # Truncated THEN <<Dropped>> \o shifted
      ELSE IF Len(shifted) > MaxBuffered
           THEN <<Head(shifted)>> \o SubSeq(shifted, 3, Len(shifted))
           ELSE shifted

MistakenFanOut(item) ==
  queue' = [c \in Client |-> IF c \in subscribers THEN <<item>> ELSE queue[c]]

FanOut(item) ==
  queue' = [c \in Client |-> IF c \in subscribers THEN Append(queue[c], item) ELSE queue[c]]

Push ==
  /\ present /\ ~done /\ pushed < MaxEvents
  /\ pushed' = pushed + 1
  /\ buffer' = Buffered(pushed + 1)
  /\ FanOut(pushed + 1)
  /\ gap' = [c \in Client |-> IF pc[c] = "replaying" THEN gap[c] \cup {pushed + 1} ELSE gap[c]]
  /\ UNCHANGED <<present, done, age, subscribers, pc, replay, got, aborted, lost>>

MistakenClose ==
  /\ present /\ ~done
  /\ done' = TRUE
  /\ UNCHANGED <<pushed, buffer, present, age, subscribers, clientVars>>

(* The producer ends or fails, or the session reached its lifetime.        *)
Close ==
  /\ present /\ ~done
  /\ done' = TRUE
  /\ FanOut(Null)
  /\ UNCHANGED <<pushed, buffer, present, age, subscribers, pc, replay, got, aborted,
                 lost, gap>>

LifetimeTimer == age = "aged" /\ Close

-----------------------------------------------------------------------------
(* A client: each step is what its generator does up to the next item.     *)

Over(c) ==
  /\ pc' = [pc EXCEPT ![c] = "over"]
  /\ replay' = [replay EXCEPT ![c] = <<>>]
  /\ queue' = [queue EXCEPT ![c] = <<>>]

MistakenJoinTail(c) ==
  IF done \/ aborted[c]
  THEN Over(c) /\ UNCHANGED subscribers
  ELSE /\ pc' = [pc EXCEPT ![c] = "tailing"]
       /\ subscribers' = subscribers \cup {c}
       /\ queue' = [queue EXCEPT ![c] = SelectSeq(buffer, LAMBDA e : e # Dropped)]
       /\ UNCHANGED replay

(* The replay is over: register, unless the session is done.               *)
JoinTail(c) ==
  IF done \/ aborted[c]
  THEN Over(c) /\ UNCHANGED subscribers
  ELSE /\ pc' = [pc EXCEPT ![c] = "tailing"]
       /\ subscribers' = subscribers \cup {c}
       /\ UNCHANGED <<replay, queue>>

Subscribe(c) ==
  /\ pc[c] = "out" /\ present
  /\ lost' = [lost EXCEPT ![c] = (1..pushed) \ Items(buffer)]
  /\ IF buffer = <<>>
     THEN JoinTail(c) /\ UNCHANGED got
     ELSE /\ pc' = [pc EXCEPT ![c] = "replaying"]
          /\ replay' = [replay EXCEPT ![c] = Tail(buffer)]
          /\ got' = [got EXCEPT ![c] = <<Head(buffer)>>]
          /\ UNCHANGED <<subscribers, queue>>
  /\ UNCHANGED <<pushed, buffer, present, done, age, aborted, gap>>

NextReplayed(c) ==
  /\ pc[c] = "replaying"
  /\ IF replay[c] = <<>>
     THEN JoinTail(c) /\ UNCHANGED got
     ELSE IF aborted[c]
     THEN Over(c) /\ UNCHANGED <<got, subscribers>>
     ELSE /\ got' = [got EXCEPT ![c] = Append(@, Head(replay[c]))]
          /\ replay' = [replay EXCEPT ![c] = Tail(@)]
          /\ UNCHANGED <<pc, queue, subscribers>>
  /\ UNCHANGED <<pushed, buffer, present, done, age, aborted, lost, gap>>

Unsubscribe(c) == subscribers' = subscribers \ {c}

NextLive(c) ==
  /\ pc[c] = "tailing" /\ queue[c] # <<>>
  /\ IF Head(queue[c]) = Null \/ aborted[c]
     THEN Over(c) /\ Unsubscribe(c) /\ UNCHANGED got
     ELSE /\ got' = [got EXCEPT ![c] = Append(@, Head(queue[c]))]
          /\ queue' = [queue EXCEPT ![c] = Tail(@)]
          /\ UNCHANGED <<pc, replay, subscribers>>
  /\ UNCHANGED <<pushed, buffer, present, done, age, aborted, lost, gap>>

(* The signal of a client fires; when registered it is woken by it.        *)
AbortClient(c) ==
  /\ pc[c] \in {"replaying", "tailing"} /\ ~aborted[c]
  /\ aborted' = [aborted EXCEPT ![c] = TRUE]
  /\ queue' = [queue EXCEPT ![c] = IF pc[c] = "tailing" THEN Append(@, Null) ELSE @]
  /\ UNCHANGED <<pushed, buffer, present, done, age, subscribers, pc, replay, got, lost, gap>>

-----------------------------------------------------------------------------
(* The end of the session.                                                 *)

TimePasses ==
  /\ present
  /\ \/ age = "young" /\ age' = "graced"
     \/ age = "graced" /\ age' = "aged"
  /\ UNCHANGED <<pushed, buffer, present, done, subscribers, clientVars>>

(* The timer of close(), RECONNECT_GRACE_MS after it.                      *)
EvictTimer ==
  /\ present /\ done /\ age # "young"
  /\ present' = FALSE
  /\ UNCHANGED <<pushed, buffer, done, age, subscribers, clientVars>>

Remove ==
  /\ present' = FALSE
  /\ IF done THEN UNCHANGED queue ELSE FanOut(Null)
  /\ UNCHANGED <<pushed, buffer, done, age, subscribers, pc, replay, got, aborted, lost, gap>>

(* The sweep measures the grace from the start of the session, not its end;*)
(* a session it takes away unfinished is not marked done.                  *)
EvictExpiredSessions ==
  /\ present
  /\ age = "aged" \/ (done /\ age = "graced")
  /\ Remove

(* The null of shutdown comes, for a done session, after the one of close. *)
Shutdown ==
  /\ present
  /\ present' = FALSE
  /\ FanOut(Null)
  /\ UNCHANGED <<pushed, buffer, done, age, subscribers, pc, replay, got, aborted, lost, gap>>

Reads(c) == NextReplayed(c) \/ NextLive(c)

Next ==
  \/ Push \/ Close \/ LifetimeTimer
  \/ \E c \in Client : Subscribe(c) \/ Reads(c) \/ AbortClient(c)
  \/ TimePasses \/ EvictTimer \/ EvictExpiredSessions \/ Shutdown

(* Clients read what there is for them, and the lifetime timer fires.  The *)
(* producer may be stuck for ever.                                         *)
Spec == Init /\ [][Next]_vars
FairSpec == Spec /\ WF_vars(TimePasses) /\ WF_vars(LifetimeTimer)
                 /\ \A c \in Client : WF_vars(Reads(c))

-----------------------------------------------------------------------------

(* A client is given events in the order they were pushed, none twice, and *)
(* the marker of dropped ones only in front, through replay and tail.      *)
InOrder ==
  \A c \in Client : \A i, j \in DOMAIN got[c] : i < j => got[c][i] < got[c][j]

(***************************************************************************)
(* Of all the events a client that is not aborted misses only those that   *)
(* were dropped from the buffer before it came and those pushed while it   *)
(* was being replayed to: from its registration on it is given every one.  *)
(***************************************************************************)
NothingElseMissed ==
  \A c \in Client : (pc[c] \in {"tailing", "over"} /\ ~aborted[c]) =>
     1..pushed \subseteq Items(got[c]) \cup Items(queue[c]) \cup lost[c] \cup gap[c]

(***************************************************************************)
(* A client is not left waiting: one that is registered while the session  *)
(* is in the map, and one that reads a replay of a finished session, come  *)
(* to the end of their stream, also when the producer never closes it.     *)
(***************************************************************************)
SubscriptionsEnd ==
  \A c \in Client :
    ((pc[c] = "tailing" /\ present) \/ (pc[c] = "replaying" /\ done)) ~> (pc[c] = "over")
=============================================================================
