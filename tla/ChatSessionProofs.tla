------------------------- MODULE ChatSessionProofs -------------------------
(***************************************************************************)
(* For any clients, buffer and number of events: events reach a client in  *)
(* order and once, and it misses only those of the gaps that ChatSession   *)
(* names.                                                                  *)
(*                                                                         *)
(* What a client has been given, what is still to be replayed to it and    *)
(* what waits in its queue are, in this order, one increasing sequence:    *)
(* the buffer is increasing, it is replayed before anything is queued, and *)
(* what is queued was pushed after all that had been in the buffer.        *)
(***************************************************************************)
EXTENDS ChatSession, TLAPS

Increasing(s) == \A i, j \in DOMAIN s : i < j => s[i] < s[j]

Below(S, T) == \A x \in S, y \in T : x < y

(* Events in order, and behind a null nothing but nulls.                   *)
Ending(s) ==
  \A i, j \in DOMAIN s : i < j => (s[i] = Null => s[j] = Null)
                                  /\ (s[j] # Null => s[i] < s[j])

(* Nothing is pushed any more.                                             *)
Ended == done \/ ~present

BufferOrdered == Increasing(buffer) /\ Items(buffer) \subseteq 0..pushed

GotOrdered(c) == Increasing(got[c]) /\ Items(got[c]) \subseteq 0..pushed

Replaying(c) ==
  /\ pc[c] = "replaying" => /\ Increasing(replay[c]) /\ Items(replay[c]) \subseteq 0..pushed
                            /\ Below(Items(got[c]), Items(replay[c]))
  /\ pc[c] # "tailing" => queue[c] = <<>>
  /\ pc[c] # "replaying" => replay[c] = <<>>

Tailing(c) ==
  ~aborted[c] =>
    /\ Ending(queue[c]) /\ Items(queue[c]) \subseteq (1..pushed) \cup {Null}
    /\ Below(Items(got[c]), Items(queue[c]) \ {Null})
    /\ (Null \in Items(queue[c]) \/ pc[c] = "over") => Ended

Covered(c) ==
  ~aborted[c] =>
    /\ pc[c] = "replaying" =>
         1..pushed \subseteq Items(got[c]) \cup Items(replay[c]) \cup lost[c] \cup gap[c]
    /\ pc[c] \in {"tailing", "over"} =>
         1..pushed \subseteq Items(got[c]) \cup Items(queue[c]) \cup lost[c] \cup gap[c]

PerClient(c) == GotOrdered(c) /\ Replaying(c) /\ Tailing(c) /\ Covered(c)

Inv == TypeOK /\ BufferOrdered /\ \A c \in Client : PerClient(c)

-----------------------------------------------------------------------------
(* Sequences.                                                              *)

LEMMA Appending ==
  ASSUME NEW S, NEW s \in Seq(S), NEW x \in S
  PROVE  /\ Append(s, x) \in Seq(S) /\ Append(s, x) # <<>>
         /\ Items(Append(s, x)) = Items(s) \cup {x}
         /\ DOMAIN Append(s, x) = 1..(Len(s) + 1) /\ DOMAIN s = 1..Len(s) /\ Len(s) \in Nat
         /\ \A i \in 1..Len(s) : Append(s, x)[i] = s[i]
         /\ Append(s, x)[Len(s) + 1] = x
<1>1. /\ Append(s, x) \in Seq(S) /\ Len(Append(s, x)) = Len(s) + 1
      /\ DOMAIN Append(s, x) = 1..(Len(s) + 1) /\ DOMAIN s = 1..Len(s) /\ Len(s) \in Nat
      /\ \A i \in 1..Len(s) : Append(s, x)[i] = s[i]
      /\ Append(s, x)[Len(s) + 1] = x
  OBVIOUS
<1>2. Items(Append(s, x)) \subseteq Items(s) \cup {x}
  BY <1>1 DEF Items
<1>3. Items(s) \cup {x} \subseteq Items(Append(s, x))
  BY <1>1 DEF Items
<1>4. QED  BY <1>1, <1>2, <1>3

LEMMA Taking ==
  ASSUME NEW S, NEW s \in Seq(S), s # <<>>
  PROVE  /\ Tail(s) \in Seq(S) /\ Head(s) \in S
         /\ Items(s) = {Head(s)} \cup Items(Tail(s))
         /\ DOMAIN s = 1..Len(s) /\ Len(s) \in Nat \ {0} /\ DOMAIN Tail(s) = 1..(Len(s) - 1)
         /\ \A i \in 1..(Len(s) - 1) : Tail(s)[i] = s[i + 1]
         /\ Head(s) = s[1]
<1>1. /\ Tail(s) \in Seq(S) /\ Head(s) \in S /\ Len(Tail(s)) = Len(s) - 1
      /\ DOMAIN s = 1..Len(s) /\ Len(s) \in Nat \ {0} /\ DOMAIN Tail(s) = 1..(Len(s) - 1)
      /\ \A i \in 1..(Len(s) - 1) : Tail(s)[i] = s[i + 1]
      /\ Head(s) = s[1]
  OBVIOUS
<1>2. Items(s) \subseteq {Head(s)} \cup Items(Tail(s))
  <2>1. ASSUME NEW i \in DOMAIN s  PROVE s[i] \in {Head(s)} \cup Items(Tail(s))
    <3>1. CASE i = 1
      BY <1>1, <3>1
    <3>2. CASE i # 1
      <4>1. i - 1 \in DOMAIN Tail(s) /\ Tail(s)[i - 1] = s[i]
        BY <1>1, <3>2
      <4>2. QED  BY <4>1 DEF Items
    <3>3. QED  BY <3>1, <3>2
  <2>2. QED  BY <2>1 DEF Items
<1>3. {Head(s)} \cup Items(Tail(s)) \subseteq Items(s)
  <2>1. 1 \in DOMAIN s /\ \A i \in DOMAIN Tail(s) : i + 1 \in DOMAIN s
    BY <1>1
  <2>2. QED  BY <1>1, <2>1 DEF Items
<1>4. QED  BY <1>1, <1>2, <1>3

LEMMA IncreasingAppend ==
  ASSUME NEW s \in Seq(Int), NEW x \in Int, Increasing(s), Below(Items(s), {x})
  PROVE  Increasing(Append(s, x))
<1>1. \A i \in DOMAIN s : s[i] < x
  BY DEF Below, Items
<1>2. QED  BY <1>1, Appending DEF Increasing

LEMMA IncreasingTail ==
  ASSUME NEW s \in Seq(Int), s # <<>>, Increasing(s)
  PROVE  Increasing(Tail(s)) /\ Below({Head(s)}, Items(Tail(s)))
<1>1. Increasing(Tail(s))
  BY Taking DEF Increasing
<1>2. \A i \in DOMAIN Tail(s) : Head(s) < Tail(s)[i]
  BY Taking DEF Increasing
<1>3. QED  BY <1>1, <1>2 DEF Below, Items

LEMMA EndingAppend ==
  ASSUME NEW s \in Seq(Int), NEW x \in Int, Ending(s),
         x = Null \/ (Null \notin Items(s) /\ Below(Items(s), {x}))
  PROVE  Ending(Append(s, x))
<1>1. x = Null \/ \A i \in DOMAIN s : s[i] # Null /\ s[i] < x
  BY DEF Below, Items
<1>2. QED  BY <1>1, Appending DEF Ending

LEMMA EndingTail ==
  ASSUME NEW s \in Seq(Int), s # <<>>, Ending(s), Head(s) # Null
  PROVE  Ending(Tail(s)) /\ Below({Head(s)}, Items(Tail(s)) \ {Null})
<1>1. Ending(Tail(s))
  BY Taking DEF Ending
<1>2. \A i \in DOMAIN Tail(s) : Tail(s)[i] # Null => Head(s) < Tail(s)[i]
  BY Taking DEF Ending
<1>3. QED  BY <1>1, <1>2 DEF Below, Items

LEMMA IncreasingCons ==
  ASSUME NEW s \in Seq(Int), NEW x \in Int, Increasing(s), Below({x}, Items(s))
  PROVE  /\ Increasing(<<x>> \o s) /\ Items(<<x>> \o s) = {x} \cup Items(s)
         /\ <<x>> \o s \in Seq(Int)
<1> DEFINE r == <<x>> \o s
<1>1. /\ r \in Seq(Int) /\ DOMAIN r = 1..(Len(s) + 1) /\ DOMAIN s = 1..Len(s)
      /\ Len(s) \in Nat /\ r[1] = x
      /\ \A i \in 1..Len(s) : r[i + 1] = s[i]
  OBVIOUS
<1> HIDE DEF r
<1>2. \A i \in DOMAIN r : i = 1 \/ (i - 1 \in DOMAIN s /\ r[i] = s[i - 1])
  BY <1>1
<1>3. \A i \in DOMAIN s : x < s[i]
  BY DEF Below, Items
<1>4. Increasing(r)
  <2>1. ASSUME NEW i \in DOMAIN r, NEW j \in DOMAIN r, i < j  PROVE r[i] < r[j]
    <3>1. j # 1 /\ j - 1 \in DOMAIN s /\ r[j] = s[j - 1] /\ i \in Int /\ j \in Int
      BY <1>1, <1>2, <2>1
    <3>2. CASE i = 1
      BY <1>1, <1>3, <3>1, <3>2
    <3>3. CASE i # 1
      BY <1>2, <2>1, <3>1, <3>3 DEF Increasing
    <3>4. QED  BY <3>2, <3>3
  <2>2. QED  BY <2>1 DEF Increasing
<1>5. Items(r) \subseteq {x} \cup Items(s)
  BY <1>1, <1>2 DEF Items
<1>6. {x} \cup Items(s) \subseteq Items(r)
  <2>1. 1 \in DOMAIN r /\ \A i \in DOMAIN s : i + 1 \in DOMAIN r /\ r[i + 1] = s[i]
    BY <1>1
  <2>2. QED  BY <1>1, <2>1 DEF Items
<1>7. QED  BY <1>1, <1>4, <1>5, <1>6 DEF r

LEMMA Integers ==
  /\ MaxEvents \in Nat \ {0} /\ MaxBuffered \in Nat \ {0}
  /\ \A s \in Seq(Event \cup {Dropped}) : s \in Seq(Int)
  /\ \A s \in Seq(Event \cup {Null}) : s \in Seq(Int)
  /\ \A i \in 0..MaxEvents : i # Null
<1>1. MaxEvents \in Nat \ {0} /\ MaxBuffered \in Nat \ {0}
  BY ChatAssumption
<1>2. Event \cup {Dropped} \subseteq Int /\ Event \cup {Null} \subseteq Int
  BY <1>1 DEF Event, Dropped, Null
<1>3. QED  BY <1>1, <1>2 DEF Null

-----------------------------------------------------------------------------

LEMMA InvInit == Init => Inv
<1> SUFFICES ASSUME Init PROVE Inv
  OBVIOUS
<1>1. TypeOK
  <2>1. <<>> \in Seq(Event \cup {Dropped}) /\ <<>> \in Seq(Event \cup {Null})
    OBVIOUS
  <2>2. pushed \in 0..MaxEvents /\ subscribers = {c \in Client : pc[c] = "tailing"}
    BY Integers DEF Init
  <2>3. /\ replay \in [Client -> Seq(Event \cup {Dropped})]
        /\ queue \in [Client -> Seq(Event \cup {Null})]
        /\ got \in [Client -> Seq(Event \cup {Dropped})]
    BY <2>1 DEF Init
  <2>4. /\ aborted \in [Client -> BOOLEAN] /\ lost \in [Client -> SUBSET Event]
        /\ gap \in [Client -> SUBSET Event]
        /\ pc \in [Client -> {"out", "replaying", "tailing", "over"}]
    BY DEF Init
  <2>5. QED  BY <2>1, <2>2, <2>3, <2>4 DEF Init, TypeOK
<1>2. BufferOrdered
  BY <1>1 DEF Init, BufferOrdered, Increasing, Items
<1>3. ASSUME NEW c \in Client  PROVE PerClient(c)
  BY <1>3 DEF Init, PerClient, GotOrdered, Replaying, Tailing, Covered, Increasing, Ending,
     Items, Below
<1>4. QED  BY <1>1, <1>2, <1>3 DEF Inv

(* A client nothing happens to.                                            *)
LEMMA Untouched ==
  ASSUME NEW c \in Client, PerClient(c), pushed' = pushed, Ended => Ended',
         UNCHANGED <<pc[c], replay[c], queue[c], got[c], aborted[c], lost[c], gap[c]>>
  PROVE  PerClient(c)'
<1>1. GotOrdered(c)'
  BY DEF PerClient, GotOrdered, Increasing, Items
<1>2. Replaying(c)'
  BY DEF PerClient, Replaying, Increasing, Items, Below
<1>3. Tailing(c)'
  BY DEF PerClient, Tailing, Ending, Items, Below
<1>4. Covered(c)'
  BY DEF PerClient, Covered, Items
<1>5. QED  BY <1>1, <1>2, <1>3, <1>4 DEF PerClient

(* The buffer stays in order when it overflows: the marker, in front, is   *)
(* below what is left.                                                     *)
LEMMA BufferKeepsOrder ==
  ASSUME TypeOK, BufferOrdered, pushed < MaxEvents
  PROVE  LET b == Buffered(pushed + 1) IN
         /\ b \in Seq(Event \cup {Dropped}) /\ Increasing(b)
         /\ Items(b) \subseteq 0..(pushed + 1)
<1> DEFINE full == Append(buffer, pushed + 1)
           shifted == Tail(full)
<1>1. /\ pushed \in Nat /\ pushed + 1 \in Event /\ buffer \in Seq(Event \cup {Dropped})
      /\ buffer \in Seq(Int)
  BY Integers DEF TypeOK, Event
<1>2. Below(Items(buffer), {pushed + 1})
  BY <1>1 DEF BufferOrdered, Below
<1>3. /\ full \in Seq(Event \cup {Dropped}) /\ full # <<>>
      /\ Items(full) = Items(buffer) \cup {pushed + 1}
      /\ Increasing(full)
  BY <1>1, <1>2, Appending, IncreasingAppend DEF BufferOrdered
<1>4. Items(full) \subseteq 0..(pushed + 1)
  BY <1>1, <1>3 DEF BufferOrdered
<1>5. full \in Seq(Int)
  BY <1>3, Integers
<1> HIDE DEF full
<1>6. /\ shifted \in Seq(Event \cup {Dropped}) /\ Head(full) \in Event \cup {Dropped}
      /\ Items(full) = {Head(full)} \cup Items(shifted)
      /\ Increasing(shifted) /\ Below({Head(full)}, Items(shifted))
  BY <1>3, <1>5, Taking, IncreasingTail
<1> HIDE DEF shifted
<1>7. shifted \in Seq(Int)
  BY <1>6, Integers
<1>8. shifted = <<>> \/ Head(shifted) # Truncated
  <2>1. ASSUME shifted # <<>>  PROVE Head(shifted) \in Event \cup {Dropped}
    BY <1>6, <2>1
  <2>2. Truncated \notin Event \cup {Dropped}
    BY Integers DEF Truncated, Event, Dropped
  <2>3. QED  BY <2>1, <2>2
<1>9. Below({Dropped}, Items(shifted))
  <2>1. Head(full) \in Nat /\ \A x \in Items(shifted) : x \in Int /\ Head(full) < x
    BY <1>4, <1>6 DEF Below
  <2>2. QED  BY <2>1 DEF Below, Dropped
<1>10. <<Dropped>> \o shifted \in Seq(Event \cup {Dropped})
  BY <1>6
<1>11. /\ Increasing(<<Dropped>> \o shifted)
       /\ Items(<<Dropped>> \o shifted) \subseteq 0..(pushed + 1)
  BY <1>1, <1>4, <1>6, <1>7, <1>9, IncreasingCons DEF Dropped
<1>12. Buffered(pushed + 1) \in {full, <<Dropped>> \o shifted}
  BY <1>8 DEF Buffered, full, shifted
<1>13. QED  BY <1>3, <1>4, <1>10, <1>11, <1>12

-----------------------------------------------------------------------------
(* The steps of the producer.                                              *)

LEMMA PushKeeps == Inv /\ Push => Inv'
<1> SUFFICES ASSUME Inv, Push PROVE Inv'
  OBVIOUS
<1> USE DEF Inv
<1>1. pushed \in Nat /\ pushed + 1 \in Event /\ pushed < MaxEvents /\ ~Ended /\ ~Ended'
  BY Integers DEF TypeOK, Event, Push, Ended
<1>2. /\ buffer' \in Seq(Event \cup {Dropped}) /\ Increasing(buffer')
      /\ Items(buffer') \subseteq 0..(pushed + 1)
  BY <1>1, BufferKeepsOrder DEF Push
<1>3. queue' \in [Client -> Seq(Event \cup {Null})]
  <2>1. \A c \in Client : /\ queue[c] \in Seq(Event \cup {Null})
                          /\ Append(queue[c], pushed + 1) \in Seq(Event \cup {Null})
    BY <1>1, Appending DEF TypeOK
  <2>2. QED  BY <2>1 DEF Push, FanOut
<1>4. TypeOK'
  <2>1. gap' \in [Client -> SUBSET Event]
    BY <1>1 DEF Push, TypeOK
  <2>2. pushed' \in 0..MaxEvents
    BY <1>1, Integers DEF Push
  <2>3. QED  BY <1>2, <1>3, <2>1, <2>2 DEF Push, TypeOK
<1>5. BufferOrdered'
  BY <1>2 DEF BufferOrdered, Push
<1>6. ASSUME NEW c \in Client  PROVE PerClient(c)'
  <2> DEFINE new == pushed + 1
  <2>1. /\ pushed' = new /\ UNCHANGED <<pc[c], replay[c], got[c], aborted[c], lost[c]>>
        /\ PerClient(c)
    BY <1>6 DEF Push
  <2>2. queue'[c] = IF pc[c] = "tailing" THEN Append(queue[c], new) ELSE queue[c]
    BY <1>6 DEF Push, FanOut, TypeOK
  <2>3. gap'[c] = IF pc[c] = "replaying" THEN gap[c] \cup {new} ELSE gap[c]
    BY <1>6 DEF Push
  <2>4. queue[c] \in Seq(Event \cup {Null}) /\ queue[c] \in Seq(Int)
    BY <1>6, Integers DEF TypeOK
  <2>5. 0..pushed \subseteq 0..new /\ 1..pushed \subseteq 1..new /\ 1..new = (1..pushed) \cup {new}
        /\ new \in Int /\ \A x \in 0..pushed : x < new /\ x # Null
    BY <1>1, Integers DEF Null
  <2>6. Items(Append(queue[c], new)) = Items(queue[c]) \cup {new}
    BY <1>1, <2>4, Appending
  <2>7. GotOrdered(c)'
    BY <2>1, <2>5 DEF PerClient, GotOrdered, Increasing, Items
  <2>8. Replaying(c)'
    BY <2>1, <2>2, <2>5 DEF PerClient, Replaying, Increasing, Items, Below
  <2>9. Tailing(c)'
    <3> SUFFICES ASSUME ~aborted[c]
        PROVE  /\ Ending(queue'[c]) /\ Items(queue'[c]) \subseteq (1..new) \cup {Null}
               /\ Below(Items(got[c]), Items(queue'[c]) \ {Null})
               /\ (Null \in Items(queue'[c]) \/ pc[c] = "over") => Ended'
      BY <2>1 DEF Tailing, Items, Below, Ending
    <3>1. /\ Ending(queue[c]) /\ Items(queue[c]) \subseteq (1..pushed) \cup {Null}
          /\ Below(Items(got[c]), Items(queue[c]) \ {Null})
          /\ Null \notin Items(queue[c]) /\ pc[c] # "over"
          /\ Items(got[c]) \subseteq 0..pushed
      BY <1>1, <2>1 DEF PerClient, Tailing, GotOrdered
    <3>2. CASE pc[c] = "tailing"
      <4>1. Below(Items(queue[c]), {new}) /\ Below(Items(got[c]), {new})
        BY <3>1, <2>5 DEF Below
      <4>2. Ending(Append(queue[c], new))
        BY <2>4, <2>5, <3>1, <4>1, EndingAppend
      <4>3. new # Null
        BY <1>1 DEF Null
      <4>4. Below(Items(got[c]), (Items(queue[c]) \cup {new}) \ {Null})
        BY <3>1, <4>1 DEF Below
      <4>5. QED  BY <2>2, <2>5, <2>6, <3>1, <3>2, <4>2, <4>3, <4>4
    <3>3. CASE pc[c] # "tailing"
      BY <2>2, <2>5, <3>1, <3>3
    <3>4. QED  BY <3>2, <3>3
  <2>10. Covered(c)'
    <3> SUFFICES ASSUME ~aborted[c]
        PROVE  /\ pc[c] = "replaying" =>
                    1..new \subseteq Items(got[c]) \cup Items(replay[c]) \cup lost[c] \cup gap'[c]
               /\ pc[c] \in {"tailing", "over"} =>
                    1..new \subseteq Items(got[c]) \cup Items(queue'[c]) \cup lost[c] \cup gap'[c]
      BY <2>1 DEF Covered, Items
    <3>1. pc[c] # "over"
      BY <1>1, <2>1 DEF PerClient, Tailing
    <3>2. QED  BY <2>1, <2>2, <2>3, <2>5, <2>6, <3>1 DEF PerClient, Covered
  <2>11. QED  BY <2>7, <2>8, <2>9, <2>10 DEF PerClient
<1>7. QED  BY <1>4, <1>5, <1>6

(* The null that ends every subscription: nothing is pushed behind it.     *)
LEMMA Nulls ==
  ASSUME Inv, Ended', UNCHANGED <<pushed, buffer, subscribers, pc, replay, got, aborted,
                                  lost, gap>>,
         present' \in BOOLEAN, done' \in BOOLEAN, age' = age,
         FanOut(Null) \/ UNCHANGED queue
  PROVE  Inv'
<1> USE DEF Inv
<1>1. \A c \in Client : /\ queue[c] \in Seq(Event \cup {Null}) /\ queue[c] \in Seq(Int)
                        /\ Append(queue[c], Null) \in Seq(Event \cup {Null})
                        /\ Items(Append(queue[c], Null)) = Items(queue[c]) \cup {Null}
  BY Integers, Appending DEF TypeOK
<1>2. queue' \in [Client -> Seq(Event \cup {Null})]
  BY <1>1 DEF FanOut, TypeOK
<1>3. TypeOK'
  BY <1>2 DEF TypeOK
<1>4. BufferOrdered'
  BY DEF BufferOrdered
<1>5. ASSUME NEW c \in Client  PROVE PerClient(c)'
  <2>1. CASE queue'[c] = queue[c]
    BY <1>5, <2>1, Untouched
  <2>2. CASE queue'[c] # queue[c]
    <3>1. queue'[c] = Append(queue[c], Null) /\ pc[c] = "tailing"
      BY <1>5, <2>2 DEF FanOut, TypeOK
    <3>2. GotOrdered(c)' /\ Replaying(c)'
      BY <1>5, <3>1 DEF PerClient, GotOrdered, Replaying
    <3>3. Items(queue'[c]) = Items(queue[c]) \cup {Null}
      BY <1>1, <3>1
    <3>4. Tailing(c)'
      <4> SUFFICES ASSUME ~aborted[c]
          PROVE  /\ Ending(queue'[c]) /\ Items(queue'[c]) \subseteq (1..pushed) \cup {Null}
                 /\ Below(Items(got[c]), Items(queue'[c]) \ {Null})
        BY DEF Tailing
      <4>1. Ending(queue'[c])
        <5>1. Null \in Int
          BY DEF Null
        <5>2. Ending(queue[c])
          BY <1>5 DEF PerClient, Tailing
        <5>3. QED  BY <1>1, <1>5, <3>1, <5>1, <5>2, EndingAppend
      <4>2. QED  BY <3>3, <4>1 DEF PerClient, Tailing, Below
    <3>5. Covered(c)'
      BY <3>1, <3>3 DEF PerClient, Covered
    <3>6. QED  BY <3>2, <3>4, <3>5 DEF PerClient
  <2>3. QED  BY <2>1, <2>2
<1>6. QED  BY <1>3, <1>4, <1>5

LEMMA EndKeeps ==
  Inv /\ (Close \/ LifetimeTimer \/ EvictTimer \/ EvictExpiredSessions \/ Shutdown) => Inv'
<1> SUFFICES ASSUME Inv, Close \/ LifetimeTimer \/ EvictTimer \/ EvictExpiredSessions \/ Shutdown
             PROVE  Inv'
  OBVIOUS
<1>1. present \in BOOLEAN /\ done \in BOOLEAN
  BY DEF Inv, TypeOK
<1>2. CASE Close \/ LifetimeTimer
  BY <1>1, <1>2, Nulls DEF Close, LifetimeTimer, Ended
<1>3. CASE EvictTimer
  BY <1>1, <1>3, Nulls DEF EvictTimer, Ended, clientVars
<1>4. CASE EvictExpiredSessions
  BY <1>1, <1>4, Nulls DEF EvictExpiredSessions, Remove, Ended
<1>5. CASE Shutdown
  BY <1>1, <1>5, Nulls DEF Shutdown, Ended
<1>6. QED  BY <1>2, <1>3, <1>4, <1>5

-----------------------------------------------------------------------------
(* The steps of a client touch no other client, nor the session.           *)

(* What a step of one client leaves for its own case to show.              *)
LEMMA OneClient ==
  ASSUME Inv, NEW c \in Client, UNCHANGED <<pushed, buffer, present, done, age>>,
         NEW p \in {"replaying", "tailing", "over"},
         NEW r \in Seq(Event \cup {Dropped}), NEW q \in Seq(Event \cup {Null}),
         NEW g \in Seq(Event \cup {Dropped}), NEW a \in BOOLEAN, NEW l \in SUBSET Event,
         pc' = [pc EXCEPT ![c] = p], replay' = [replay EXCEPT ![c] = r],
         queue' = [queue EXCEPT ![c] = q], got' = [got EXCEPT ![c] = g],
         aborted' = [aborted EXCEPT ![c] = a], lost' = [lost EXCEPT ![c] = l], gap' = gap,
         subscribers' = IF p = "tailing" THEN subscribers \cup {c} ELSE subscribers \ {c},
         PerClient(c)'
  PROVE  Inv'
<1>1. TypeOK'
  <2>1. subscribers' = {d \in Client : pc'[d] = "tailing"}
    BY DEF Inv, TypeOK
  <2>2. QED  BY <2>1 DEF Inv, TypeOK
<1>2. BufferOrdered'
  BY DEF Inv, BufferOrdered
<1>3. ASSUME NEW d \in Client, d # c  PROVE PerClient(d)'
  <2>1. PerClient(d) /\ (Ended => Ended')
    BY DEF Inv, Ended
  <2>2. UNCHANGED <<pc[d], replay[d], queue[d], got[d], aborted[d], lost[d], gap[d]>>
    BY <1>3 DEF Inv, TypeOK
  <2>3. QED  BY <1>3, <2>1, <2>2, Untouched
<1>4. QED  BY <1>1, <1>2, <1>3 DEF Inv

(* The state of a client that comes to the end of its replay, or ends.     *)
LEMMA Joining ==
  ASSUME Inv, NEW c \in Client, JoinTail(c), pc[c] \in {"out", "replaying"},
         UNCHANGED <<pushed, buffer, present, done, age, got, aborted, gap>>,
         replay[c] = <<>>, GotOrdered(c),
         NEW l \in SUBSET Event, lost' = [lost EXCEPT ![c] = l],
         ~aborted[c] => 1..pushed \subseteq Items(got[c]) \cup l \cup gap[c]
  PROVE  Inv'
<1>1. queue[c] = <<>> /\ <<>> \in Seq(Event \cup {Null}) /\ Items(queue[c]) = {}
  <2>1. queue[c] = <<>>
    BY DEF Inv, PerClient, Replaying
  <2>2. QED  BY <2>1 DEF Items
<1>2. /\ replay' = [replay EXCEPT ![c] = <<>>] /\ queue' = [queue EXCEPT ![c] = <<>>]
      /\ got' = [got EXCEPT ![c] = got[c]] /\ aborted' = [aborted EXCEPT ![c] = aborted[c]]
  BY <1>1 DEF JoinTail, Over, Inv, TypeOK
<1>3. PICK p \in {"tailing", "over"} :
        /\ pc' = [pc EXCEPT ![c] = p] /\ (p = "over" => done \/ aborted[c])
        /\ subscribers' = IF p = "tailing" THEN subscribers \cup {c} ELSE subscribers
  BY DEF JoinTail, Over
<1>4. subscribers' = IF p = "tailing" THEN subscribers \cup {c} ELSE subscribers \ {c}
  BY <1>3 DEF Inv, TypeOK
<1>5. /\ pc'[c] = p /\ replay'[c] = <<>> /\ queue'[c] = <<>> /\ lost'[c] = l
      /\ UNCHANGED <<got[c], aborted[c], gap[c]>>
  BY <1>2, <1>3 DEF Inv, TypeOK
<1>6. GotOrdered(c)' /\ Replaying(c)'
  BY <1>3, <1>5 DEF GotOrdered, Replaying
<1>7. Tailing(c)'
  BY <1>3, <1>5 DEF Tailing, Ending, Items, Below, Ended
<1>8. Covered(c)'
  <2>1. Items(queue'[c]) = {}
    BY <1>5 DEF Items
  <2>2. QED  BY <1>3, <1>5, <2>1 DEF Covered
<1>9. PerClient(c)'
  BY <1>6, <1>7, <1>8 DEF PerClient
<1>10. /\ got[c] \in Seq(Event \cup {Dropped}) /\ aborted[c] \in BOOLEAN
       /\ replay[c] \in Seq(Event \cup {Dropped})
  BY DEF Inv, TypeOK
<1>11. QED  BY <1>1, <1>2, <1>3, <1>4, <1>9, <1>10, OneClient

LEMMA SubscribeKeeps ==
  ASSUME Inv, NEW c \in Client, Subscribe(c)  PROVE Inv'
<1> DEFINE l == (1..pushed) \ Items(buffer)
<1>1. /\ pc[c] = "out" /\ pushed \in Nat /\ l \in SUBSET Event
      /\ lost' = [lost EXCEPT ![c] = l]
      /\ UNCHANGED <<pushed, buffer, present, done, age, aborted, gap>>
  BY Integers DEF Subscribe, Inv, TypeOK, Event
<1>2. /\ queue[c] = <<>> /\ replay[c] = <<>> /\ GotOrdered(c) /\ Replaying(c)
  BY <1>1 DEF Inv, TypeOK, PerClient, Replaying
<1>3. CASE buffer # <<>>
  <2>1. /\ buffer \in Seq(Event \cup {Dropped}) /\ buffer \in Seq(Int)
        /\ Increasing(buffer) /\ Items(buffer) \subseteq 0..pushed
    BY Integers DEF Inv, TypeOK, BufferOrdered
  <2> DEFINE h == Head(buffer)
             r == Tail(buffer)
  <2>2. /\ r \in Seq(Event \cup {Dropped}) /\ h \in Event \cup {Dropped}
        /\ Items(buffer) = {h} \cup Items(r)
        /\ Increasing(r) /\ Below({h}, Items(r))
    BY <1>3, <2>1, Taking, IncreasingTail
  <2>3. <<h>> \in Seq(Event \cup {Dropped}) /\ Items(<<h>>) = {h} /\ Increasing(<<h>>)
    BY <2>2 DEF Items, Increasing
  <2>4. /\ pc' = [pc EXCEPT ![c] = "replaying"] /\ replay' = [replay EXCEPT ![c] = r]
        /\ got' = [got EXCEPT ![c] = <<h>>] /\ UNCHANGED <<subscribers, queue>>
    BY <1>3 DEF Subscribe
  <2> HIDE DEF h, r, l
  <2>5. /\ queue' = [queue EXCEPT ![c] = <<>>] /\ <<>> \in Seq(Event \cup {Null})
        /\ aborted' = [aborted EXCEPT ![c] = aborted[c]] /\ aborted[c] \in BOOLEAN
        /\ subscribers' = subscribers \ {c}
    BY <1>1, <1>2, <2>4 DEF Inv, TypeOK
  <2>6. /\ pc'[c] = "replaying" /\ replay'[c] = r /\ got'[c] = <<h>> /\ queue'[c] = <<>>
        /\ lost'[c] = l /\ pushed' = pushed
    BY <1>1, <2>4, <2>5 DEF Inv, TypeOK
  <2>7. GotOrdered(c)'
    BY <2>1, <2>2, <2>3, <2>6 DEF GotOrdered
  <2>8. Replaying(c)'
    BY <2>1, <2>2, <2>3, <2>6 DEF Replaying
  <2>9. Items(queue'[c]) = {}
    BY <2>6 DEF Items
  <2>10. Tailing(c)'
    BY <2>6, <2>9 DEF Tailing, Ending, Below
  <2>11. 1..pushed \subseteq Items(got'[c]) \cup Items(replay'[c]) \cup lost'[c]
    BY <2>2, <2>3, <2>6 DEF l
  <2>12. Covered(c)'
    BY <2>6, <2>11 DEF Covered
  <2>13. PerClient(c)'
    BY <2>7, <2>8, <2>10, <2>12 DEF PerClient
  <2>14. QED
    BY <1>1, <2>2, <2>3, <2>4, <2>5, <2>13, OneClient
<1>4. CASE buffer = <<>>
  <2>1. Items(buffer) = {}
    BY <1>4 DEF Items
  <2>2. JoinTail(c) /\ UNCHANGED got
    BY <1>4 DEF Subscribe
  <2>3. QED
    BY <1>1, <1>2, <2>1, <2>2, Joining
<1>5. QED  BY <1>3, <1>4

LEMMA NextReplayedKeeps ==
  ASSUME Inv, NEW c \in Client, NextReplayed(c)  PROVE Inv'
<1>1. /\ pc[c] = "replaying"
      /\ UNCHANGED <<pushed, buffer, present, done, age, aborted, lost, gap>>
  BY DEF NextReplayed
<1>2. /\ queue[c] = <<>> /\ GotOrdered(c) /\ Replaying(c) /\ Tailing(c) /\ Covered(c)
      /\ replay[c] \in Seq(Event \cup {Dropped}) /\ got[c] \in Seq(Event \cup {Dropped})
      /\ aborted[c] \in BOOLEAN /\ lost[c] \in SUBSET Event
      /\ <<>> \in Seq(Event \cup {Dropped}) /\ <<>> \in Seq(Event \cup {Null})
      /\ pushed \in Nat
  BY <1>1 DEF Inv, TypeOK, PerClient, Replaying
<1>3. /\ aborted' = [aborted EXCEPT ![c] = aborted[c]] /\ lost' = [lost EXCEPT ![c] = lost[c]]
      /\ subscribers = subscribers \ {c}
  BY <1>1 DEF Inv, TypeOK
<1>4. PICK a \in BOOLEAN, l \in SUBSET Event :
        aborted' = [aborted EXCEPT ![c] = a] /\ lost' = [lost EXCEPT ![c] = l]
  BY <1>2, <1>3
<1>5. CASE replay[c] = <<>>
  <2>1. JoinTail(c) /\ UNCHANGED got
    BY <1>5 DEF NextReplayed
  <2>2. Items(replay[c]) = {}
    BY <1>5 DEF Items
  <2>3. ~aborted[c] => 1..pushed \subseteq Items(got[c]) \cup lost[c] \cup gap[c]
    BY <1>1, <1>2, <2>2 DEF Covered
  <2>4. QED
    BY <1>1, <1>2, <1>3, <1>5, <2>1, <2>3, Joining
<1>6. CASE replay[c] # <<>> /\ aborted[c]
  <2>1. /\ pc' = [pc EXCEPT ![c] = "over"] /\ replay' = [replay EXCEPT ![c] = <<>>]
        /\ queue' = [queue EXCEPT ![c] = <<>>] /\ got' = [got EXCEPT ![c] = got[c]]
        /\ UNCHANGED <<got, subscribers>>
    BY <1>6 DEF NextReplayed, Over, Inv, TypeOK
  <2>2. /\ pc'[c] = "over" /\ queue'[c] = <<>> /\ replay'[c] = <<>> /\ aborted'[c]
        /\ UNCHANGED <<got[c], pushed>> /\ subscribers' = subscribers \ {c}
    BY <1>1, <1>3, <1>6, <2>1 DEF Inv, TypeOK
  <2>3. PerClient(c)'
    BY <1>2, <2>2 DEF PerClient, GotOrdered, Replaying, Tailing, Covered
  <2>4. QED
    BY <1>1, <1>2, <1>4, <2>1, <2>2, <2>3, OneClient
<1>7. CASE replay[c] # <<>> /\ ~aborted[c]
  <2> DEFINE h == Head(replay[c])
             r == Tail(replay[c])
             g == Append(got[c], h)
  <2>1. replay[c] \in Seq(Int) /\ got[c] \in Seq(Int)
    BY <1>2, Integers
  <2>2. /\ Increasing(replay[c]) /\ Items(replay[c]) \subseteq 0..pushed
        /\ Below(Items(got[c]), Items(replay[c]))
        /\ Increasing(got[c]) /\ Items(got[c]) \subseteq 0..pushed
    BY <1>1, <1>2 DEF Replaying, GotOrdered
  <2>3. /\ r \in Seq(Event \cup {Dropped}) /\ h \in Event \cup {Dropped} /\ h \in Int
        /\ Items(replay[c]) = {h} \cup Items(r)
        /\ Increasing(r) /\ Below({h}, Items(r))
    BY <1>2, <1>7, <2>1, <2>2, Taking, IncreasingTail
  <2> HIDE DEF h, r
  <2>4. /\ g \in Seq(Event \cup {Dropped}) /\ Items(g) = Items(got[c]) \cup {h}
    BY <1>2, <2>3, Appending
  <2>5. Below(Items(got[c]), {h})
    BY <2>2, <2>3 DEF Below
  <2>6. Increasing(g)
    BY <2>1, <2>2, <2>3, <2>5, IncreasingAppend
  <2>7. Below(Items(g), Items(r))
    BY <2>2, <2>3, <2>4 DEF Below
  <2> HIDE DEF g
  <2>8. /\ replay' = [replay EXCEPT ![c] = r] /\ got' = [got EXCEPT ![c] = g]
        /\ UNCHANGED <<pc, queue, subscribers>>
    BY <1>7 DEF NextReplayed, h, r, g
  <2>9. /\ pc' = [pc EXCEPT ![c] = "replaying"] /\ queue' = [queue EXCEPT ![c] = <<>>]
    BY <1>1, <1>2, <2>8 DEF Inv, TypeOK
  <2>10. /\ pc'[c] = "replaying" /\ replay'[c] = r /\ got'[c] = g /\ queue'[c] = queue[c]
         /\ UNCHANGED <<pushed, aborted[c], lost[c], gap[c], done, present, pc[c]>>
    BY <1>1, <2>8 DEF Inv, TypeOK
  <2>11. GotOrdered(c)'
    BY <2>2, <2>3, <2>4, <2>6, <2>10 DEF GotOrdered
  <2>12. Replaying(c)'
    BY <1>2, <2>2, <2>3, <2>7, <2>10 DEF Replaying
  <2>13. Tailing(c)'
    <3>1. Items(queue[c]) = {}
      BY <1>2 DEF Items
    <3>2. QED  BY <1>2, <2>10, <3>1 DEF Tailing, Ending, Below
  <2>14. Covered(c)'
    BY <1>2, <2>3, <2>4, <2>10 DEF Covered
  <2>15. PerClient(c)'
    BY <2>11, <2>12, <2>13, <2>14 DEF PerClient
  <2>16. QED
    BY <1>1, <1>2, <1>3, <1>4, <2>3, <2>4, <2>8, <2>9, <2>15, OneClient
<1>8. QED  BY <1>5, <1>6, <1>7

LEMMA NextLiveKeeps ==
  ASSUME Inv, NEW c \in Client, NextLive(c)  PROVE Inv'
<1>1. /\ pc[c] = "tailing" /\ queue[c] # <<>>
      /\ UNCHANGED <<pushed, buffer, present, done, age, aborted, lost, gap>>
  BY DEF NextLive
<1>2. /\ GotOrdered(c) /\ Replaying(c) /\ Tailing(c) /\ Covered(c)
      /\ replay[c] \in Seq(Event \cup {Dropped}) /\ got[c] \in Seq(Event \cup {Dropped})
      /\ queue[c] \in Seq(Event \cup {Null})
      /\ aborted[c] \in BOOLEAN /\ lost[c] \in SUBSET Event
      /\ <<>> \in Seq(Event \cup {Dropped}) /\ <<>> \in Seq(Event \cup {Null})
      /\ pushed \in Nat
  BY <1>1 DEF Inv, TypeOK, PerClient
<1>3. /\ aborted' = [aborted EXCEPT ![c] = aborted[c]] /\ lost' = [lost EXCEPT ![c] = lost[c]]
  BY <1>1 DEF Inv, TypeOK
<1>4. PICK a \in BOOLEAN, l \in SUBSET Event :
        aborted' = [aborted EXCEPT ![c] = a] /\ lost' = [lost EXCEPT ![c] = l]
  BY <1>2, <1>3
<1> DEFINE h == Head(queue[c])
           q == Tail(queue[c])
           g == Append(got[c], h)
<1>5. queue[c] \in Seq(Int) /\ got[c] \in Seq(Int)
  BY <1>2, Integers
<1>6. /\ q \in Seq(Event \cup {Null}) /\ h \in Event \cup {Null} /\ h \in Int
      /\ Items(queue[c]) = {h} \cup Items(q)
  BY <1>1, <1>2, <1>5, Taking
<1>7. CASE h = Null \/ aborted[c]
  <2>1. /\ pc' = [pc EXCEPT ![c] = "over"] /\ replay' = [replay EXCEPT ![c] = <<>>]
        /\ queue' = [queue EXCEPT ![c] = <<>>] /\ got' = [got EXCEPT ![c] = got[c]]
        /\ subscribers' = subscribers \ {c}
    BY <1>7 DEF NextLive, Over, Unsubscribe, Inv, TypeOK
  <2>2. /\ pc'[c] = "over" /\ queue'[c] = <<>> /\ replay'[c] = <<>>
        /\ UNCHANGED <<got[c], pushed, aborted[c], lost[c], gap[c], done, present>>
    BY <1>1, <2>1 DEF Inv, TypeOK
  <2>3. GotOrdered(c)' /\ Replaying(c)'
    BY <1>2, <2>2 DEF GotOrdered, Replaying
  <2>4. CASE aborted[c]
    <3>1. PerClient(c)'
      BY <2>2, <2>3, <2>4 DEF PerClient, Tailing, Covered
    <3>2. QED
      BY <1>1, <1>2, <1>4, <2>1, <3>1, OneClient
  <2>5. CASE ~aborted[c]
    (* Only nulls behind a null: every event has been handed over.         *)
    <3>1. /\ Ended /\ Ending(queue[c]) /\ h = Null
      BY <1>2, <1>6, <1>7, <2>5 DEF Tailing
    <3>2. Items(queue[c]) = {Null}
      <4>1. \A i \in DOMAIN queue[c] : queue[c][i] = Null
        BY <1>1, <1>2, <3>1, Taking DEF Ending
      <4>2. QED  BY <1>6, <3>1, <4>1 DEF Items
    <3>3. Items(queue'[c]) = {}
      BY <2>2 DEF Items
    <3>4. Tailing(c)'
      BY <2>2, <3>1, <3>3 DEF Tailing, Ending, Below, Ended
    <3>5. Covered(c)'
      <4>1. Null \notin 1..pushed
        BY <1>2 DEF Null
      <4>2. QED  BY <1>1, <1>2, <2>2, <2>5, <3>2, <4>1 DEF Covered
    <3>6. PerClient(c)'
      BY <2>3, <3>4, <3>5 DEF PerClient
    <3>7. QED
      BY <1>1, <1>2, <1>4, <2>1, <3>6, OneClient
  <2>6. QED  BY <2>4, <2>5
<1>8. CASE h # Null /\ ~aborted[c]
  <2>1. /\ Ending(queue[c]) /\ Items(queue[c]) \subseteq (1..pushed) \cup {Null}
        /\ Below(Items(got[c]), Items(queue[c]) \ {Null})
        /\ Increasing(got[c]) /\ Items(got[c]) \subseteq 0..pushed
        /\ Null \in Items(queue[c]) => Ended
    BY <1>2, <1>8 DEF Tailing, GotOrdered
  <2>2. Ending(q) /\ Below({h}, Items(q) \ {Null})
    BY <1>1, <1>5, <1>8, <2>1, EndingTail
  <2>3. h \in Event \cup {Dropped} /\ h \in 1..pushed
    BY <1>6, <1>8, <2>1
  <2> HIDE DEF h, q
  <2>4. /\ g \in Seq(Event \cup {Dropped}) /\ Items(g) = Items(got[c]) \cup {h}
    BY <1>2, <2>3, Appending
  <2>5. Below(Items(got[c]), {h})
    BY <1>6, <1>8, <2>1 DEF Below
  <2>6. Increasing(g)
    BY <1>5, <1>6, <2>1, <2>5, IncreasingAppend
  <2>7. Below(Items(g), Items(q) \ {Null})
    BY <1>6, <2>1, <2>2, <2>4 DEF Below
  <2> HIDE DEF g
  <2>8. /\ queue' = [queue EXCEPT ![c] = q] /\ got' = [got EXCEPT ![c] = g]
        /\ UNCHANGED <<pc, replay, subscribers>>
    BY <1>8 DEF NextLive, h, q, g
  <2>9. /\ pc' = [pc EXCEPT ![c] = "tailing"] /\ replay' = [replay EXCEPT ![c] = replay[c]]
        /\ subscribers' = subscribers \cup {c}
    BY <1>1, <2>8 DEF Inv, TypeOK
  <2>10. /\ pc'[c] = "tailing" /\ queue'[c] = q /\ got'[c] = g /\ replay'[c] = replay[c]
         /\ UNCHANGED <<pushed, aborted[c], lost[c], gap[c], done, present>>
    BY <1>1, <2>8 DEF Inv, TypeOK
  <2>11. GotOrdered(c)' /\ Replaying(c)'
    BY <1>1, <1>2, <2>1, <2>3, <2>4, <2>6, <2>10 DEF GotOrdered, Replaying
  <2>12. Tailing(c)'
    BY <1>1, <1>6, <2>1, <2>2, <2>7, <2>10 DEF Tailing, Ended
  <2>13. Covered(c)'
    BY <1>1, <1>2, <1>6, <2>4, <2>10 DEF Covered
  <2>14. PerClient(c)'
    BY <2>11, <2>12, <2>13 DEF PerClient
  <2>15. QED
    BY <1>1, <1>2, <1>4, <1>6, <2>4, <2>8, <2>9, <2>14, OneClient
<1>9. QED  BY <1>7, <1>8

(* Of an aborted client nothing is claimed but the order of what it got.   *)
LEMMA AbortKeeps ==
  ASSUME Inv, NEW c \in Client, AbortClient(c)  PROVE Inv'
<1> DEFINE q == IF pc[c] = "tailing" THEN Append(queue[c], Null) ELSE queue[c]
<1>1. /\ pc[c] \in {"replaying", "tailing"} /\ aborted' = [aborted EXCEPT ![c] = TRUE]
      /\ queue' = [queue EXCEPT ![c] = q]
      /\ UNCHANGED <<pushed, buffer, present, done, age, subscribers, pc, replay, got, lost, gap>>
  BY DEF AbortClient
<1>2. q \in Seq(Event \cup {Null})
  BY Appending DEF Inv, TypeOK
<1>3. /\ pc' = [pc EXCEPT ![c] = pc[c]] /\ replay' = [replay EXCEPT ![c] = replay[c]]
      /\ got' = [got EXCEPT ![c] = got[c]] /\ lost' = [lost EXCEPT ![c] = lost[c]]
      /\ subscribers' = IF pc[c] = "tailing" THEN subscribers \cup {c} ELSE subscribers \ {c}
      /\ replay[c] \in Seq(Event \cup {Dropped}) /\ got[c] \in Seq(Event \cup {Dropped})
      /\ lost[c] \in SUBSET Event
  BY <1>1 DEF Inv, TypeOK
<1>4. aborted'[c] /\ UNCHANGED <<pushed, pc[c], replay[c], got[c]>> /\ queue'[c] = q
  BY <1>1 DEF Inv, TypeOK
<1>5. PerClient(c)'
  <2>1. GotOrdered(c) /\ Replaying(c)
    BY DEF Inv, PerClient
  <2>2. GotOrdered(c)' /\ Replaying(c)'
    BY <1>4, <2>1 DEF GotOrdered, Replaying
  <2>3. QED  BY <1>4, <2>2 DEF PerClient, Tailing, Covered
<1> HIDE DEF q
<1>6. PICK p \in {"replaying", "tailing"}, r \in Seq(Event \cup {Dropped}),
           g \in Seq(Event \cup {Dropped}), l \in SUBSET Event :
        /\ pc' = [pc EXCEPT ![c] = p] /\ replay' = [replay EXCEPT ![c] = r]
        /\ got' = [got EXCEPT ![c] = g] /\ lost' = [lost EXCEPT ![c] = l]
        /\ subscribers' = IF p = "tailing" THEN subscribers \cup {c} ELSE subscribers \ {c}
  BY <1>1, <1>3
<1>7. QED  BY <1>1, <1>2, <1>5, <1>6, OneClient

-----------------------------------------------------------------------------

LEMMA InvNext == Inv /\ [Next]_vars => Inv'
<1> SUFFICES ASSUME Inv, [Next]_vars PROVE Inv'
  OBVIOUS
<1>1. CASE Push
  BY <1>1, PushKeeps
<1>2. CASE Close \/ LifetimeTimer \/ EvictTimer \/ EvictExpiredSessions \/ Shutdown
  BY <1>2, EndKeeps
<1>3. CASE \E c \in Client : Subscribe(c) \/ Reads(c) \/ AbortClient(c)
  BY <1>3, SubscribeKeeps, NextReplayedKeeps, NextLiveKeeps, AbortKeeps DEF Reads
<1>4. CASE TimePasses \/ UNCHANGED vars
  <2>1. /\ UNCHANGED <<pushed, buffer, present, done, subscribers, pc, replay, queue, got,
                       aborted, lost, gap>>
        /\ age' \in {"young", "graced", "aged"}
    BY <1>4 DEF TimePasses, vars, clientVars, Inv, TypeOK
  <2>2. TypeOK' /\ BufferOrdered'
    BY <2>1 DEF Inv, TypeOK, BufferOrdered
  <2>3. ASSUME NEW c \in Client  PROVE PerClient(c)'
    BY <2>1, Untouched DEF Inv, Ended
  <2>4. QED  BY <2>2, <2>3 DEF Inv
<1>5. QED  BY <1>1, <1>2, <1>3, <1>4 DEF Next

(* The invariant holds in every state of every session.                    *)
THEOREM Invariance == Spec => []Inv
<1>1. QED  BY InvInit, InvNext, PTL DEF Spec

(* The state has the types the module says.                                *)
THEOREM TypeCorrect == Spec => []TypeOK
<1>1. Inv => TypeOK
  BY DEF Inv
<1>2. QED  BY <1>1, Invariance, PTL

(* Events reach every client in the order they were pushed and none twice, *)
(* whatever is dropped, and whenever it attaches.                          *)
THEOREM InOrderCorrect == Spec => []InOrder
<1>1. Inv => InOrder
  BY DEF Inv, PerClient, GotOrdered, Increasing, InOrder
<1>2. QED  BY <1>1, Invariance, PTL

(* A client misses only what was dropped before it came and what was       *)
(* pushed during its replay.                                               *)
THEOREM NothingElseMissedCorrect == Spec => []NothingElseMissed
<1>1. Inv => NothingElseMissed
  BY DEF Inv, PerClient, Covered, NothingElseMissed
<1>2. QED  BY <1>1, Invariance, PTL
=============================================================================
