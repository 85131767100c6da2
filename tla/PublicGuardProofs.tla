-------------------------- MODULE PublicGuardProofs --------------------------
(***************************************************************************)
(* What PublicGuard promises for any number of clients, players, slots and *)
(* permits.                                                                *)
(*                                                                         *)
(* The argument: however a request goes on, it does one of three things to *)
(* the counters.  It arrives and takes a slot; it leaves, through both     *)
(* finally clauses; or it moves on and takes or returns a permit exactly   *)
(* when it enters or leaves the steps that hold one.                       *)
(***************************************************************************)
EXTENDS PublicGuard, FiniteSetTheorems, TLAPS

\* A request that holds a permit
Charged(c) ==
  \/ At(c, {"querying"})
  \/ At(c, {"serving", "sending", "refusing"}) /\ request[c].tool = "refresh"

UnderWay == {c \in Conn : request[c] # Idle}
Charges == {c \in Conn : Charged(c)}

Rates ==
  /\ DOMAIN rates \subseteq Player
  /\ IsFiniteSet(DOMAIN rates)
  /\ Cardinality(DOMAIN rates) <= RatePlayers
  /\ rates = [p \in DOMAIN rates |-> rates[p]]
  /\ \A p \in DOMAIN rates : rates[p] \in [left : 0..Window, count : 0..PerWindow]

\* What a request is at each of its awaits
RequestTrue(r) ==
  /\ r.step = "querying" => r.tool = "query"
  /\ r.step \in {"authenticating", "receiving", "overflowing"} => r.tool # "refresh"
  /\ r.step \notin Replying => r.answers = 0 /\ ~r.begun
  /\ r.step \in Replying \ {"rejecting"} => r.answers = IF r.begun THEN 1 ELSE 0
  /\ r.step = "rejecting" =>
       /\ r.answers <= IF r.begun THEN 2 ELSE 1
       /\ r.tool = "refresh" => r.answers <= IF r.begun THEN 1 ELSE 0

\* What the table does not know is in proportion to what it knows: no request is younger
\* than an open window and missing in its count, and whatever is older than it, or than
\* the expiry of the last one, is at most one window's worth.
RecentTrue ==
  \A p \in Player :
    /\ \A i \in Ticks : i # 1 => recent[p][i - 1] <= recent[p][i]
    /\ p \in Live =>
         /\ recent[p][Window - rates[p].left + 1] <= rates[p].count
         /\ recent[p][Window] <= PerWindow + rates[p].count
    /\ p \notin Live => recent[p][1] = 0 /\ recent[p][Window] <= PerWindow

Inv ==
  /\ active \in Int /\ active <= ActiveRequests
  /\ permits \in Int
  /\ request \in [Conn -> Request \cup {Idle}]
  /\ \A c \in Conn : request[c] # Idle => RequestTrue(request[c])
  /\ Rates
  /\ recent \in [Player -> [Ticks -> Nat]]
  /\ active = Cardinality(UnderWay)
  /\ permits = Permits - Cardinality(Charges) /\ permits >= 0

-----------------------------------------------------------------------------
(* Counting                                                                *)

LEMMA Counting ==
  ASSUME NEW S \in SUBSET Conn, NEW c \in Conn
  PROVE  /\ Cardinality(S) \in Nat
         /\ c \notin S => Cardinality(S \cup {c}) = Cardinality(S) + 1
         /\ c \in S => Cardinality(S \ {c}) = Cardinality(S) - 1
<1>1. IsFiniteSet(S)
  BY ConnAssumption, FS_Subset
<1> QED
  BY <1>1, FS_CardinalityType, FS_AddElement, FS_RemoveElement

-----------------------------------------------------------------------------
(* The three things a step does                                            *)

\* A request goes on, and holds a permit from then on or no more.
Moves(c) ==
  /\ request[c] # Idle /\ request'[c] \in Request /\ RequestTrue(request'[c])
  /\ \A d \in Conn \ {c} : request'[d] = request[d]
  /\ request' = [d \in Conn |-> request'[d]]
  /\ active' = active
  /\ \/ permits' = permits /\ (Charged(c)' <=> Charged(c))
     \/ permits' = permits + 1 /\ Charged(c) /\ ~Charged(c)'
     \/ permits' = permits - 1 /\ permits > 0 /\ ~Charged(c) /\ Charged(c)'

\* A request ends, and gives back what it holds.
Leaves(c) ==
  /\ request[c] # Idle
  /\ request' = [request EXCEPT ![c] = Idle]
  /\ active' = active - 1
  /\ permits' = IF Charged(c) THEN permits + 1 ELSE permits
  /\ rates' = rates /\ recent' = recent

LEMMA LeaveLeaves ==
  ASSUME Inv, NEW c \in Conn, Leave(c), request[c] # Idle, ~At(c, {"querying"})
  PROVE  Leaves(c)
BY DEF Inv, Leave, Leaves, Release, Freed, Holds, Charged, At

LEMMA GotoMoves ==
  ASSUME Inv, NEW c \in Conn, request[c] # Idle,
         NEW step \in {"authenticating", "receiving", "serving", "querying"} \cup Replying,
         Goto(c, step)
  PROVE  /\ request[c] \in Request /\ RequestTrue(request[c])
         /\ request'[c] \in Request
         /\ request'[c].step = step /\ ~request'[c].begun
         /\ request'[c].tool = request[c].tool /\ request'[c].answers = request[c].answers
         /\ \A d \in Conn \ {c} : request'[d] = request[d]
         /\ request' = [d \in Conn |-> request'[d]]
<1>1. /\ request[c] \in Request /\ RequestTrue(request[c])
      /\ request'[c] = [request[c] EXCEPT !.step = step, !.begun = FALSE]
      /\ \A d \in Conn \ {c} : request'[d] = request[d]
      /\ request' = [d \in Conn |-> request'[d]]
  BY DEF Goto, Inv
<1> QED
  BY <1>1 DEF Request

\* A request that goes on where it holds no permit
LEMMA TurnMoves ==
  ASSUME Inv, NEW c \in Conn, request[c] # Idle, active' = active, permits' = permits,
         NEW step \in {"receiving"} \cup Replying, Goto(c, step),
         ~Charged(c), step \in {"sending", "refusing"} => request[c].tool # "refresh",
         step = "rejecting" => request[c].answers <= 1,
         step = "rejecting" /\ request[c].tool = "refresh" => request[c].answers = 0,
         step # "rejecting" => request[c].answers = 0,
         step \in {"receiving", "overflowing"} => request[c].tool # "refresh"
  PROVE  Moves(c)
<1>1. request'[c] \in Request /\ RequestTrue(request'[c])
  BY GotoMoves DEF RequestTrue, Request, Replying
<1>2. ~Charged(c)'
  BY GotoMoves DEF Charged, At, Replying
<1> QED
  BY <1>1, <1>2, GotoMoves DEF Moves

LEMMA StepKinds ==
  ASSUME Inv, [Next]_vars
  PROVE  \/ UNCHANGED <<active, permits, request>>
         \/ \E c \in Conn : Arrive(c) \/ Moves(c) \/ Leaves(c)
<1> USE IdleAssumption DEF At
<1>1. ASSUME NEW c \in Conn, request[c] # Idle
      PROVE  request[c] \in Request /\ RequestTrue(request[c])
  BY <1>1 DEF Inv
<1>2. ASSUME NEW c \in Conn,
             \/ Unauthorized(c) \/ TooLarge(c)
             \/ \E p \in Player : RateExceeded(c, p) \/ Admit(c, p)
      PROVE  Moves(c)
  <2>1. /\ request[c] # Idle /\ request[c].step \in {"authenticating", "receiving"}
        /\ active' = active /\ permits' = permits
        /\ \/ Goto(c, "rejecting")
           \/ request[c].step = "authenticating" /\ Goto(c, "receiving")
           \/ request[c].step = "receiving" /\ Goto(c, "overflowing")
    BY <1>2 DEF Unauthorized, TooLarge, RateExceeded, Admit, Turn
  <2>2. ~Charged(c) /\ request[c].answers = 0 /\ request[c].tool # "refresh"
    BY <1>1, <2>1 DEF RequestTrue, Charged, Replying
  <2> QED
    BY <2>1, <2>2, TurnMoves DEF Replying
<1>3. ASSUME NEW c \in Conn, BodyTimeout(c) PROVE Moves(c)
  <2>1. /\ request[c] # Idle /\ request[c].step \in {"receiving", "overflowing"}
        /\ active' = active /\ permits' = permits /\ Goto(c, "rejecting")
    BY <1>3 DEF BodyTimeout, Turn
  <2>2. ~Charged(c) /\ request[c].answers <= 1 /\ request[c].tool # "refresh"
    BY <1>1, <2>1 DEF RequestTrue, Charged, Replying
  <2> QED
    BY <2>1, <2>2, TurnMoves DEF Replying
<1>4. ASSUME NEW c \in Conn, Received(c) PROVE Moves(c)
  <2>1. PICK tool \in {"form", "mcp", "refresh", "query"}, step \in {"serving", "rejecting"} :
          /\ step = "rejecting" => tool \in {"mcp", "refresh"} \cup {"form"}
          /\ step = "serving" /\ tool = "refresh" => permits > 0
          /\ permits' = IF step = "serving" /\ tool = "refresh" THEN permits - 1 ELSE permits
          /\ request' = [request EXCEPT ![c] = [request[c] EXCEPT !.step = step, !.tool = tool]]
          /\ active' = active
    BY <1>4 DEF Received
  <2>2. request[c] # Idle /\ request[c].step = "receiving"
    BY <1>4 DEF Received
  <2>3. /\ request'[c] = [request[c] EXCEPT !.step = step, !.tool = tool]
        /\ \A d \in Conn \ {c} : request'[d] = request[d]
        /\ request' = [d \in Conn |-> request'[d]]
    BY <2>1 DEF Inv
  <2>4. /\ request'[c] \in Request /\ request'[c].step = step /\ request'[c].tool = tool
        /\ request'[c].answers = 0 /\ ~request'[c].begun
    BY <1>1, <2>2, <2>3 DEF Request, RequestTrue, Replying
  <2>5. RequestTrue(request'[c])
    BY <2>4 DEF RequestTrue, Replying
  <2>6. ~Charged(c) /\ (Charged(c)' <=> step = "serving" /\ tool = "refresh")
    BY <2>2, <2>4 DEF Charged
  <2> QED
    BY <2>1, <2>2, <2>3, <2>4, <2>5, <2>6 DEF Moves
<1>5. ASSUME NEW c \in Conn, Query(c) \/ QueryEnds(c) PROVE Moves(c)
  <2>1. CASE Query(c)
    <3>1. /\ request[c] # Idle /\ request[c].step = "serving" /\ request[c].tool = "query"
          /\ permits > 0 /\ permits' = permits - 1 /\ active' = active /\ Goto(c, "querying")
      BY <2>1 DEF Query
    <3>2. RequestTrue(request'[c]) /\ Charged(c)' /\ ~Charged(c)
      BY <3>1, GotoMoves DEF RequestTrue, Charged, Replying
    <3> QED
      BY <3>1, <3>2, GotoMoves DEF Moves
  <2>2. CASE QueryEnds(c)
    <3>1. /\ request[c] # Idle /\ request[c].step = "querying"
          /\ permits' = permits + 1 /\ active' = active
      BY <2>2 DEF QueryEnds, At
    <3>2. PICK step \in {"sending", "refusing"} : Goto(c, step)
      BY <2>2 DEF QueryEnds
    <3>3. RequestTrue(request'[c]) /\ ~Charged(c)' /\ Charged(c)
      BY <3>1, <3>2, GotoMoves DEF RequestTrue, Charged, Replying
    <3> QED
      BY <3>1, <3>2, <3>3, GotoMoves DEF Moves, Replying
  <2> QED
    BY <1>5, <2>1, <2>2
<1>6. ASSUME NEW c \in Conn, Answer(c) \/ AppFails(c) PROVE Moves(c)
  <2>1. PICK step \in {"sending", "refusing"} :
          /\ request[c] # Idle /\ request[c].step = "serving"
          /\ permits' = permits /\ active' = active /\ Goto(c, step)
    BY <1>6 DEF Answer, AppFails, Turn
  <2>2. RequestTrue(request'[c]) /\ (Charged(c)' <=> Charged(c))
    BY <2>1, GotoMoves DEF RequestTrue, Charged, Replying
  <2> QED
    BY <2>1, <2>2, GotoMoves DEF Moves, Replying
<1>7. ASSUME NEW c \in Conn, Begin(c) PROVE Moves(c)
  <2>1. /\ request[c] # Idle /\ request[c].step \in Replying /\ ~request[c].begun
        /\ permits' = permits /\ active' = active
    BY <1>7 DEF Begin
  <2>2. request[c] \in Request /\ RequestTrue(request[c])
    BY <1>1, <2>1
  <2>3. /\ request'[c] = [request[c] EXCEPT
             !.begun = TRUE, !.started = request[c].started \/ request[c].step # "apologizing",
             !.answers = request[c].answers + 1]
        /\ \A d \in Conn \ {c} : request'[d] = request[d]
        /\ request' = [d \in Conn |-> request'[d]]
    BY <1>7 DEF Begin, Inv
  <2>4. request[c].answers <= 1
    BY <2>1, <2>2 DEF RequestTrue, Replying
  <2>5. /\ request'[c].step = request[c].step /\ request'[c].tool = request[c].tool
        /\ request'[c].begun = TRUE /\ request'[c].answers = request[c].answers + 1
        /\ request'[c] \in Request
    <3>1. PICK started \in BOOLEAN :
            started = (request[c].started \/ request[c].step # "apologizing")
      OBVIOUS
    <3>2. request'[c] = [request[c] EXCEPT !.begun = TRUE, !.started = started,
                                           !.answers = request[c].answers + 1]
      BY <2>3, <3>1
    <3>3. request[c].answers + 1 \in 0..2
      BY <2>2, <2>4 DEF Request
    <3> QED
      BY <2>2, <3>2, <3>3 DEF Request
  <2>6. RequestTrue(request'[c])
    BY <2>1, <2>2, <2>5 DEF RequestTrue, Replying, Request
  <2>7. Charged(c)' <=> Charged(c)
    BY <2>1, <2>5 DEF Charged
  <2> QED
    BY <2>1, <2>3, <2>5, <2>6, <2>7 DEF Moves
<1>8. ASSUME NEW c \in Conn,
             \/ Disconnect(c) \/ End(c) \/ Silent(c)
             \/ SendFails(c)
      PROVE  Leaves(c)
  <2>1. Leave(c) /\ request[c] # Idle /\ request[c].step # "querying"
    BY <1>8 DEF Disconnect, End, Silent, SendFails, Caught, Apologizes, Replying
  <2> QED
    BY <2>1, LeaveLeaves
<1>9. ASSUME NEW c \in Conn, Raises(c) PROVE Moves(c) \/ Leaves(c)
  <2>1. /\ request[c] # Idle /\ request[c].step \in {"authenticating", "receiving"}
        /\ \/ Release(c) /\ Goto(c, "apologizing") /\ active' = active
           \/ Leave(c)
    BY <1>9 DEF Raises, Caught
  <2>2. ~Charged(c) /\ ~Holds(c) /\ request[c].answers = 0
    BY <1>1, <2>1 DEF RequestTrue, Charged, Holds, Replying
  <2>3. CASE Leave(c)
    BY <2>1, <2>3, LeaveLeaves
  <2>4. CASE Release(c) /\ Goto(c, "apologizing") /\ active' = active
    BY <2>1, <2>2, <2>4, TurnMoves DEF Release, Replying
  <2> QED
    BY <2>1, <2>3, <2>4
<1> QED
  BY <1>2, <1>3, <1>4, <1>5, <1>6, <1>7, <1>8, <1>9 DEF Next, Proceed, Happen, Tick, vars

-----------------------------------------------------------------------------
(* The counters                                                            *)

LEMMA CountersStep ==
  ASSUME Inv, [Next]_vars
  PROVE  /\ active' \in Int /\ active' <= ActiveRequests /\ permits' \in Int
         /\ active' = Cardinality(UnderWay')
         /\ permits' = Permits - Cardinality(Charges') /\ permits' >= 0
<1> USE IdleAssumption, LimitsAssumption
<1>1. UnderWay \subseteq Conn /\ Charges \subseteq Conn
  BY DEF UnderWay, Charges
<1>2. ASSUME UNCHANGED <<active, permits, request>>
      PROVE  active' = active /\ permits' = permits /\ UnderWay' = UnderWay /\ Charges' = Charges
  BY <1>2 DEF UnderWay, Charges, Charged, At
<1>3. ASSUME NEW c \in Conn, Arrive(c)
      PROVE  /\ c \notin UnderWay /\ UnderWay' = UnderWay \cup {c} /\ Charges' = Charges
             /\ active < ActiveRequests /\ active' = active + 1 /\ permits' = permits
  <2>1. /\ request[c] = Idle /\ request'[c] # Idle
        /\ request'[c].step \in {"authenticating", "receiving"}
        /\ \A d \in Conn \ {c} : request'[d] = request[d]
        /\ ~Busy /\ active' = active + 1 /\ permits' = permits
    <3>1. PICK mcp \in BOOLEAN : request' = [request EXCEPT ![c] =
            [step |-> IF mcp THEN "authenticating" ELSE "receiving",
             tool |-> IF mcp THEN "mcp" ELSE "form",
             begun |-> FALSE, started |-> FALSE, answers |-> 0]]
      BY <1>3 DEF Arrive
    <3>2. request'[c] \in Request /\ request'[c].step \in {"authenticating", "receiving"}
      BY <3>1 DEF Request, Inv
    <3> QED
      BY <1>3, <3>1, <3>2 DEF Arrive, Inv
  <2> QED
    BY <2>1 DEF UnderWay, Charges, Charged, At, Busy, Inv
<1>4. ASSUME NEW c \in Conn, Leaves(c)
      PROVE  /\ c \in UnderWay /\ UnderWay' = UnderWay \ {c}
             /\ Charges' = Charges \ {c} /\ active' = active - 1
             /\ permits' = IF c \in Charges THEN permits + 1 ELSE permits
  BY <1>4 DEF Leaves, UnderWay, Charges, Charged, At, Inv
<1>5. ASSUME NEW c \in Conn, Moves(c)
      PROVE  /\ UnderWay' = UnderWay /\ active' = active
             /\ \/ Charges' = Charges /\ permits' = permits
                \/ c \in Charges /\ Charges' = Charges \ {c} /\ permits' = permits + 1
                \/ /\ c \notin Charges /\ Charges' = Charges \cup {c}
                   /\ permits' = permits - 1 /\ permits > 0
  <2>1. UnderWay' = UnderWay /\ active' = active
    BY <1>5 DEF Moves, UnderWay
  <2>2. \A d \in Conn \ {c} : Charged(d)' <=> Charged(d)
    BY <1>5 DEF Moves, Charged, At
  <2> QED
    BY <1>5, <2>1, <2>2 DEF Moves, Charges
<1> DEFINE Goal == /\ active' \in Int /\ active' <= ActiveRequests /\ permits' \in Int
                   /\ active' = Cardinality(UnderWay')
                   /\ permits' = Permits - Cardinality(Charges') /\ permits' >= 0
<1>6. /\ active \in Int /\ active <= ActiveRequests /\ permits \in Int /\ permits >= 0
      /\ active = Cardinality(UnderWay) /\ permits = Permits - Cardinality(Charges)
      /\ Cardinality(UnderWay) \in Nat /\ Cardinality(Charges) \in Nat
  BY <1>1, ConnAssumption, FS_Subset, FS_CardinalityType DEF Inv
<1>7. ASSUME NEW c \in Conn
      PROVE  /\ c \notin UnderWay => Cardinality(UnderWay \cup {c}) = Cardinality(UnderWay) + 1
             /\ c \in UnderWay => Cardinality(UnderWay \ {c}) = Cardinality(UnderWay) - 1
             /\ c \notin Charges => Cardinality(Charges \cup {c}) = Cardinality(Charges) + 1
             /\ c \in Charges => Cardinality(Charges \ {c}) = Cardinality(Charges) - 1
  BY <1>1, Counting
<1>8. ASSUME UNCHANGED <<active, permits, request>> PROVE Goal
  BY <1>2, <1>6, <1>8
<1>9. ASSUME NEW c \in Conn, Arrive(c) PROVE Goal
  <2>1. Cardinality(UnderWay') = Cardinality(UnderWay) + 1
    BY <1>3, <1>7, <1>9
  <2>2. Cardinality(Charges') = Cardinality(Charges)
    BY <1>3, <1>9
  <2> QED
    BY <1>3, <1>6, <1>9, <2>1, <2>2
<1>10. ASSUME NEW c \in Conn, Leaves(c) PROVE Goal
  <2>1. c \notin Charges => Charges \ {c} = Charges
    OBVIOUS
  <2>2. Cardinality(UnderWay') = Cardinality(UnderWay) - 1
    BY <1>4, <1>7, <1>10
  <2>3. Cardinality(Charges') =
          IF c \in Charges THEN Cardinality(Charges) - 1 ELSE Cardinality(Charges)
    BY <1>4, <1>7, <1>10, <2>1
  <2> QED
    BY <1>4, <1>6, <1>10, <2>2, <2>3
<1>11. ASSUME NEW c \in Conn, Moves(c) PROVE Goal
  <2>1. Cardinality(UnderWay') = Cardinality(UnderWay) /\ active' = active
    BY <1>5, <1>11
  <2>2. \/ Cardinality(Charges') = Cardinality(Charges) /\ permits' = permits
        \/ Cardinality(Charges') = Cardinality(Charges) - 1 /\ permits' = permits + 1
        \/ /\ Cardinality(Charges') = Cardinality(Charges) + 1
           /\ permits' = permits - 1 /\ permits > 0
    BY <1>5, <1>7, <1>11
  <2> QED
    BY <1>6, <2>1, <2>2
<1> QED
  BY <1>8, <1>9, <1>10, <1>11, StepKinds
LEMMA RequestsStep ==
  ASSUME Inv, [Next]_vars
  PROVE  /\ request' \in [Conn -> Request \cup {Idle}]
         /\ \A c \in Conn : request'[c] # Idle => RequestTrue(request'[c])
<1>1. ASSUME NEW c \in Conn, Arrive(c)
      PROVE  /\ request' \in [Conn -> Request \cup {Idle}]
             /\ \A d \in Conn : request'[d] # Idle => RequestTrue(request'[d])
  <2>1. PICK mcp \in BOOLEAN : request' = [request EXCEPT ![c] =
          [step |-> IF mcp THEN "authenticating" ELSE "receiving",
           tool |-> IF mcp THEN "mcp" ELSE "form",
           begun |-> FALSE, started |-> FALSE, answers |-> 0]]
    BY <1>1 DEF Arrive
  <2>2. request'[c] \in Request /\ RequestTrue(request'[c])
    BY <2>1 DEF Request, RequestTrue, Replying, Inv
  <2> QED
    BY <2>1, <2>2 DEF Inv
<1>2. ASSUME NEW c \in Conn, Moves(c) \/ Leaves(c)
      PROVE  /\ request' \in [Conn -> Request \cup {Idle}]
             /\ \A d \in Conn : request'[d] # Idle => RequestTrue(request'[d])
  <2>1. CASE Moves(c)
    BY <2>1 DEF Moves, Inv
  <2>2. CASE Leaves(c)
    BY <2>2 DEF Leaves, Inv
  <2> QED
    BY <1>2, <2>1, <2>2
<1> QED
  BY <1>1, <1>2, StepKinds DEF Inv

-----------------------------------------------------------------------------
(* The rate table                                                          *)

\* A table of windows that are open, and room for them
RatesOf(table) ==
  /\ DOMAIN table \subseteq Player
  /\ IsFiniteSet(DOMAIN table)
  /\ Cardinality(DOMAIN table) <= RatePlayers
  /\ table = [p \in DOMAIN table |-> table[p]]
  /\ \A p \in DOMAIN table : table[p] \in [left : 0..Window, count : 0..PerWindow]

LEMMA PurgedRates == ASSUME Inv PROVE RatesOf(Purged)
<1>1. /\ Live \subseteq DOMAIN rates /\ DOMAIN Purged = Live
      /\ \A p \in Live : Purged[p] = rates[p]
      /\ Purged = [p \in DOMAIN Purged |-> Purged[p]]
  BY DEF Live, Purged, Restrict
<1>2. IsFiniteSet(Live) /\ Cardinality(Live) <= Cardinality(DOMAIN rates)
  BY <1>1, FS_Subset DEF Inv, Rates
<1>3. Cardinality(Live) \in Nat /\ Cardinality(DOMAIN rates) \in Nat
  BY <1>2, FS_CardinalityType DEF Inv, Rates
<1> QED
  BY <1>1, <1>2, <1>3, LimitsAssumption DEF RatesOf, Inv, Rates

LEMMA WindowedRates ==
  ASSUME Inv, NEW p \in Player, Placed(p)
  PROVE  RatesOf(Windowed(p)) /\ p \in DOMAIN Windowed(p)
<1>1. RatesOf(Purged)
  BY PurgedRates
<1>2. CASE p \in DOMAIN Purged
  BY <1>1, <1>2 DEF Windowed
<1>3. CASE p \notin DOMAIN Purged
  <2>1. Cardinality(DOMAIN Purged) < RatePlayers
    BY <1>1, <1>3, LimitsAssumption, FS_CardinalityType DEF Placed, Full, RatesOf
  <2>2. /\ DOMAIN Windowed(p) = DOMAIN Purged \cup {p}
        /\ Windowed(p)[p] = [left |-> Window, count |-> 0]
        /\ \A q \in DOMAIN Purged : Windowed(p)[q] = Purged[q]
        /\ Windowed(p) = [q \in DOMAIN Windowed(p) |-> Windowed(p)[q]]
    BY <1>3 DEF Windowed
  <2>3. /\ IsFiniteSet(DOMAIN Purged \cup {p})
        /\ Cardinality(DOMAIN Purged \cup {p}) = Cardinality(DOMAIN Purged) + 1
        /\ Cardinality(DOMAIN Purged) \in Nat
    BY <1>1, <1>3, FS_AddElement, FS_CardinalityType DEF RatesOf
  <2> QED
    BY <1>1, <2>1, <2>2, <2>3, LimitsAssumption DEF RatesOf
<1> QED
  BY <1>2, <1>3

LEMMA RatesStep ==
  ASSUME Inv, [Next]_vars
  PROVE  Rates' /\ recent' \in [Player -> [Ticks -> Nat]]
<1>1. RatesOf(rates)
  BY DEF Inv, Rates, RatesOf
<1>2. ASSUME NEW c \in Conn, NEW p \in Player, RateExceeded(c, p)
      PROVE  RatesOf(rates') /\ recent' = recent
  BY <1>2, PurgedRates, WindowedRates DEF RateExceeded
<1>3. ASSUME NEW c \in Conn, NEW p \in Player, Admit(c, p)
      PROVE  RatesOf(rates') /\ recent' \in [Player -> [Ticks -> Nat]]
  <2>1. RatesOf(Windowed(p)) /\ p \in DOMAIN Windowed(p) /\ Windowed(p)[p].count < PerWindow
    BY <1>3, WindowedRates DEF Admit
  <2>2. rates' = [Windowed(p) EXCEPT ![p].count = Windowed(p)[p].count + 1]
    BY <1>3 DEF Admit
  <2>3. /\ DOMAIN rates' = DOMAIN Windowed(p)
        /\ rates'[p] = [Windowed(p)[p] EXCEPT !.count = Windowed(p)[p].count + 1]
        /\ \A q \in DOMAIN rates' \ {p} : rates'[q] = Windowed(p)[q]
        /\ rates' = [q \in DOMAIN rates' |-> rates'[q]]
    BY <2>1, <2>2
  <2>4. rates'[p] \in [left : 0..Window, count : 0..PerWindow]
    BY <2>1, <2>3, LimitsAssumption DEF RatesOf
  <2>5. RatesOf(rates')
    BY <2>1, <2>3, <2>4 DEF RatesOf
  <2>6. 1 \in Ticks
    BY LimitsAssumption DEF Ticks
  <2>7. recent' \in [Player -> [Ticks -> Nat]]
    BY <1>3, <2>6 DEF Admit, Inv
  <2> QED
    BY <2>5, <2>7
<1>4. ASSUME Tick PROVE RatesOf(rates') /\ recent' \in [Player -> [Ticks -> Nat]]
  <2>1. /\ DOMAIN rates' = DOMAIN rates
        /\ \A p \in DOMAIN rates :
             rates'[p] = [rates[p] EXCEPT !.left = IF rates[p].left = 0 THEN 0
                                                   ELSE rates[p].left - 1]
        /\ rates' = [q \in DOMAIN rates' |-> rates'[q]]
    BY <1>4 DEF Tick
  <2>2. \A p \in DOMAIN rates : rates'[p] \in [left : 0..Window, count : 0..PerWindow]
    BY <1>1, <2>1, LimitsAssumption DEF RatesOf
  <2>3. recent' \in [Player -> [Ticks -> Nat]]
    <3>1. \A i \in Ticks : i # 1 => i - 1 \in Ticks
      BY LimitsAssumption DEF Ticks
    <3> QED
      BY <1>4, <3>1 DEF Tick, Inv
  <2> QED
    BY <1>1, <2>1, <2>2, <2>3 DEF RatesOf
<1>5. RatesOf(rates') => Rates'
  BY DEF Rates, RatesOf
<1>6. /\ RatesOf(rates')
      /\ recent' \in [Player -> [Ticks -> Nat]]
  <2>1. recent \in [Player -> [Ticks -> Nat]]
    BY DEF Inv
  <2> QED
    BY <1>1, <1>2, <1>3, <1>4, <2>1
    DEF Next, Proceed, Happen, vars, Unauthorized, Arrive, Disconnect, TooLarge, Received,
        Raises, Query, QueryEnds, Answer, AppFails, Begin, End, Silent, SendFails,
        BodyTimeout, Turn, Leave, Caught
<1> QED
  BY <1>5, <1>6

-----------------------------------------------------------------------------
(* The rate of a player                                                    *)

\* The open windows, and what a table entry and a history are
LEMMA RatesFacts ==
  ASSUME Inv
  PROVE  /\ Window \in Nat /\ Window >= 1 /\ PerWindow \in Nat /\ PerWindow >= 1
         /\ 1 \in Ticks /\ Window \in Ticks
         /\ DOMAIN Purged = Live
         /\ \A p \in Live : Purged[p] = rates[p]
         /\ \A p \in Live : /\ p \in Player
                           /\ rates[p].left \in 1..Window /\ rates[p].count \in 0..PerWindow
                           /\ Window - rates[p].left + 1 \in Ticks
         /\ \A p \in Player : recent[p] \in [Ticks -> Nat]
<1>1. DOMAIN Purged = Live /\ \A p \in Live : Purged[p] = rates[p]
  BY DEF Live, Purged, Restrict
<1>2. Window \in Nat /\ Window >= 1 /\ PerWindow \in Nat /\ PerWindow >= 1
  BY LimitsAssumption
<1>3. ASSUME NEW p \in Live
      PROVE  /\ p \in Player
             /\ rates[p].left \in 1..Window /\ rates[p].count \in 0..PerWindow
  BY <1>2 DEF Live, Inv, Rates
<1>4. /\ \A p \in Live : Window - rates[p].left + 1 \in Ticks
      /\ 1 \in Ticks /\ Window \in Ticks
  BY <1>2, <1>3 DEF Ticks
<1>5. \A p \in Player : recent[p] \in [Ticks -> Nat]
  BY DEF Inv
<1> QED
  BY <1>1, <1>2, <1>3, <1>4, <1>5

\* A player of whom nothing changes
LEMMA SamePlayer ==
  ASSUME RecentTrue, NEW p \in Player, recent'[p] = recent[p],
         p \in Live' <=> p \in Live, p \in Live => rates'[p] = rates[p]
  PROVE  /\ \A i \in Ticks : i # 1 => recent'[p][i - 1] <= recent'[p][i]
         /\ p \in Live' =>
              /\ recent'[p][Window - rates'[p].left + 1] <= rates'[p].count
              /\ recent'[p][Window] <= PerWindow + rates'[p].count
         /\ p \notin Live' => recent'[p][1] = 0 /\ recent'[p][Window] <= PerWindow
BY DEF RecentTrue

LEMMA ExceededRecent ==
  ASSUME Inv, RecentTrue, NEW c \in Conn, NEW p \in Player, RateExceeded(c, p)
  PROVE  RecentTrue'
<1>1. p \in DOMAIN Purged \/ rates' = Purged
  BY RatesFacts DEF RateExceeded, Windowed
<1>2. rates' = Purged /\ recent' = recent
  BY <1>1 DEF RateExceeded, Windowed
<1>3. Live' = Live
  BY <1>2, RatesFacts DEF Live
<1> QED
  BY <1>2, <1>3, SamePlayer, RatesFacts DEF RecentTrue

LEMMA AdmitRecent ==
  ASSUME Inv, RecentTrue, NEW c \in Conn, NEW p \in Player, Admit(c, p)
  PROVE  RecentTrue'
<1>1. /\ DOMAIN Windowed(p) = Live \cup {p}
      /\ \A q \in Live : Windowed(p)[q] = rates[q]
      /\ p \notin Live => Windowed(p)[p] = [left |-> Window, count |-> 0]
  BY RatesFacts DEF Windowed
<1>2. rates' = [Windowed(p) EXCEPT ![p].count = Windowed(p)[p].count + 1]
  BY DEF Admit
<1>3. /\ DOMAIN rates' = Live \cup {p}
      /\ \A q \in Live \ {p} : rates'[q] = rates[q]
      /\ p \in Live => /\ rates'[p].left = rates[p].left
                       /\ rates'[p].count = rates[p].count + 1
      /\ p \notin Live => rates'[p].left = Window /\ rates'[p].count = 1
  <2>1. CASE p \in Live
    <3>1. /\ DOMAIN rates' = Live \cup {p}
          /\ \A q \in Live \ {p} : rates'[q] = rates[q]
          /\ rates'[p] = [rates[p] EXCEPT !.count = rates[p].count + 1]
      BY <1>1, <1>2, <2>1
    <3>2. rates[p] \in [left : 0..Window, count : 0..PerWindow]
      BY <2>1 DEF Live, Inv, Rates
    <3> QED
      BY <2>1, <3>1, <3>2
  <2>2. CASE p \notin Live
    BY <1>1, <1>2, <2>2
  <2> QED
    BY <2>1, <2>2
<1>4. Live' = Live \cup {p}
  BY <1>3, RatesFacts DEF Live
<1>5. /\ \A q \in Player \ {p} : recent'[q] = recent[q]
      /\ \A i \in Ticks : recent'[p][i] = recent[p][i] + 1
  BY DEF Admit, Inv
<1>6. ASSUME NEW q \in Player \ {p}
      PROVE  /\ \A i \in Ticks : i # 1 => recent'[q][i - 1] <= recent'[q][i]
             /\ q \in Live' =>
                  /\ recent'[q][Window - rates'[q].left + 1] <= rates'[q].count
                  /\ recent'[q][Window] <= PerWindow + rates'[q].count
             /\ q \notin Live' => recent'[q][1] = 0 /\ recent'[q][Window] <= PerWindow
  BY <1>3, <1>4, <1>5, SamePlayer
<1>7. \A i \in Ticks : i # 1 => recent'[p][i - 1] <= recent'[p][i]
  <2> SUFFICES ASSUME NEW i \in Ticks, i # 1 PROVE recent'[p][i - 1] <= recent'[p][i]
    OBVIOUS
  <2>1. i - 1 \in Ticks
    BY RatesFacts DEF Ticks
  <2>2. recent[p][i - 1] <= recent[p][i] /\ recent[p][i - 1] \in Nat /\ recent[p][i] \in Nat
    BY <2>1, RatesFacts DEF RecentTrue
  <2> QED
    BY <1>5, <2>1, <2>2
<1>8. /\ recent'[p][Window - rates'[p].left + 1] <= rates'[p].count
      /\ recent'[p][Window] <= PerWindow + rates'[p].count
  <2>1. recent'[p][Window] = recent[p][Window] + 1 /\ recent[p][Window] \in Nat
    BY <1>5, RatesFacts
  <2>2. CASE p \in Live
    <3> DEFINE d == Window - rates[p].left + 1
    <3>1. d \in Ticks /\ recent[p][d] \in Nat /\ recent'[p][d] = recent[p][d] + 1
      BY <1>5, <2>2, RatesFacts
    <3>2. recent[p][d] <= rates[p].count /\ recent[p][Window] <= PerWindow + rates[p].count
      BY <2>2 DEF RecentTrue
    <3>3. d = Window - rates'[p].left + 1 /\ rates'[p].count = rates[p].count + 1
      BY <1>3, <2>2
    <3>4. rates[p].count \in Nat
      BY <2>2, RatesFacts
    <3> HIDE DEF d
    <3> QED
      BY <2>1, <3>1, <3>2, <3>3, <3>4, RatesFacts
  <2>3. CASE p \notin Live
    <3>1. recent[p][1] = 0 /\ recent[p][Window] <= PerWindow
      BY <2>3 DEF RecentTrue
    <3>2. recent'[p][1] = 1
      BY <1>5, <3>1, RatesFacts
    <3>3. Window - rates'[p].left + 1 = 1 /\ rates'[p].count = 1
      BY <1>3, <2>3, RatesFacts
    <3> QED
      BY <2>1, <3>1, <3>2, <3>3, RatesFacts
  <2> QED
    BY <2>2, <2>3
<1> QED
  BY <1>4, <1>6, <1>7, <1>8 DEF RecentTrue

LEMMA TickRecent ==
  ASSUME Inv, RecentTrue, Tick
  PROVE  RecentTrue'
<1>1. \A q \in Player : /\ recent'[q][1] = 0
                        /\ \A i \in Ticks : i # 1 => recent'[q][i] = recent[q][i - 1]
  BY RatesFacts DEF Tick
<1>2. /\ DOMAIN rates' = DOMAIN rates
      /\ \A p \in DOMAIN rates :
           /\ rates'[p].left = IF rates[p].left = 0 THEN 0 ELSE rates[p].left - 1
           /\ rates'[p].count = rates[p].count
  <2>1. /\ DOMAIN rates' = DOMAIN rates
        /\ \A p \in DOMAIN rates :
             rates'[p] = [rates[p] EXCEPT !.left = IF rates[p].left = 0 THEN 0
                                                   ELSE rates[p].left - 1]
    BY DEF Tick
  <2>2. \A p \in DOMAIN rates : rates[p] \in [left : 0..Window, count : 0..PerWindow]
    BY DEF Inv, Rates
  <2> QED
    BY <2>1, <2>2
<1>3. ASSUME NEW p \in Player
      PROVE  /\ p \in Live' <=> p \in Live /\ rates[p].left # 1
             /\ p \in Live => /\ rates'[p].left = rates[p].left - 1
                              /\ rates'[p].count = rates[p].count
  <2>1. \A q \in DOMAIN rates : rates[q].left \in 0..Window
    BY DEF Inv, Rates
  <2> QED
    BY <1>2, <2>1, LimitsAssumption DEF Live
<1>4. ASSUME NEW p \in Player
      PROVE  /\ recent'[p][Window] <= recent[p][Window]
             /\ \A i \in Ticks : i # 1 => recent'[p][i - 1] <= recent'[p][i]
  <2>1. \A i \in Ticks : recent[p][i] \in Nat
    BY RatesFacts
  <2>2. \A i \in Ticks : i # 1 => i - 1 \in Ticks /\ recent[p][i - 1] <= recent[p][i]
    BY RatesFacts DEF Ticks, RecentTrue
  <2>3. \A i \in Ticks : recent'[p][i] <= recent[p][i]
    BY <1>1, <2>1, <2>2
  <2>4. ASSUME NEW i \in Ticks, i # 1 PROVE recent'[p][i - 1] <= recent'[p][i]
    BY <1>1, <2>2, <2>3, <2>4
  <2> QED
    BY <2>3, <2>4, RatesFacts
<1>5. ASSUME NEW p \in Player, p \notin Live
      PROVE  p \notin Live' /\ recent'[p][1] = 0 /\ recent'[p][Window] <= PerWindow
  <2>1. recent'[p][Window] \in Nat /\ recent[p][Window] \in Nat
    <3>1. Window # 1 => Window - 1 \in Ticks
      BY RatesFacts DEF Ticks
    <3> QED
      BY <1>1, <3>1, RatesFacts
  <2> QED
    BY <1>1, <1>3, <1>4, <1>5, <2>1, RatesFacts DEF RecentTrue
<1>6. ASSUME NEW p \in Player, p \in Live
      PROVE  /\ p \in Live' =>
                  /\ recent'[p][Window - rates'[p].left + 1] <= rates'[p].count
                  /\ recent'[p][Window] <= PerWindow + rates'[p].count
             /\ p \notin Live' => recent'[p][1] = 0 /\ recent'[p][Window] <= PerWindow
  <2>1. /\ recent[p][Window - rates[p].left + 1] <= rates[p].count
        /\ recent[p][Window] <= PerWindow + rates[p].count
    BY <1>6 DEF RecentTrue
  <2>2. /\ rates[p].left \in 1..Window /\ rates[p].count \in 0..PerWindow
        /\ rates'[p].left = rates[p].left - 1 /\ rates'[p].count = rates[p].count
    BY <1>3, <1>6, RatesFacts
  <2>3. recent'[p][Window] \in Nat /\ recent[p][Window] \in Nat
    <3>1. Window # 1 => Window - 1 \in Ticks
      BY RatesFacts DEF Ticks
    <3> QED
      BY <1>1, <3>1, RatesFacts
  <2>4. CASE p \in Live'
    <3>1. rates[p].left # 1
      BY <1>3, <2>4
    <3> DEFINE d == Window - rates'[p].left + 1
    <3>2. d \in Ticks /\ d # 1 /\ d - 1 = Window - rates[p].left + 1
      BY <2>2, <3>1, RatesFacts DEF Ticks
    <3>3. recent'[p][d] = recent[p][Window - rates[p].left + 1]
      BY <1>1, <3>2
    <3>4. recent'[p][Window] <= recent[p][Window]
      BY <1>4
    <3> QED
      BY <2>1, <2>2, <2>3, <2>4, <3>3, <3>4, RatesFacts
  <2>5. CASE p \notin Live'
    <3>1. rates[p].left = 1
      BY <1>3, <1>6, <2>5
    <3>2. recent[p][Window] <= rates[p].count
      BY <2>1, <3>1, RatesFacts
    <3>3. recent'[p][Window] <= recent[p][Window]
      BY <1>4
    <3> QED
      BY <1>1, <2>2, <2>3, <2>5, <3>2, <3>3, RatesFacts
  <2> QED
    BY <2>4, <2>5
<1> QED
  BY <1>4, <1>5, <1>6 DEF RecentTrue

LEMMA RecentStep ==
  ASSUME Inv, RecentTrue, [Next]_vars
  PROVE  RecentTrue'
<1>1. ASSUME UNCHANGED <<rates, recent>> PROVE RecentTrue'
  <2>1. Live' = Live
    BY <1>1 DEF Live
  <2> QED
    BY <1>1, <2>1 DEF RecentTrue
<1>2. ASSUME NEW c \in Conn, NEW p \in Player, RateExceeded(c, p) \/ Admit(c, p)
      PROVE  RecentTrue'
  BY <1>2, ExceededRecent, AdmitRecent
<1> QED
  BY <1>1, <1>2, TickRecent
  DEF Next, Proceed, Happen, vars, Unauthorized, Arrive, Disconnect, TooLarge, Received,
      Raises, Query, QueryEnds, Answer, AppFails, Begin, End, Silent, SendFails,
      BodyTimeout, Turn, Leave, Caught

-----------------------------------------------------------------------------
(* What holds                                                              *)

LEMMA InitInv == Init => Inv
<1> SUFFICES ASSUME Init PROVE Inv
  OBVIOUS
<1>1. UnderWay = {} /\ Charges = {}
  BY DEF Init, UnderWay, Charges, Charged, At
<1>2. IsFiniteSet({}) /\ Cardinality({}) = 0
  BY FS_EmptySet
<1>3. DOMAIN rates = {} /\ rates = [p \in DOMAIN rates |-> rates[p]]
  BY DEF Init
<1> QED
  BY <1>1, <1>2, <1>3, LimitsAssumption DEF Init, Inv, Rates

LEMMA Invariant == Spec => []Inv
<1>1. Inv /\ [Next]_vars => Inv'
  BY CountersStep, RequestsStep, RatesStep DEF Inv
<1> QED
  BY <1>1, InitInv, PTL DEF Spec

\* The counters stay in their limits, and the rate table and its windows in theirs: it never
\* holds more than rate_players.  (PublicGuard.request, hosted_server.py:177-190)
THEOREM TypeCorrect == Spec => []TypeOK
<1>1. Inv => TypeOK
  <2> SUFFICES ASSUME Inv PROVE TypeOK
    OBVIOUS
  <2>1. Cardinality(UnderWay) \in Nat /\ Cardinality(Charges) \in Nat
    BY ConnAssumption, FS_Subset, FS_CardinalityType DEF UnderWay, Charges
  <2> QED
    BY <2>1, LimitsAssumption DEF Inv, Rates, TypeOK
<1> QED
  BY <1>1, Invariant, PTL

\* Every request gives its slot back, once, whichever way it ends.  (the finally of
\* __call__, hosted_server.py:142-143)
THEOREM SlotsAreBalanced == Spec => []SlotsBalance
<1>1. Inv => SlotsBalance
  BY DEF Inv, UnderWay, SlotsBalance
<1> QED
  BY <1>1, Invariant, PTL

\* No refresh permit is lost or given back twice, whether the application answers, raises or
\* its answer cannot be sent.  (hosted_server.py:223-257)
THEOREM PermitsAreBalanced == Spec => []PermitsBalance
<1>1. Inv => PermitsBalance
  BY DEF Inv, Charges, Charged, PermitsBalance
<1> QED
  BY <1>1, Invariant, PTL

\* A request is answered once, but for a 413 that is cut off by the deadline of its body.
\* (track_send and the handlers of __call__, hosted_server.py:128-141)
THEOREM AnsweredOnce == Spec => []OneAnswer
<1>1. Inv => OneAnswer
  <2> SUFFICES ASSUME Inv, NEW c \in Conn, request[c] # Idle, request[c].answers > 1
               PROVE  /\ At(c, {"rejecting"})
                      /\ request[c].answers = 2 /\ request[c].tool # "refresh"
    BY DEF OneAnswer
  <2> QED
    BY DEF Inv, RequestTrue, At, Replying, Request
<1> QED
  BY <1>1, Invariant, PTL

\* However a player's requests, the ticks and the other players' windows interleave, no
\* stretch of Window ticks lets in more than two windows' worth of them: the fixed window of
\* the code costs a factor of two and no more.  (self.rates, hosted_server.py:177-190)
THEOREM RatesAreBounded == Spec => []RateBounded
<1>1. Init => RecentTrue
  <2> SUFFICES ASSUME Init PROVE RecentTrue
    OBVIOUS
  <2>1. Live = {} /\ \A p \in Player : \A i \in Ticks : recent[p][i] = 0
    BY DEF Init, Live
  <2>2. 1 \in Ticks /\ Window \in Ticks /\ PerWindow >= 0
    BY LimitsAssumption DEF Ticks
  <2>3. \A i \in Ticks : i # 1 => i - 1 \in Ticks
    BY LimitsAssumption DEF Ticks
  <2> QED
    BY <2>1, <2>2, <2>3 DEF RecentTrue
<1>2. Inv /\ RecentTrue => RateBounded
  <2> SUFFICES ASSUME Inv, RecentTrue, NEW p \in Player
               PROVE  recent[p][Window] <= 2 * PerWindow
    BY DEF RateBounded
  <2>1. recent[p][Window] \in Nat
    BY RatesFacts
  <2>2. \/ recent[p][Window] <= PerWindow
        \/ p \in Live /\ recent[p][Window] <= PerWindow + rates[p].count
    BY DEF RecentTrue
  <2> QED
    BY <2>1, <2>2, RatesFacts
<1> QED
  BY <1>1, <1>2, Invariant, RecentStep, PTL DEF Spec
=============================================================================
