----------------------------- MODULE PublicGuard -----------------------------
(***************************************************************************)
(* Admission in front of the hosted MCP server: how many requests are      *)
(* active, how often a player may call, who holds one of HostedSync's      *)
(* permits, and what is answered when a request is refused or fails.       *)
(*                                                                         *)
(* One event loop runs every request; it switches between them where the   *)
(* code awaits: the token lookup, the body, the application, each message  *)
(* of an answer.  Between two awaits a request is alone.                   *)
(*                                                                         *)
(* Left out, because they change nothing: health and metadata requests,    *)
(* which pass by the guard, and requests it refuses for being busy.        *)
(***************************************************************************)
EXTENDS Integers, FiniteSets, Functions

CONSTANTS
  Conn,            \* client connections, with one request at a time
  Player,
  ActiveRequests,  \* limits.active_requests
  RatePlayers,     \* limits.rate_players
  PerWindow,       \* limits.requests_per_minute
  Window,          \* the 60 seconds of a rate window, in ticks
  Permits,         \* HostedSync.capacity
  Idle

ASSUME LimitsAssumption ==
  /\ ActiveRequests \in Nat \ {0}
  /\ RatePlayers \in Nat \ {0}
  /\ PerWindow \in Nat \ {0}
  /\ Window \in Nat \ {0}
  /\ Permits \in Nat \ {0}

VARIABLES
  active,   \* self.active
  rates,    \* self.rates: of a player with a window, what is left of it and its count
  permits,  \* the free permits
  request,  \* of each connection, how far its request got
  recent    \* history: recent[p][i] requests of p were let in in the last i ticks, this one included

vars == <<active, rates, permits, request, recent>>

\* The awaits at which a request can be:
\*   authenticating  load_access_token
\*   receiving       the next part of the body
\*   serving         the application; querying, while HostedSync.query holds a permit in it
\*   overflowing     the 413, which is sent before the body's deadline is lifted
\*   rejecting       any other refusal
\*   sending         the buffered answer
\*   refusing        the 503 after the application failed
\*   apologizing     the 503 of __call__
Replying == {"overflowing", "rejecting", "sending", "refusing", "apologizing"}

Request == [step : {"authenticating", "receiving", "serving", "querying"} \cup Replying,
            tool : {"form", "mcp", "refresh", "query"},   \* "mcp": any other, or not known yet
            begun : BOOLEAN,     \* the first message of the present answer is out
            started : BOOLEAN,   \* the local variable of __call__
            answers : 0..2]      \* history: the http.response.start messages sent

ASSUME IdleAssumption == Idle \notin Request
ASSUME ConnAssumption == IsFiniteSet(Conn)

Ticks == 1..Window

Init ==
  /\ active = 0
  /\ rates = [p \in {} |-> [left |-> 0, count |-> 0]]
  /\ permits = Permits
  /\ request = [c \in Conn |-> Idle]
  /\ recent = [p \in Player |-> [i \in Ticks |-> 0]]

At(c, steps) == request[c] # Idle /\ request[c].step \in steps

Goto(c, step) ==
  request' = [request EXCEPT ![c] = [@ EXCEPT !.step = step, !.begun = FALSE]]

\* A request goes on, and nothing else changes.
Turn(c, from, to) ==
  At(c, from) /\ Goto(c, to) /\ UNCHANGED <<active, rates, permits, recent>>

-----------------------------------------------------------------------------
(* Coming and going                                                        *)

Busy == active >= ActiveRequests

Arrive(c) ==
  /\ request[c] = Idle
  /\ ~Busy
  /\ active' = active + 1
  /\ \E mcp \in BOOLEAN :
       request' = [request EXCEPT ![c] =
         [step |-> IF mcp THEN "authenticating" ELSE "receiving",
          tool |-> IF mcp THEN "mcp" ELSE "form",
          begun |-> FALSE, started |-> FALSE, answers |-> 0]]
  /\ UNCHANGED <<rates, permits, recent>>

\* Mutant: a refresh that was refused a permit gives one back.
HoldsAny(c) == request[c].tool = "refresh"

\* The permit taken before the application was called
Holds(c) == request[c].tool = "refresh" /\ At(c, {"serving", "sending", "refusing"})

\* The finally of `request`
Release(c) == permits' = IF Holds(c) THEN permits + 1 ELSE permits

\* Mutant: the return after http.disconnect misses the finally.
FreedUnlessReceiving(c) == IF At(c, {"receiving"}) THEN active ELSE active - 1

\* The finally of `__call__`
Freed(c) == active - 1

\* The request returns, through both finally clauses.
Leave(c) ==
  /\ Release(c)
  /\ active' = Freed(c)
  /\ request' = [request EXCEPT ![c] = Idle]
  /\ UNCHANGED <<rates, recent>>

\* Mutant: whether an answer has started is not asked.
ApologizesAlways(started) == TRUE

Apologizes(started) == ~started

\* An exception that `request` does not handle
Caught(c, started) ==
  IF Apologizes(started)
    THEN /\ Release(c)
         /\ Goto(c, "apologizing")
         /\ UNCHANGED <<active, rates, recent>>
    ELSE Leave(c)

-----------------------------------------------------------------------------
(* The token, and the rate of its player                                   *)

\* 401, and 403 without msf:read
Unauthorized(c) == Turn(c, {"authenticating"}, "rejecting")

Live == {p \in DOMAIN rates : rates[p].left > 0}

\* Mutant: a full table forgets the windows that are still open.
Evicting == IF Cardinality(Live) >= RatePlayers THEN [p \in {} |-> rates[p]]
            ELSE Restrict(rates, Live)

\* The windows that are still open
Purged == Restrict(rates, Live)

Full(table) == Cardinality(DOMAIN table) >= RatePlayers

Windowed(p) ==
  IF p \in DOMAIN Purged THEN Purged
  ELSE [q \in DOMAIN Purged \cup {p} |->
          IF q = p THEN [left |-> Window, count |-> 0] ELSE Purged[q]]

Placed(p) == p \in DOMAIN Purged \/ ~Full(Purged)

\* "Service temporarily busy", for a player the table has no room for; 429
RateExceeded(c, p) ==
  /\ At(c, {"authenticating"})
  /\ \/ ~Placed(p) /\ rates' = Purged
     \/ Placed(p) /\ Windowed(p)[p].count >= PerWindow /\ rates' = Windowed(p)
  /\ Goto(c, "rejecting")
  /\ UNCHANGED <<active, permits, recent>>

Admit(c, p) ==
  /\ At(c, {"authenticating"})
  /\ Placed(p)
  /\ Windowed(p)[p].count < PerWindow
  /\ rates' = [Windowed(p) EXCEPT ![p].count = @ + 1]
  /\ recent' = [recent EXCEPT ![p] = [i \in Ticks |-> @[i] + 1]]
  /\ Goto(c, "receiving")
  /\ UNCHANGED <<active, permits>>

\* time.monotonic()
Tick ==
  /\ \E p \in Player : (p \in Live \/ \E i \in Ticks : recent[p][i] > 0)
  /\ rates' = [p \in DOMAIN rates |->
                 [rates[p] EXCEPT !.left = IF @ = 0 THEN 0 ELSE @ - 1]]
  /\ recent' = [p \in Player |-> [i \in Ticks |-> IF i = 1 THEN 0 ELSE recent[p][i - 1]]]
  /\ UNCHANGED <<active, permits, request>>

-----------------------------------------------------------------------------
(* The body                                                                *)

\* http.disconnect
Disconnect(c) == At(c, {"receiving"}) /\ Leave(c)

\* 413
TooLarge(c) == Turn(c, {"receiving"}, "overflowing")

\* Mutant: only the bodies of MCP requests have a deadline.
BoundedMcp(c) == request[c] # Idle => request[c].tool # "form"

\* "Bound all public POST bodies, including OAuth and account forms."
Bounded(c) == TRUE

\* 408: the body is late, or the 413 is still on its way out when the deadline passes.
BodyTimeout(c) == Bounded(c) /\ Turn(c, {"receiving", "overflowing"}, "rejecting")

\* The body is complete: a call without msf:write, or a refresh without a permit, is
\* rejected, and the application gets any other.
Received(c) ==
  /\ At(c, {"receiving"})
  /\ \E tool \in IF request[c].tool = "form" THEN {"form"} ELSE {"mcp", "refresh", "query"},
        step \in {"serving", "rejecting"} :
       /\ step = "rejecting" => tool \in {"mcp", "refresh"}
       /\ step = "serving" /\ tool = "refresh" => permits > 0
       /\ permits' = IF step = "serving" /\ tool = "refresh" THEN permits - 1 ELSE permits
       /\ request' = [request EXCEPT ![c] = [@ EXCEPT !.step = step, !.tool = tool]]
  /\ UNCHANGED <<active, rates, recent>>

\* load_access_token or the body's JSON raises.
Raises(c) == At(c, {"authenticating", "receiving"}) /\ Caught(c, request[c].started)

-----------------------------------------------------------------------------
(* The application                                                         *)

\* HostedSync.query
Query(c) ==
  /\ At(c, {"serving"})
  /\ request[c].tool = "query"
  /\ permits > 0
  /\ permits' = permits - 1
  /\ Goto(c, "querying")
  /\ UNCHANGED <<active, rates, recent>>

\* Its answer, too, may be larger than limits.response_bytes.
QueryEnds(c) ==
  /\ At(c, {"querying"})
  /\ permits' = permits + 1
  /\ \E step \in {"sending", "refusing"} : Goto(c, step)
  /\ UNCHANGED <<active, rates, recent>>

\* The application's answer is buffered; "Refresh is busy" and tool errors are answers.
Answer(c) == Turn(c, {"serving"}, "sending")

\* It raises, or its answer is larger than limits.response_bytes.
AppFails(c) == Turn(c, {"serving"}, "refusing")

-----------------------------------------------------------------------------
(* The answer, message by message                                          *)

\* The first message; track_send notes it, unless __call__ itself apologizes.
Begin(c) ==
  /\ At(c, Replying)
  /\ ~request[c].begun
  /\ LET r == request[c] IN
       request' = [request EXCEPT ![c] =
         [r EXCEPT !.begun = TRUE, !.started = r.started \/ r.step # "apologizing",
                   !.answers = r.answers + 1]]
  /\ UNCHANGED <<active, rates, permits, recent>>

End(c) == At(c, Replying) /\ request[c].begun /\ Leave(c)

\* An application that sent nothing, to a client that is gone
Silent(c) == At(c, {"sending"}) /\ ~request[c].begun /\ Leave(c)

\* The client is gone, or the server refuses the message, which track_send has noted.
SendFails(c) ==
  /\ At(c, Replying)
  /\ IF At(c, {"apologizing"}) THEN Leave(c)
     ELSE Caught(c, TRUE)

-----------------------------------------------------------------------------
\* What the server does with a request, once it has what it waits for.
Proceed(c) ==
  \/ Unauthorized(c)
  \/ \E p \in Player : RateExceeded(c, p) \/ Admit(c, p)
  \/ QueryEnds(c)
  \/ Answer(c)
  \/ AppFails(c)
  \/ Begin(c)
  \/ End(c)

\* What the client and the failures around it decide.
Happen(c) ==
  \/ Arrive(c)
  \/ Disconnect(c)
  \/ TooLarge(c)
  \/ Received(c)
  \/ Raises(c)
  \/ Query(c)
  \/ Silent(c)
  \/ SendFails(c)

Next ==
  \/ Tick
  \/ \E c \in Conn : Proceed(c) \/ BodyTimeout(c) \/ Happen(c)

Spec == Init /\ [][Next]_vars

\* Lookups, tools and sends end, and the body has a deadline.  Nothing is assumed of the
\* rest: a client need not send its body, nor a new request come.
FairSpec == Spec /\ \A c \in Conn : WF_vars(Proceed(c)) /\ WF_vars(BodyTimeout(c))

-----------------------------------------------------------------------------
(* Properties                                                              *)

\* Every variable has its type; the rate table never outgrows rate_players, and no
\* window counts more requests than it allows.
TypeOK ==
  /\ active \in 0..ActiveRequests
  /\ permits \in 0..Permits
  /\ request \in [Conn -> Request \cup {Idle}]
  /\ DOMAIN rates \subseteq Player
  /\ Cardinality(DOMAIN rates) <= RatePlayers
  /\ \A p \in DOMAIN rates : rates[p] \in [left : 0..Window, count : 0..PerWindow]
  /\ recent \in [Player -> [Ticks -> Nat]]

\* Whatever way a request ends - refused, timed out, disconnected, failed while it was
\* answered - it gives its slot back, once: `active` counts exactly the requests that
\* are under way.  (try ... finally, hosted_server.py:134-143)
SlotsBalance == active = Cardinality({c \in Conn : request[c] # Idle})

\* A permit is out for each refresh that was let through and has not finished its
\* answer, and for each query that talks to MSF, and for nothing else: none is lost on
\* an error path and none is released twice.  (hosted_server.py:223-257,
\* hosted_sync.py:79-110)
PermitsBalance ==
  permits = Permits - Cardinality({c \in Conn :
                        \/ At(c, {"querying"})
                        \/ /\ At(c, {"serving", "sending", "refusing"})
                           /\ request[c].tool = "refresh"})

\* A request is answered at most once, however its answer fails - except that the
\* deadline of the body may cut off a 413 that has begun and start a 408 after it, and
\* then nothing more.  (`started`, hosted_server.py:126-141; the 413 is inside
\* fail_after, :194-206)
OneAnswer ==
  \A c \in Conn :
    request[c] # Idle /\ request[c].answers > 1 =>
      At(c, {"rejecting"}) /\ request[c].answers = 2 /\ request[c].tool # "refresh"

\* However requests, expiring windows and other players mix, in no stretch of Window
\* ticks does a player get more than two windows' worth of requests through.
\* (self.rates, hosted_server.py:177-190)
RateBounded == \A p \in Player : recent[p][Window] <= 2 * PerWindow

\* Every request ends and frees its slot, even if its client never finishes the body.
\* (test_slow_request_body_times_out_and_releases_capacity)
EveryRequestEnds == \A c \in Conn : request[c] # Idle ~> request[c] = Idle
=============================================================================
