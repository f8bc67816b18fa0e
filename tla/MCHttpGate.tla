---------------------------- MODULE MCHttpGate ----------------------------
(* Three requests with a key each (a buffered write, a read from an origin  *)
(* that is not allowed, a read of another scope) and one for each way of    *)
(* being refused early or let through uncounted.                            *)
EXTENDS HttpGate

CONSTANTS c

Ask(route, method) ==
  [route |-> route, method |-> method, client |-> c, session |-> TRUE,
   csrf |-> TRUE, origin |-> TRUE, flaws |-> {}]

MCShapes ==
  {Ask("tickets", "POST"),
   [Ask("tickets", "GET") EXCEPT !.origin = FALSE],
   Ask("dashboard", "GET"),
   [Ask("tickets", "POST") EXCEPT !.csrf = FALSE],
   [Ask("docs", "GET") EXCEPT !.flaws = {"url"}],
   Ask("docs", "GET")}

MCLimit == [s \in {Scope(a) : a \in MCShapes} |-> 1]
=============================================================================
