---------------------------- MODULE HttpRequest ----------------------------
(***************************************************************************)
(* Conditional GETs of one client (src/src/http.rs): redirects, retries,   *)
(* and the three ways an origin may want to be asked, which concurrent     *)
(* requests learn and share: over HTTP/1.1, under the Mozilla-compatible   *)
(* identity, with the compatible transport.                                *)
(*                                                                         *)
(* A request on the wire is a step of its own; what the client does with   *)
(* the answer is one step up to the next request.  The origins' manners    *)
(* do not change during a run.                                             *)
(***************************************************************************)
EXTENDS Naturals, FiniteSets

CONSTANTS
  Get,              \* concurrent calls of `get`
  Url, Origin,
  SiteOf,           \* the origin of a URL
  Retries,          \* [fetch] retries
  MaxRedirects,     \* 10 in the code
  MaxFaults         \* bound: timeouts and server errors

HttpAssumption ==
  /\ {Retries, MaxRedirects, MaxFaults} \subseteq Nat
  /\ SiteOf \in [Url -> Origin]

VARIABLES
  manner, leads,            \* how an origin answers, where a URL redirects
  http1, browser, emulated, \* http1_origins, browser identities, compatible_origins
  state, url, first,        \* per get: where it is, at which URL, from which
  headers,                  \* "own" are the caller's, "agent" the identity
  compatible, over1,        \* the request on the wire
  stage,                    \* what was tried again at this origin
  challenged,               \* challenged_origin
  hops, attempt,            \* redirects followed, retries made
  left, outcome, faults     \* ever at another origin; the result; bound

originVars == <<manner, leads>>
sharedVars == <<http1, browser, emulated>>
wireVars == <<url, headers, compatible, over1, stage, hops>>
getVars == <<state, first, wireVars, challenged, attempt, left, outcome>>
httpVars == <<originVars, sharedVars, getVars, faults>>

Nowhere == "nowhere"
Manner == SUBSET {"breaks h2", "blocks", "challenges"}
Stages == {"asked", "http1", "identified", "compatible"}
Failure == {"stream error", "challenge", "blocked", "fault", "redirects"}

Init ==
  /\ manner \in [Origin -> Manner]
  /\ leads \in [Url -> Url \cup {Nowhere}]
  /\ http1 = {} /\ browser = {} /\ emulated = {}
  /\ state = [g \in Get |-> "ready"] /\ first \in [Get -> Url]
  /\ url = first /\ headers = [g \in Get |-> {"own"}]
  /\ compatible = [g \in Get |-> FALSE] /\ over1 = [g \in Get |-> FALSE]
  /\ stage = [g \in Get |-> "asked"]
  /\ challenged = [g \in Get |-> Nowhere]
  /\ hops = [g \in Get |-> 0] /\ attempt = [g \in Get |-> 0]
  /\ left = [g \in Get |-> FALSE] /\ outcome = [g \in Get |-> "none"]
  /\ faults = 0

-----------------------------------------------------------------------------

Site(g) == SiteOf[url[g]]

\* The top of the loop over redirects, up to the request on the wire.
Ask(g) ==
  /\ state[g] = "ready"
  /\ state' = [state EXCEPT ![g] = "waiting"]
  /\ headers' = [headers EXCEPT ![g] =
       IF Site(g) \in browser THEN @ \cup {"agent"} ELSE @]
  /\ LET emulate == Site(g) \in emulated \/ challenged[g] = Site(g) IN
     /\ compatible' = [compatible EXCEPT ![g] = emulate]
     /\ over1' = [over1 EXCEPT ![g] = ~emulate /\ Site(g) \in http1]
  /\ stage' = [stage EXCEPT ![g] = "asked"]
  /\ UNCHANGED <<originVars, sharedVars, url, first, challenged, hops, attempt,
                 left, outcome, faults>>

\* How the origin answers the request it gets.  One that does several of these
\* breaks the stream first, and blocks an identity before it challenges.
BreaksStream(g) ==
  "breaks h2" \in manner[Site(g)] /\ ~compatible[g] /\ ~over1[g]
Blocks(g) == "blocks" \in manner[Site(g)] /\ "agent" \notin headers[g]
Challenges(g) == "challenges" \in manner[Site(g)] /\ ~compatible[g]
Answer(g) ==
  IF BreaksStream(g) THEN "stream error"
  ELSE IF Blocks(g) THEN "blocked"
  ELSE IF Challenges(g) THEN "challenge"
  ELSE IF leads[url[g]] = Nowhere THEN "success" ELSE "redirect"

End(g, result) ==
  /\ state' = [state EXCEPT ![g] = "done"]
  /\ outcome' = [outcome EXCEPT ![g] = result]
  /\ UNCHANGED <<originVars, first, wireVars, challenged, attempt, left>>

\* Mutant: losing the race for HTTP/1.1 is final.
OnlyFaults == {"fault"}
Transient == {"stream error", "fault"}

\* get_inner: a transient error starts the whole request over, after a while.
GiveUp(g, error) ==
  IF error \in Transient /\ attempt[g] < Retries
  THEN /\ attempt' = [attempt EXCEPT ![g] = @ + 1]
       /\ state' = [state EXCEPT ![g] = "ready"]
       /\ url' = [url EXCEPT ![g] = first[g]]
       /\ headers' = [headers EXCEPT ![g] = {"own"}]
       /\ hops' = [hops EXCEPT ![g] = 0]
       /\ left' = [left EXCEPT ![g] = FALSE]
       /\ UNCHANGED <<originVars, first, compatible, over1, stage, challenged,
                      outcome>>
  ELSE End(g, error)

\* The same request again, some other way.
Again(g, next) ==
  /\ stage' = [stage EXCEPT ![g] = next]
  /\ UNCHANGED <<originVars, state, url, first, hops, attempt, left, outcome>>

Waiting(g, answer) == state[g] = "waiting" /\ Answer(g) = answer

\* Whoever meets the broken stream first asks again over HTTP/1.1.
OverHttp1(g) ==
  /\ Waiting(g, "stream error")
  /\ IF stage[g] = "asked" /\ Site(g) \notin http1
     THEN /\ Again(g, "http1")
          /\ over1' = [over1 EXCEPT ![g] = TRUE]
          /\ UNCHANGED <<headers, compatible, challenged>>
     ELSE GiveUp(g, "stream error")
  /\ http1' = IF stage[g] = "asked" THEN http1 \cup {Site(g)} ELSE http1
  /\ UNCHANGED <<browser, emulated, faults>>

\* A CloudFront block: once more under the other identity.
Identified(g) ==
  /\ Waiting(g, "blocked")
  /\ IF stage[g] \in {"asked", "http1"}
     THEN /\ Again(g, "identified")
          /\ browser' = browser \cup {Site(g)}
          /\ headers' = [headers EXCEPT ![g] = @ \cup {"agent"}]
          /\ over1' = [over1 EXCEPT ![g] = ~compatible[g] /\ Site(g) \in http1]
          /\ UNCHANGED <<compatible, challenged>>
     ELSE GiveUp(g, "blocked") /\ UNCHANGED browser
  /\ UNCHANGED <<http1, emulated, faults>>

Emulated(g) ==
  /\ Waiting(g, "challenge")
  /\ IF stage[g] # "compatible" /\ challenged[g] = Nowhere
     THEN /\ Again(g, "compatible")
          /\ challenged' = [challenged EXCEPT ![g] = Site(g)]
          /\ compatible' = [compatible EXCEPT ![g] = TRUE]
          /\ over1' = [over1 EXCEPT ![g] = FALSE]
          /\ UNCHANGED headers
     ELSE GiveUp(g, "challenge")
  /\ UNCHANGED <<sharedVars, faults>>

\* Mutant: a redirect keeps whatever headers there are.
Kept(g, next) == IF next \in Url THEN headers[g] ELSE {}
\* Another origin is sent none of them.
Carried(g, next) == IF SiteOf[next] = Site(g) THEN headers[g] ELSE {}

\* Mutant: redirects are not counted.
Unlimited(g) == hops[g] > MaxRedirects
TooMany(g) == hops[g] = MaxRedirects

Redirected(g) ==
  /\ Waiting(g, "redirect")
  /\ IF TooMany(g) THEN GiveUp(g, "redirects")
     ELSE LET next == leads[url[g]] IN
          /\ state' = [state EXCEPT ![g] = "ready"]
          /\ headers' = [headers EXCEPT ![g] = Carried(g, next)]
          /\ url' = [url EXCEPT ![g] = next]
          /\ left' = [left EXCEPT ![g] = @ \/ SiteOf[next] # Site(g)]
          /\ hops' = [hops EXCEPT ![g] = IF @ < MaxRedirects THEN @ + 1 ELSE @]
          /\ UNCHANGED <<originVars, first, compatible, over1, stage,
                         challenged, attempt, outcome>>
  /\ UNCHANGED <<sharedVars, faults>>

Succeeds(g) ==
  /\ Waiting(g, "success")
  /\ emulated' = IF compatible[g] THEN emulated \cup {Site(g)} ELSE emulated
  /\ End(g, "success")
  /\ UNCHANGED <<http1, browser, faults>>

\* A connection that fails, a 5xx or a 429; or the total timeout.
Fault(g) ==
  /\ state[g] = "waiting" /\ faults < MaxFaults
  /\ faults' = faults + 1
  /\ GiveUp(g, "fault") \/ End(g, "timeout")
  /\ UNCHANGED sharedVars

Answered(g) ==
  OverHttp1(g) \/ Identified(g) \/ Emulated(g) \/ Redirected(g) \/ Succeeds(g)

Next == \E g \in Get : Ask(g) \/ Answered(g) \/ Fault(g)

\* Every request is answered before its client's timeout, or fails at it.
Spec ==
  Init /\ [][Next]_httpVars /\ \A g \in Get : WF_httpVars(Ask(g) \/ Answered(g))

-----------------------------------------------------------------------------

TypeOK ==
  /\ manner \in [Origin -> Manner]
  /\ {http1, browser, emulated} \subseteq SUBSET Origin
  /\ state \in [Get -> {"ready", "waiting", "done"}]
  /\ {url, first} \subseteq [Get -> Url]
  /\ headers \in [Get -> SUBSET {"own", "agent"}]
  /\ {compatible, over1, left} \subseteq [Get -> BOOLEAN]
  /\ stage \in [Get -> Stages]
  /\ challenged \in [Get -> Origin \cup {Nowhere}]
  /\ hops \in [Get -> 0..MaxRedirects] /\ attempt \in [Get -> 0..Retries]
  /\ outcome \in [Get -> Failure \cup {"none", "success", "timeout"}]
  /\ faults \in 0..MaxFaults

\* The caller's headers are sent to the origin it asked, as long as the
\* redirects never left it, whichever retries and identities come between.
HeadersStayHome ==
  \A g \in Get :
    state[g] = "waiting" /\ "own" \in headers[g] =>
      Site(g) = SiteOf[first[g]] /\ ~left[g]

\* The redirects that lead from a URL to an answer, n of them.
Trail(u, n) ==
  {trail \in [0..n -> Url] :
     /\ trail[0] = u /\ leads[trail[n]] = Nowhere
     /\ \A i \in 1..n : trail[i] = leads[trail[i - 1]]}
Passed(trail) == {SiteOf[trail[i]] : i \in DOMAIN trail}
Wanting(trail, how) == {o \in Passed(trail) : how \in manner[o]}
Bearable(trail) ==
  /\ Cardinality(Wanting(trail, "breaks h2")) <= Retries
  /\ Cardinality(Wanting(trail, "challenges")) <= 1

\* A get that meets no fault is answered, whatever its origins want and
\* whichever get learns it first ("remember the origin so the rest of the run
\* asks for that directly", http.rs:434): with a retry for each race over
\* HTTP/1.1 it may lose, and at most one origin that challenges.
Recovered ==
  \A g \in Get :
    state[g] = "done" /\ faults = 0 =>
      \A n \in 0..MaxRedirects : \A trail \in Trail(first[g], n) :
        Bearable(trail) => outcome[g] = "success"

\* Whatever redirects, challenges and refusals it meets, a get comes to an end.
GetsEnd == <>(\A g \in Get : state[g] = "done")
=============================================================================
