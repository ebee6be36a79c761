----------------------------- MODULE HTTPClient -----------------------------
(***************************************************************************)
(* http.Client (http/client.go): one call of Do, the redirects it follows, *)
(* the cookies and credentials it carries along, and the goroutine of its  *)
(* Timeout that each hop starts.                                           *)
(*                                                                         *)
(* The RoundTripper, the caller and the clock are the environment; the     *)
(* cookie jar is shared with other calls.  Header fields that are copied   *)
(* without a condition are left out; a Referer is the URL it names.        *)
(***************************************************************************)
EXTENDS CookieJar

CONSTANTS CallerRequests,  \* what Do is called with
          Replies,         \* what servers answer
          RedirectLimit    \* defaultCheckRedirect's 10
ASSUME LimitAssumption == RedirectLimit \in Nat

VARIABLES call,            \* the call and what Do's local variables hold
          hops,            \* the requests sent so far, with their responses
          world            \* late: the deadline is over; cancelled: the caller's Cancel is closed

clientVars == <<call, hops, world>>

-----------------------------------------------------------------------------
(* Redirects.                                                               *)

NoLocation == [kind |-> "none"]
NoURL == [scheme |-> "", host |-> <<>>, path |-> <<>>, user |-> FALSE]

\* URL.Parse of a Location: a relative one keeps the scheme and the host.
Resolved(u, loc) ==
  IF loc.kind = "relative" THEN [u EXCEPT !.path = loc.path, !.user = FALSE] ELSE loc.u
WithoutUser(u) == [u EXCEPT !.user = FALSE]

\* refererForURL: nothing from https to http.
RefererForURL(last, new) ==
  IF last.scheme = "https" /\ new.scheme = "http" THEN NoURL ELSE WithoutUser(last)

\* The ports are the schemes' own.
CanonicalAddr(u) == Append(u.host, u.scheme)
IsDomainOrSubdomain(sub, parent) == sub = parent \/ HasDotSuffix(sub, parent)
ShouldCopyOnRedirect(initial, dest) ==
  IsDomainOrSubdomain(CanonicalAddr(dest), CanonicalAddr(initial))

\* redirectBehavior on reply r to a request with that method; the caller's
\* request was ireq.
RedirectBehavior(method, r, ireq) ==
  IF r.status \in {301, 302, 303}
  THEN [should |-> TRUE, includeBody |-> FALSE,
        method |-> IF method \in {"GET", "HEAD"} THEN method ELSE "GET"]
  ELSE IF r.status \in {307, 308}
  THEN [should |-> r.location.kind # "none" /\ (ireq.getBody # "nil" \/ ~ireq.hasBody),
        includeBody |-> TRUE, method |-> method]
  ELSE [should |-> FALSE, includeBody |-> FALSE, method |-> ""]

\* What checkRedirect answers for the next request after n were sent.
CheckRedirect(n) ==
  IF call.policy = "default" THEN IF n >= RedirectLimit THEN "refuse" ELSE "go" ELSE call.policy

-----------------------------------------------------------------------------

NotCalled == [pc |-> "idle"]
ClientInit ==
  /\ call = NotCalled /\ hops = <<>>
  /\ world = [late |-> FALSE, cancelled |-> FALSE]

At(i) == hops[i]
ThisHop == Last(hops)
Becomes(i, h) == hops' = [hops EXCEPT ![i] = h]
DoFails(e, timeout) == [call EXCEPT !.pc = "done", !.err = e, !.timeout = timeout]

\* A request as do makes or gets it.
NewHop(method, u, body) ==
  [method |-> method, url |-> u, body |-> body, auth |-> FALSE, cookies |-> <<>>, jar |-> <<>>,
   referer |-> NoURL, custom |-> FALSE, resp |-> "none", reply |-> [status |-> 0],
   timer |-> "none", stop |-> FALSE, cancel |-> FALSE, timedOut |-> FALSE]

\* Do, up to its first send.  A client has a Jar or not, a Timeout or not,
\* and a policy for redirects.
Do ==
  /\ call = NotCalled
  /\ \E q \in CallerRequests, jar \in BOOLEAN, timeout \in BOOLEAN,
        policy \in {"default", "refuse", "last"} :
       /\ call' = [pc |-> IF q.url = NoURL THEN "done" ELSE "send", ireq |-> q, jar |-> jar,
                   deadline |-> timeout, policy |-> policy, next |-> [should |-> FALSE],
                   icookies |-> q.cookies, err |-> IF q.url = NoURL THEN "no URL" ELSE "",
                   timeout |-> FALSE, unsent |-> "none", readErr |-> "", readTimeout |-> FALSE]
       /\ hops' = <<[NewHop(q.method, q.url, IF q.hasBody
                                              THEN IF q.url = NoURL THEN "closed" ELSE "open"
                                              ELSE "none")
                      EXCEPT !.auth = q.auth, !.cookies = q.cookies, !.custom = q.custom]>>
  /\ UNCHANGED <<world, jarVars>>

\* Client.send and send, up to RoundTrip: the jar's cookies are added to the
\* request, a user in the URL stands in for a missing Authorization, and
\* setRequestCancel starts the deadline's goroutine.
Send ==
  LET h == ThisHop
      bad == Len(hops) = 1 /\ call.ireq.requestURI
  IN /\ call.pc = "send"
     /\ IF call.jar THEN Cookies(h.url) /\ UNCHANGED <<psList, now, settings>> ELSE UNCHANGED jarVars
     /\ IF bad
        THEN /\ call' = DoFails("RequestURI", FALSE)
             /\ Becomes(Len(hops), [h EXCEPT !.body = IF @ = "open" THEN "closed" ELSE @])
        ELSE /\ call' = [call EXCEPT !.pc = "await"]
             /\ Becomes(Len(hops),
                  [h EXCEPT !.jar = IF call.jar THEN CookiesFor(h.url) ELSE <<>>,
                            !.auth = @ \/ h.url.user,
                            !.timer = IF call.deadline THEN "running" ELSE "none"])
     /\ UNCHANGED world

\* Whether the request's Cancel channel is closed.
Cancelled(h) == IF call.deadline THEN h.cancel ELSE world.cancelled

\* RoundTrip fails, of itself or because it was cancelled; it has closed the
\* body.  The timeout is reported if the timer's goroutine saw it.
RoundTripFails ==
  LET h == ThisHop
  IN /\ call.pc = "await"
     /\ \E e \in {"net"} \cup (IF Cancelled(h) THEN {"cancelled"} ELSE {}) :
          call' = DoFails(e, call.deadline /\ h.timedOut)
     /\ Becomes(Len(hops), [h EXCEPT !.stop = call.deadline, !.body = IF @ = "open" THEN "closed" ELSE @])
     /\ UNCHANGED <<world, jarVars>>

\* RoundTrip returns a response, whether or not it has closed the request's
\* body yet; the jar takes its cookies, and do returns it or goes round the
\* loop.
RoundTripReturns ==
  LET h == ThisHop
  IN /\ call.pc = "await"
     /\ \E r \in Replies, closed \in BOOLEAN :
          LET b == RedirectBehavior(h.method, r, call.ireq)
          IN /\ closed => h.body = "open"
             /\ call' = [call EXCEPT !.pc = IF b.should THEN "follow" ELSE "done", !.next = b]
             /\ Becomes(Len(hops), [h EXCEPT !.resp = "open", !.reply = r,
                                             !.body = IF @ = "open" /\ (closed \/ b.should)
                                                      THEN "closed" ELSE @])
             /\ IF call.jar /\ r.cookies # <<>>
                THEN SetCookies(h.url, r.cookies) /\ answer' = NoAnswer /\ UNCHANGED <<psList, now>>
                ELSE UNCHANGED jarVars
     /\ UNCHANGED world

\* makeHeadersCopier: the caller's own cookies, without those a response has
\* set since, if there is a jar to have them.
RemainingCookies(r) ==
  LET set == {r.cookies[i].name : i \in DOMAIN r.cookies}
  IN IF call.jar THEN SelectSeq(call.icookies, LAMBDA c : c.name \notin set) ELSE call.icookies

NextRequest(r, u) ==
  LET prev == ThisHop
      body == IF call.next.includeBody /\ call.ireq.getBody # "nil" /\ call.ireq.hasBody THEN "open" ELSE "none"
      carry == ShouldCopyOnRedirect(prev.url, u)
      referer == RefererForURL(prev.url, u)
  IN [NewHop(call.next.method, u, body) EXCEPT
        !.auth = carry /\ call.ireq.auth,
        !.cookies = IF carry THEN RemainingCookies(r) ELSE <<>>,
        !.referer = IF referer # NoURL THEN referer ELSE call.ireq.referer,
        !.custom = prev.custom /\ r.location.kind = "relative"]

\* closeBody of the response of hop i, which stops the deadline's goroutine.
ClosedAt(i) == [hops[i] EXCEPT !.resp = "closed", !.stop = call.deadline]

\* do, from a response that redirects to the next request.
Follow ==
  LET r == ThisHop.reply
      n == Len(hops)
      new == NextRequest(r, Resolved(ThisHop.url, r.location))
      verdict == CheckRedirect(n)
  IN /\ call.pc = "follow"
     /\ IF r.location.kind \in {"none", "bad"}
        THEN call' = DoFails("Location", FALSE) /\ Becomes(n, ClosedAt(n))
        ELSE IF call.next.includeBody /\ call.ireq.getBody = "fails"
        THEN call' = DoFails("GetBody", FALSE) /\ Becomes(n, ClosedAt(n))
        ELSE IF verdict = "last"
        THEN call' = [call EXCEPT !.pc = "done", !.unsent = new.body] /\ UNCHANGED hops
        ELSE IF verdict = "refuse"
        THEN call' = DoFails("CheckRedirect", FALSE) /\ Becomes(n, ClosedAt(n))
        ELSE /\ call' = [call EXCEPT !.pc = "send", !.icookies = RemainingCookies(r)]
             /\ hops' = Append([hops EXCEPT ![n] = ClosedAt(n)], new)
     /\ UNCHANGED <<world, jarVars>>

-----------------------------------------------------------------------------
(* The goroutine of setRequestCancel, for the deadline of hop i.            *)

FireTimer(h) == [h EXCEPT !.timedOut = TRUE, !.timer = "cancelling"]
DoCancel(h) == [h EXCEPT !.cancel = TRUE, !.timer = "done"]

TimerFires(i) == At(i).timer = "running" /\ world.late /\ Becomes(i, FireTimer(At(i)))
TimerCancels(i) == At(i).timer = "cancelling" /\ Becomes(i, DoCancel(At(i)))
TimerSeesCancel(i) == At(i).timer = "running" /\ world.cancelled /\ Becomes(i, DoCancel(At(i)))
TimerStopped(i) == /\ At(i).timer = "running" /\ At(i).stop
                   /\ Becomes(i, [At(i) EXCEPT !.timer = "done"])
Timer ==
  /\ \E i \in DOMAIN hops : TimerFires(i) \/ TimerCancels(i) \/ TimerSeesCancel(i) \/ TimerStopped(i)
  /\ UNCHANGED <<call, world, jarVars>>

-----------------------------------------------------------------------------
(* The caller, the clock and other users of the jar.                        *)

DeadlinePasses == /\ call # NotCalled /\ call.deadline /\ ~world.late
                  /\ world' = [world EXCEPT !.late = TRUE] /\ UNCHANGED <<call, hops, jarVars>>
CallerCancels == /\ call # NotCalled /\ ~world.cancelled
                 /\ world' = [world EXCEPT !.cancelled = TRUE] /\ UNCHANGED <<call, hops, jarVars>>

\* cancelTimerBody.Read, to the end of the body or to an error, and Close.
BodyRead ==
  LET h == ThisHop
  IN /\ call.pc = "done" /\ call.err = "" /\ h.resp = "open" /\ call.readErr = ""
     /\ \E e \in {"EOF", "net"} \cup (IF Cancelled(h) THEN {"cancelled"} ELSE {}) :
          call' = [call EXCEPT !.readErr = e,
                               !.readTimeout = e # "EOF" /\ call.deadline /\ h.timedOut]
     /\ Becomes(Len(hops), [h EXCEPT !.stop = call.deadline])
     /\ UNCHANGED <<world, jarVars>>
BodyClose ==
  /\ call.pc = "done" /\ ThisHop.resp = "open"
  /\ Becomes(Len(hops), ClosedAt(Len(hops)))
  /\ UNCHANGED <<call, world, jarVars>>

-----------------------------------------------------------------------------
(* Properties.                                                              *)

Running(h) == h.timer \in {"running", "cancelling"}
Done == call # NotCalled /\ call.pc = "done"

\* All bodies are accounted for: when Do has returned, no response's body is
\* open but the one it returns without an error, and every request's body has
\* been closed, but for the last one that the RoundTripper may still close.
BodiesSettled ==
  Done => /\ \A i \in DOMAIN hops : hops[i].resp = "open" => i = Len(hops) /\ call.err = ""
          /\ \A i \in DOMAIN hops : hops[i].body = "open" => i = Len(hops) /\ call.err = ""

\* A deadline's goroutine outlives its hop only until it looks at its
\* channels.
TimersStopped ==
  \A i \in DOMAIN hops :
    Running(hops[i]) /\ ~hops[i].stop =>
      /\ i = Len(hops)
      /\ call.pc = "await" \/ (hops[i].resp = "open" /\ call.readErr = "")

\* What is cancelled by the deadline is reported as a timeout, and nothing is
\* that was not late.
TimeoutsReported ==
  call # NotCalled =>
    /\ (call.timeout \/ call.readTimeout) => world.late
    /\ call.err = "cancelled" /\ ~world.cancelled => call.timeout
    /\ call.readErr = "cancelled" /\ ~world.cancelled => call.readTimeout

\* Each hop is asked with the method of Do's comment, and with the caller's
\* body if its redirect said so.
MethodsFollow ==
  \A i \in DOMAIN hops :
    LET others == {k \in 1..(i - 1) : hops[k].reply.status \notin {307, 308}}
    IN /\ hops[i].method = IF others = {} \/ call.ireq.method \in {"GET", "HEAD"}
                           THEN call.ireq.method ELSE "GET"
       /\ i > 1 => (hops[i].body # "none" <=>
                      call.ireq.hasBody /\ hops[i - 1].reply.status \in {307, 308})

\* The caller's credentials and cookies stay while the hops stay on one
\* site, but a cookie that a response has set since comes from the jar alone,
\* and the jar gives what is due.
CookiesUpToDate ==
  /\ JarAgrees
  /\ \A i \in DOMAIN hops :
       LET since == UNION {{hops[k].reply.cookies[j].name : j \in DOMAIN hops[k].reply.cookies} : k \in 1..(i - 1)}
           kept == SelectSeq(call.ireq.cookies, LAMBDA c : ~call.jar \/ c.name \notin since)
           home == \A k \in 1..i : CanonicalAddr(hops[k].url) = CanonicalAddr(hops[1].url)
       IN /\ IsPrefix(hops[i].cookies, kept)
          /\ home => hops[i].cookies = kept /\ (call.ireq.auth => hops[i].auth)

\* RedirectsFollowed: through any number of redirects, with a deadline that
\* passes and a caller that cancels at any moment, Do keeps what its comment
\* promises about bodies, methods, cookies and timeouts, leaves no goroutine
\* behind and stops at the limit (client.go, do, send, setRequestCancel,
\* makeHeadersCopier).
RedirectsFollowed ==
  /\ BodiesSettled /\ TimersStopped /\ TimeoutsReported /\ MethodsFollow /\ CookiesUpToDate
  /\ call # NotCalled /\ call.policy = "default" => Len(hops) <= (IF RedirectLimit = 0 THEN 1 ELSE RedirectLimit)

=============================================================================
