------------------------------- MODULE Steps --------------------------------
(***************************************************************************)
(* What a handler of the proxy engine (go-gost/x/handler) is made of.  A   *)
(* handler runs one function for a connection; the function is written     *)
(* here as the sequence of its steps, and HandlerRun says what each step   *)
(* does.  A step that may fail carries the steps done in that case; with   *)
(* none of them the function returns, which runs what it deferred.         *)
(***************************************************************************)
EXTENDS Sequences

Step(do, what, with, alt) == [do |-> do, what |-> what, with |-> with, alt |-> alt]

Drop == <<>>                               \* return, without an answer
Return == <<Step("return", "", "", <<>>)>> \* the same, from within a branch

\* A test that may refuse; else is what is done then.
Check(what, else) == <<Step("check", what, "", <<else>>)>>
\* A test that only guards the steps then.
If(what, then) == <<Step("if", what, "", <<then>>)>>

\* The process ends: a panic that nothing recovers, or os.Exit.
Exit == <<Step("exit", "", "", <<>>)>>

\* Known from what was read, without a test.
Known(what) == <<Step("check", what, "", <<>>)>>

\* Something opened that must be closed: take it, close it, or leave the
\* closing to the return of the function.
Take(what, else) == <<Step("take", what, "", <<else>>)>>
Opens(what) == <<Step("take", what, "", <<>>)>> \* where failing is another branch
Close(what) == <<Step("close", what, "", <<>>)>>
Defer(what) == <<Step("defer", what, "", <<>>)>>
\* Another owner closes it.
HandOver(what) == <<Step("hand over", what, "", <<>>)>>
Hold(what, else) == Take(what, else) \o Defer(what)
\* The connection is counted while its function runs.
Count == Opens("count") \o Defer("count")

\* An answer to the client; the write may fail.
Say(x, else) == <<Step("say", x, "", <<else>>)>>
Tell(x) == Say(x, Drop)
Refuse == Tell("no")
\* An answer whose fate is not looked at.
Announce(x) == <<Step("say", x, "", <<>>)>>
\* Payload of the other end for the client.
Pass(else) == <<Step("pass", "", "", <<else>>)>>
\* An answer kept in a buffer until the first payload for the client.
Keep(x) == <<Step("keep", x, "", <<>>)>>

\* Payload between two ends until one of them ends.
Pipe(a, b) == <<Step("pipe", a, b, <<>>)>>
\* One message of the client to the other end b, and nothing back.
Send(b, else) == <<Step("send", b, "", <<else>>)>>

Either(programs) == <<Step("either", "", "", programs)>>
Maybe(p) == Either(<<p, <<>>>>)
Loop(p) == <<Step("loop", "", "", <<p>>)>>         \* any number of times
Forever(p) == <<Step("forever", "", "", <<p>>)>>

\* Goroutines: start one, signal an event; On and Receive begin a branch.
Go(p) == <<Step("go", "", "", <<p>>)>>
Signal(event) == <<Step("signal", event, "", <<>>)>>
On(event) == <<Step("on", event, "", <<>>)>>
\* Take what was signalled, as from a channel.
Receive(event) == <<Step("receive", event, "", <<>>)>>
\* Wait until what is closed, or what was signalled is taken.
Gone(what) == <<Step("gone", what, "", <<>>)>>
\* Wait for a peer at a listener (or session); fails once that is closed.
Accept(what, at, else) == <<Step("accept", what, at, <<else>>)>>

\* The next request on the same connection: what was found out of earlier ones
\* says nothing of it, except for the connection's own rate and credentials.
NextRequest == <<Step("next", "", "", <<>>)>>
=============================================================================
