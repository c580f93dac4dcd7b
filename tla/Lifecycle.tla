------------------------------ MODULE Lifecycle ------------------------------
(***************************************************************************)
(* One browser process and the child it spawns: the one-shot bootstrap     *)
(* with its helper thread, the handshake, the ping, the shutdown, and how  *)
(* every failure on the way ends the child.                                *)
(*                                                                         *)
(* Time is not modelled: a deadline may pass at any moment at which the    *)
(* code would look at the clock, which is when there is nothing to read.   *)
(***************************************************************************)
EXTENDS Handshake, Sequences

CONSTANTS
  Faults,   \* what may go wrong, out of PossibleFaults
  MaxQueue  \* bound: unread messages to the browser when a child sends another unasked

PossibleFaults == {"os", "sandbox", "deadline", "flag", "misbehave", "child", "browser"}

ASSUME FaultsAssumption == Faults \subseteq PossibleFaults
ASSUME QueueAssumption  == MaxQueue \in Nat

VARIABLES
  pc,        \* where the browser's main thread is
  result,    \* what browser.rs's run returned
  helper,    \* the accept thread: off, accepting, ended
  wire,      \* where the browser's ends of the two byte channels are
  child,     \* where the child is; exited is a zombie, reaped is gone
  status,    \* how the child exited
  toBrowser, toChild,  \* messages sent and not read
  hello,     \* the claims in ChildProcess::hello, <<>> while there are none
  wrong      \* history: what has gone wrong so far

browserVars == <<pc, result, hello>>
childVars   == <<child, status>>
queues      == <<toBrowser, toChild>>
vars        == <<browserVars, helper, wire, childVars, queues, wrong>>

InSpawn == {"accept", "hello"}
InRun   == {"ping", "pong", "up", "wait", "drop"}
Ended   == {"done", "crashed"}
Running == {"start", "connect", "hello", "ack", "serve"}

TypeOK ==
  /\ pc \in {"new", "kill", "reap"} \cup InSpawn \cup InRun \cup Ended
  /\ result \in {"none", "ok", "err"}
  /\ helper \in {"off", "accepting", "ended"}
  /\ wire \in {"unmade", "sent", "received", "broken", "held", "lost"}
  /\ child \in {"none", "exited", "reaped"} \cup Running
  /\ status \in {"none", "success", "error", "config", "killed"}
  /\ toBrowser \in Seq(ToBrowser)
  /\ toChild \in Seq(ToChild)
  /\ hello \in HelloClaims \cup {<<>>}
  /\ wrong \subseteq Faults

Init ==
  /\ pc = "new" /\ result = "none"
  /\ helper = "off" /\ wire = "unmade"
  /\ child = "none" /\ status = "none"
  /\ toBrowser = <<>> /\ toChild = <<>>
  /\ hello = <<>>
  /\ wrong = {}

\* Something goes wrong that the model was asked to allow.
fault(kind) == kind \in Faults /\ wrong' = wrong \cup {kind}

-----------------------------------------------------------------------------
\* Mutant of exit: the child's exit status is taken for the result.
exit_with_status(r) ==
  /\ pc' = "done"
  /\ result' = status
  /\ helper' = "ended"
  /\ wire' = IF wire = "unmade" THEN wire ELSE "lost"

(* Browser: the end of the process, with all its threads and channel ends. *)
exit(r) ==
  /\ pc' = "done"
  /\ result' = r
  /\ helper' = "ended"
  /\ wire' = IF wire = "unmade" THEN wire ELSE "lost"

(* Sending to a child fails once the process is gone.                      *)
sent(msg) ==
  /\ child \in Running
  /\ toChild' = Append(toChild, msg)
undelivered ==
  /\ child \notin Running
  /\ toChild' = toChild

(* Nothing can be read: the child's end is closed or the deadline passes.  *)
silence ==
  /\ toBrowser = <<>>
  /\ \/ child \notin Running /\ wrong' = wrong
     \/ fault("deadline")

(* spawn: server, process and accept thread, each of which the system may  *)
(* refuse.                                                                 *)
spawn ==
  /\ pc = "new"
  /\ \/ /\ fault("os")   \* no server or no process
        /\ exit("err")
        /\ child' = child
     \/ /\ fault("os")   \* no thread
        /\ child' = "start" /\ pc' = "kill" /\ helper' = "ended"
        /\ UNCHANGED <<result, wire>>
     \/ /\ child' = "start" /\ pc' = "accept" /\ helper' = "accepting"
        /\ UNCHANGED <<result, wire, wrong>>
  /\ UNCHANGED <<status, queues, hello>>

\* Mutants of accept_with_timeout: the deadline returns without killing the
\* child; there is no deadline.
accept_leaves_child ==
  /\ pc = "accept"
  /\ \/ wire = "received" /\ wire' = "held" /\ pc' = "hello" /\ UNCHANGED <<wrong, result, helper>>
     \/ wire = "broken" /\ wire' = "lost" /\ pc' = "kill" /\ UNCHANGED <<wrong, result, helper>>
     \/ wire \in {"unmade", "sent"} /\ exit("err") /\ fault("deadline")
  /\ UNCHANGED <<childVars, queues, hello>>
accept_without_timeout ==
  /\ pc = "accept"
  /\ \/ wire = "received" /\ wire' = "held" /\ pc' = "hello"
     \/ wire = "broken" /\ wire' = "lost" /\ pc' = "kill"
  /\ UNCHANGED <<wrong, result, helper, childVars, queues, hello>>

(* accept_with_timeout: what the thread sent, or the deadline.             *)
accept_with_timeout ==
  /\ pc = "accept"
  /\ \/ wire = "received" /\ wire' = "held" /\ pc' = "hello" /\ wrong' = wrong
     \/ wire = "broken" /\ wire' = "lost" /\ pc' = "kill" /\ wrong' = wrong
     \/ wire \in {"unmade", "sent"} /\ wire' = wire /\ pc' = "kill" /\ fault("deadline")
  /\ UNCHANGED <<result, helper, childVars, queues, hello>>

(* browser_side, and spawn's arm for its error.                            *)
browser_side ==
  /\ pc = "hello"
  /\ \/ /\ silence
        /\ pc' = "kill"
        /\ UNCHANGED <<queues, hello>>
     \/ /\ toBrowser # <<>>
        /\ toBrowser' = Tail(toBrowser)
        /\ LET msg     == Head(toBrowser)
               verdict == browser_verdict(msg)
           IN  \/ verdict = "fail" /\ pc' = "kill" /\ UNCHANGED <<toChild, hello>>
               \/ verdict = "reject" /\ pc' = "kill" /\ hello' = hello
                  /\ (sent(HelloAck(FALSE)) \/ undelivered)
               \/ verdict = "accept" /\ sent(HelloAck(TRUE))
                  /\ pc' = "ping" /\ hello' = msg.claims
               \/ verdict = "accept" /\ undelivered /\ pc' = "kill" /\ hello' = hello
        /\ wrong' = wrong
  /\ UNCHANGED <<result, helper, wire, childVars>>

\* Mutants of send_ping: before the answer to the hello; with another nonce.
send_ping_early ==
  /\ pc \in {"hello", "ping"}
  /\ \/ sent(Ping(1)) /\ pc' = "pong"
     \/ undelivered /\ pc' = "drop"
  /\ UNCHANGED <<result, helper, wire, childVars, toBrowser, hello, wrong>>
send_ping_two ==
  /\ pc = "ping"
  /\ \/ sent(Ping(2)) /\ pc' = "pong"
     \/ undelivered /\ pc' = "drop"
  /\ UNCHANGED <<result, helper, wire, childVars, toBrowser, hello, wrong>>

(* run after spawn: Ping(1), its Pong(1), the idle time, Shutdown.  Every  *)
(* error drops the ChildProcess.                                           *)
send_ping ==
  /\ pc = "ping"
  /\ \/ sent(Ping(1)) /\ pc' = "pong"
     \/ undelivered /\ pc' = "drop"
  /\ UNCHANGED <<result, helper, wire, childVars, toBrowser, hello, wrong>>

await_pong ==
  /\ pc = "pong"
  /\ \/ /\ silence
        /\ pc' = "drop"
        /\ toBrowser' = toBrowser
     \/ /\ toBrowser # <<>>
        /\ toBrowser' = Tail(toBrowser)
        /\ pc' = IF Head(toBrowser) = Pong(1) THEN "up" ELSE "drop"
        /\ wrong' = wrong
  /\ UNCHANGED <<result, helper, wire, childVars, toChild, hello>>

send_shutdown ==
  /\ pc = "up"
  /\ \/ sent(Shutdown) /\ pc' = "wait" /\ wrong' = wrong
     \/ undelivered /\ pc' = "drop" /\ wrong' = wrong
     \/ fault("flag") /\ pc' = "drop" /\ toChild' = toChild
  /\ UNCHANGED <<result, helper, wire, childVars, toBrowser, hello>>

\* Mutant of wait: any exit is a success.
wait_for_any ==
  /\ pc = "wait"
  /\ child = "exited"
  /\ child' = "reaped"
  /\ exit("ok")
  /\ UNCHANGED <<status, queues, hello, wrong>>

(* ChildProcess::wait has no deadline: it goes on only when the child has  *)
(* exited.  The handle dropped next finds the child reaped.                *)
wait ==
  /\ pc = "wait"
  /\ child = "exited"
  /\ child' = "reaped"
  /\ exit(IF status = "success" THEN "ok" ELSE "err")
  /\ UNCHANGED <<status, queues, hello, wrong>>

(* Drop for ChildProcess: try_wait, which fails for no live child.         *)
drop ==
  /\ pc = "drop"
  /\ \/ child = "exited" /\ child' = "reaped" /\ exit("err")
     \/ child \in Running /\ pc' = "kill" /\ UNCHANGED <<child, result, helper, wire>>
  /\ UNCHANGED <<status, queues, hello, wrong>>

\* Mutant of kill: reaps as well, and is followed by a second wait.
kill_reaping ==
  /\ pc = "kill"
  /\ pc' = "reap"
  /\ child' = "reaped"
  /\ status' = IF child \in Running THEN "killed" ELSE status
  /\ UNCHANGED <<result, helper, wire, queues, hello, wrong>>

(* kill_and_reap, its two calls.                                           *)
kill ==
  /\ pc = "kill"
  /\ pc' = "reap"
  /\ child' = "exited"
  /\ status' = IF child \in Running THEN "killed" ELSE status
  /\ UNCHANGED <<result, helper, wire, queues, hello, wrong>>

reap ==
  /\ pc = "reap"
  /\ child = "exited"
  /\ child' = "reaped"
  /\ exit("err")
  /\ UNCHANGED <<status, queues, hello, wrong>>

BrowserStep ==
  \/ spawn \/ accept_with_timeout \/ browser_side
  \/ send_ping \/ await_pong \/ send_shutdown
  \/ wait \/ drop \/ kill \/ reap

\* The browser process is killed: no destructor runs.
BrowserCrash ==
  /\ pc \notin Ended
  /\ fault("browser")
  /\ pc' = "crashed" /\ helper' = "ended"
  /\ wire' = IF wire = "unmade" THEN wire ELSE "lost"
  /\ UNCHANGED <<result, childVars, queues, hello>>

-----------------------------------------------------------------------------
(* The accept thread.  What it accepts is dropped, channel ends and all,   *)
(* when the main thread has stopped waiting; a child that died or left     *)
(* between connecting and sending makes accept fail.                       *)
HelperStep ==
  /\ helper = "accepting"
  /\ \/ wire = "sent" /\ wire' = IF pc = "accept" THEN "received" ELSE "lost"
     \/ /\ wire = "unmade" /\ child = "exited" /\ Faults \cap {"child", "misbehave"} # {}
        /\ wire' = IF pc = "accept" THEN "broken" ELSE "lost"
  /\ helper' = "ended"
  /\ UNCHANGED <<browserVars, childVars, queues, wrong>>

-----------------------------------------------------------------------------
(* Child: the program of child.rs.                                         *)
leave(code) == child' = "exited" /\ status' = code

apply_sandbox ==
  /\ child = "start"
  /\ \/ fault("sandbox") /\ leave("config")
     \/ child' = "connect" /\ UNCHANGED <<status, wrong>>
  /\ UNCHANGED <<browserVars, helper, wire, queues>>

connect_child ==
  /\ child = "connect"
  /\ IF helper = "accepting" THEN child' = "hello" /\ wire' = "sent" /\ status' = status
                             ELSE leave("error") /\ wire' = wire
  /\ UNCHANGED <<browserVars, helper, queues, wrong>>

\* Sending to the browser fails once its ends of the channels are dropped.
Reply(msg, next) ==
  IF wire = "lost" THEN leave("error") /\ toBrowser' = toBrowser
  ELSE toBrowser' = Append(toBrowser, msg) /\ child' = next /\ status' = status

send_hello ==
  /\ child = "hello"
  /\ Reply(Hello(Expected), "ack")
  /\ UNCHANGED <<browserVars, helper, wire, toChild, wrong>>

\* Mutant of hangup: a closed channel is waited on.
hangup_unnoticed == FALSE /\ leave("error") /\ UNCHANGED queues

\* recv fails when the channel is closed and drained.
hangup ==
  /\ toChild = <<>> /\ wire = "lost"
  /\ leave("error")
  /\ UNCHANGED queues

await_ack ==
  /\ child = "ack"
  /\ \/ hangup
     \/ /\ toChild # <<>>
        /\ toChild' = Tail(toChild)
        /\ IF child_verdict(Head(toChild)) = "serve"
             THEN child' = "serve" /\ status' = status ELSE leave("error")
        /\ toBrowser' = toBrowser
  /\ UNCHANGED <<browserVars, helper, wire, wrong>>

serve ==
  /\ child = "serve"
  /\ \/ hangup
     \/ /\ toChild # <<>>
        /\ toChild' = Tail(toChild)
        /\ LET msg == Head(toChild)
           IN  \/ msg.kind = "Ping" /\ Reply(Pong(msg.nonce), "serve")
               \/ msg.kind = "Shutdown" /\ leave("success") /\ toBrowser' = toBrowser
               \/ msg.kind = "HelloAck" /\ leave("error") /\ toBrowser' = toBrowser
  /\ UNCHANGED <<browserVars, helper, wire, wrong>>

ChildStep == apply_sandbox \/ connect_child \/ send_hello \/ await_ack \/ serve

ChildCrash ==
  /\ child \in Running
  /\ fault("child")
  /\ leave("killed")
  /\ UNCHANGED <<browserVars, helper, wire, queues>>

(* A child that runs something else than child.rs says anything at any     *)
(* time, and at any time leaves with any exit status, connected or not and *)
(* whatever it was sent.  What it reads the browser cannot see.            *)
Misbehave ==
  /\ child \in Running
  /\ fault("misbehave")
  /\ \/ /\ wire \notin {"unmade", "lost"}
        /\ Len(toBrowser) < MaxQueue
        /\ \E msg \in ToBrowser : toBrowser' = Append(toBrowser, msg)
        /\ UNCHANGED childVars
     \/ /\ \E code \in {"success", "error", "config"} : leave(code)
        /\ toBrowser' = toBrowser
  /\ UNCHANGED <<browserVars, helper, wire, toChild>>

\* Both processes are over.
Rest == pc \in Ended /\ child \notin Running /\ UNCHANGED vars

Next == BrowserStep \/ HelperStep \/ BrowserCrash
          \/ ChildStep \/ ChildCrash \/ Misbehave \/ Rest

(* The browser's threads are scheduled and its clock runs, so a wait with  *)
(* a deadline ends.  The child may hang anywhere.                          *)
Spec == Init /\ [][Next]_vars /\ WF_vars(BrowserStep) /\ WF_vars(HelperStep)

(* The child is scheduled too and hangs nowhere.                           *)
ChildRuns == WF_vars(ChildStep)

-----------------------------------------------------------------------------
(* "Nothing may outlive its handle": when run has returned, on any path,   *)
(* the child it spawned has exited and been reaped.                        *)
NothingOutlivesItsHandle == pc = "done" => child \in {"none", "reaped"}

(* A handle is reaped at most where the process is known to have exited,   *)
(* and until then the process is the browser's to signal: no kill or wait  *)
(* reaches a pid that was given back to the system.                        *)
SignalsOnlyItsChild == pc \in {"wait", "drop", "kill", "reap"} => child \notin {"none", "reaped"}

(* The process is reaped once: on no path twice and on no path never.      *)
ChildIsReapedOnce ==
  /\ NothingOutlivesItsHandle
  /\ SignalsOnlyItsChild

(* A process that did not prove its identity is never served: whenever a   *)
(* child has been accepted, or its acceptance is on the way, the browser   *)
(* has checked the claims it keeps and they are those of the child it      *)
(* spawned.                                                                *)
AcceptedChildIsProven ==
  \/ child = "serve"
  \/ HelloAck(TRUE) \in {toChild[i] : i \in DOMAIN toChild}
  \/ pc \in InRun
  => hello = Expected

(* The child never gets a message it would bail on: nothing but the answer *)
(* to its hello while it waits for it, and no second answer later.         *)
ChildNeverSurprised ==
  /\ child = "ack" /\ toChild # <<>> => Head(toChild).kind = "HelloAck"
  /\ child = "serve" => \A i \in DOMAIN toChild : toChild[i].kind # "HelloAck"

(* The handshake decides once, for the right process, and before anything  *)
(* else is said: each side may rely on what the other has checked.         *)
HandshakeHolds ==
  /\ AcceptedChildIsProven
  /\ ChildNeverSurprised

(* run succeeds only for a child that proved its identity and whose exit   *)
(* status says so, and passes over no failure: all that may have gone      *)
(* wrong is that the child ran another program than child.rs, which can do *)
(* all this with Shutdown unread.  One that ran child.rs did all of it: it *)
(* has read everything it was sent.                                        *)
SuccessIsOrderly ==
  result = "ok" =>
    /\ status = "success"
    /\ hello = Expected
    /\ wrong \subseteq {"misbehave"}
    /\ wrong = {} => toChild = <<>>

(* spawn returns, with a child or an error, even if the child hangs.       *)
SpawnReturns == pc \in InSpawn ~> pc \in {"ping", "done", "crashed"}

(* Once the browser is gone, by whatever death, a child that runs exits    *)
(* too: it finds its channel closed wherever it is.                        *)
ChildFollowsBrowser == ChildRuns => (pc \in Ended ~> child \notin Running)

(* When nothing goes wrong and the child runs, the two programs get        *)
(* through to the end and never wait for each other.                       *)
CleanRunSucceeds == ChildRuns /\ [](wrong = {}) => <>(result = "ok" /\ child = "reaped")

(* "The browser must never block unboundedly on a hostile or hung child":  *)
(* the process that was started ends.                                      *)
BrowserReturns == <>(pc \in Ended)
===============================================================================
