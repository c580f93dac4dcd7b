------------------------------ MODULE Handshake ------------------------------
(***************************************************************************)
(* The messages of crates/ipc and what each side of the handshake decides  *)
(* about one: pure operators, no state.  Bytes that decode to no message   *)
(* are the message Undecodable.                                            *)
(***************************************************************************)
EXTENDS Integers

CONSTANTS
  Versions,  \* protocol versions a hello can name
  Roles,     \* ProcessType of a child
  Pids,      \* process ids
  Nonces,    \* nonces a pong can carry
  PROTOCOL_VERSION, SpawnedAs, SpawnedPid  \* ReceiverCtx of the spawned child

HelloClaims == [version : Versions, role : Roles, pid : Pids]
Expected    == [version |-> PROTOCOL_VERSION, role |-> SpawnedAs, pid |-> SpawnedPid]

ASSUME ExpectedAssumption == Expected \in HelloClaims
ASSUME NonceAssumption    == 1 \in Nonces

Hello(claims)     == [kind |-> "Hello", claims |-> claims]
Pong(n)           == [kind |-> "Pong", nonce |-> n]
HelloAck(accepted) == [kind |-> "HelloAck", accepted |-> accepted]
Ping(n)           == [kind |-> "Ping", nonce |-> n]
Shutdown          == [kind |-> "Shutdown"]
Undecodable       == [kind |-> "Undecodable"]

ToBrowser == {Hello(c) : c \in HelloClaims} \cup {Pong(n) : n \in Nonces} \cup {Undecodable}
ToChild   == {HelloAck(a) : a \in BOOLEAN} \cup {Ping(n) : n \in Nonces} \cup {Shutdown}

\* Mutant of validate: any process of the right role will do.
validate_any_pid(claims) ==
  IF claims.version # Expected.version THEN "VersionMismatch"
  ELSE IF claims.role # Expected.role THEN "ProcessTypeMismatch"
  ELSE "Ok"

\* Hello::validate: the claims against what the browser knows, in this order.
validate(claims) ==
  IF claims.version # Expected.version THEN "VersionMismatch"
  ELSE IF claims.role # Expected.role THEN "ProcessTypeMismatch"
  ELSE IF claims.pid # Expected.pid THEN "PidMismatch"
  ELSE "Ok"

\* What browser_side does with the first message: accept the child, tell it
\* that it is rejected, or (nothing was decoded) fail without a word.
browser_verdict(msg) ==
  IF msg.kind = "Undecodable" THEN "fail"
  ELSE IF msg.kind # "Hello" THEN "reject"
  ELSE IF validate(msg.claims) = "Ok" THEN "accept" ELSE "reject"

\* What child_side does with its first message.
child_verdict(msg) ==
  IF msg.kind = "HelloAck" /\ msg.accepted THEN "serve" ELSE "exit"
===============================================================================
