------------------------------- MODULE FileLoad --------------------------------
(***************************************************************************)
(* url.rs and file.rs of crates/net: a local file is asked for its size,   *)
(* opened and read, call by call, and another program may write, cut,      *)
(* replace or remove it between any two of the calls.  A file's bytes are  *)
(* symbols; a file that is not in files does not exist.                    *)
(***************************************************************************)
EXTENDS Naturals, Sequences, SequencesExt, FiniteSetsExt

CONSTANTS
  MAX_FILE_BYTES,  \* how many bytes a load may return
  Urls,            \* from the references in use to the scheme, host and path they resolve to
  Reads,           \* how many bytes one call of read may bring
  Rewrites,        \* what another program may leave in a file
  MaxWrites        \* bound: how often other programs write

\* What a file holds is a sequence of symbols.
IsContent(c) == c \in Seq(ToSet(c))
ASSUME FileConstants ==
  /\ MAX_FILE_BYTES \in Nat /\ MaxWrites \in Nat
  /\ Reads \subseteq Nat \ {0} /\ Reads # {}
  /\ \A c \in Rewrites : IsContent(c)

VARIABLES
  files,   \* from the paths that exist to what is in them
  load,    \* the load under way, and how far it is
  writes   \* how often other programs have written

fileVars == <<files, load, writes>>

\* versions: what the open file has held since it was opened, the last is what it holds.
NoLoad       == [at |-> "none", path |-> "", is |-> "", bytes |-> <<>>, versions |-> <<>>]
Loading(p)   == [NoLoad EXCEPT !.at = "stat", !.path = p]
LoadError(e) == [NoLoad EXCEPT !.at = "done", !.is = e]
Loaded(b)    == [NoLoad EXCEPT !.at = "done", !.is = "Ok", !.bytes = b]

\* Url::join: an error when the reference does not resolve.
join_fails(href) == href \notin DOMAIN Urls
\* A host names another machine, whatever the path.
maps_to_file_path(url) == url.host \in {"", "localhost"}

load_file(url) ==
  IF url.scheme # "file" THEN LoadError("UnsupportedScheme")
  ELSE IF ~ maps_to_file_path(url) THEN LoadError("Url")
  ELSE Loading(url.path)

\* Mutant of too_large: a file of the cap's size is refused.
too_large_at_cap(len) == len >= MAX_FILE_BYTES
too_large(len) == len > MAX_FILE_BYTES

\* The size is asked for first, and a file that is too large is not opened.
StatFile ==
  /\ load.at = "stat"
  /\ load' = IF load.path \notin DOMAIN files THEN LoadError("Io")
             ELSE IF too_large(Len(files[load.path])) THEN LoadError("TooLarge")
             ELSE [load EXCEPT !.at = "open"]
  /\ UNCHANGED <<files, writes>>

OpenFile ==
  /\ load.at = "open"
  /\ load' = IF load.path \notin DOMAIN files THEN LoadError("Io")
             ELSE [load EXCEPT !.at = "read", !.versions = <<files[load.path]>>]
  /\ UNCHANGED <<files, writes>>

\* Mutant of take_limit: what is read stops at the cap.
take_limit_at_cap == MAX_FILE_BYTES
\* One byte more than the cap is read, and tells that the file has grown past it.
take_limit == MAX_FILE_BYTES + 1

\* Where the reader stops: at the end of the file as it is now, or at the limit.
read_end == Min({Len(Last(load.versions)), take_limit})

\* Mutant of read_result: the size that was asked for is trusted.
read_result_stat_trusted(buf) == Loaded(buf)
read_result(buf) == IF too_large(Len(buf)) THEN LoadError("TooLarge") ELSE Loaded(buf)

\* read_to_end: a call of read brings some of the bytes that are left, or none, and that is the end.
ReadSome ==
  /\ load.at = "read"
  /\ Len(load.bytes) < read_end
  /\ \E k \in Reads :
       load' = [load EXCEPT !.bytes = @ \o SubSeq(Last(load.versions), Len(@) + 1,
                                                 Min({Len(@) + k, read_end}))]
  /\ UNCHANGED <<files, writes>>
ReadEnd ==
  /\ load.at = "read"
  /\ Len(load.bytes) >= read_end
  /\ load' = read_result(load.bytes)
  /\ UNCHANGED <<files, writes>>

(* Another program, at any time: a file gets other contents in place,      *)
(* which the reader that has it open sees, or another file takes its name, *)
(* or it is removed, which that reader does not see.                       *)
seen(p, content) ==
  IF load.at = "read" /\ load.path = p THEN [load EXCEPT !.versions = Append(@, content)] ELSE load
Rewrite ==
  /\ writes < MaxWrites
  /\ \E p \in DOMAIN files : \E content \in Rewrites :
       /\ files' = [files EXCEPT ![p] = content]
       /\ load' \in {load, seen(p, content)}
  /\ writes' = writes + 1
RemoveFile ==
  /\ writes < MaxWrites
  /\ \E p \in DOMAIN files : files' = [q \in DOMAIN files \ {p} |-> files[q]]
  /\ writes' = writes + 1
  /\ UNCHANGED load

LoadStep == StatFile \/ OpenFile \/ ReadSome \/ ReadEnd

(* What may be returned of a file that held these versions while it was    *)
(* open: not more than the cap; every byte is one that stood at its place; *)
(* the end is the end of the file as the last read met it, not a cut; and  *)
(* of a file nobody wrote to in place, all of it as it was.                *)
ComesUncut(versions, b) ==
  /\ Len(b) <= MAX_FILE_BYTES
  /\ \A i \in DOMAIN b : \E v \in ToSet(versions) : i \in DOMAIN v /\ v[i] = b[i]
  /\ versions # <<>> /\ Len(Last(versions)) <= Len(b)
  /\ Len(versions) = 1 => b = versions[1]

(* Whatever becomes of the file since its size was asked for, a load       *)
(* returns an uncut file, which in-place writers may have torn between two *)
(* reads, and refuses one as too large only if it was.  load_file_with_cap.*)
FilesComeUncut ==
  [][(load.at # "done" /\ load'.at = "done") =>
       /\ load'.is = "Ok" => ComesUncut(load.versions, load'.bytes)
       /\ load'.is = "TooLarge" =>
            \E v \in ToSet(load.versions) \cup {files[p] : p \in DOMAIN files \cap {load.path}} :
              Len(v) > MAX_FILE_BYTES]_fileVars
===============================================================================
