------------------------------ MODULE PageProofs -------------------------------
(***************************************************************************)
(* How a page gets to its layout, in three parts.  A load of a local file  *)
(* returns an uncut file or is refused for a reason, whatever other        *)
(* programs do to the file between two calls, for every cap and however    *)
(* much each call brings.  The walk that makes boxes of a styled document  *)
(* gives every box one place in the tree, for every document: the boxes a  *)
(* frame has built are handed to the one box it becomes, and the wrappers  *)
(* of inline runs share them out.  And the boxes of what is laid out nest, *)
(* for all styles, because the sides cut off a box are never negative and  *)
(* because what moves a block moves all of its boxes alike.                *)
(***************************************************************************)
EXTENDS FileLoad, Layout, SequenceTheorems, FiniteSetTheorems, TLAPS

(* The callers of load_file, as crates/style and crates/testshell call it: *)
(* one load at a time, of any URL, whose result is taken when it is there. *)
StartLoad ==
  /\ load.at \in {"none", "done"}
  /\ \E url \in [scheme : STRING, host : STRING, path : STRING] : load' = load_file(url)
  /\ UNCHANGED <<files, writes>>
TakeLoad ==
  /\ load.at = "done"
  /\ load' = NoLoad
  /\ UNCHANGED <<files, writes>>

FileInit ==
  /\ \A p \in DOMAIN files : IsContent(files[p])
  /\ load = NoLoad
  /\ writes = 0
FileNext == StartLoad \/ LoadStep \/ TakeLoad \/ Rewrite \/ RemoveFile
FileSpec == FileInit /\ [][FileNext]_fileVars

(***************************************************************************)
(* What has been read of an open file: every byte is one that a version    *)
(* had at its place, and there are at most as many as were asked for.      *)
(***************************************************************************)
ReadFrom(versions, b) ==
  /\ versions \in Seq(ToSet(versions)) /\ versions # <<>>
  /\ \A v \in ToSet(versions) : IsContent(v)
  /\ IsContent(b) /\ Len(b) <= take_limit
  /\ \A i \in DOMAIN b : \E v \in ToSet(versions) : i \in DOMAIN v /\ v[i] = b[i]

\* Whatever other programs do, what is in a file is a sequence of symbols.
LoadKept ==
  /\ \A p \in DOMAIN files : IsContent(files[p])
  /\ DOMAIN load = {"at", "path", "is", "bytes", "versions"}
  /\ load.at \in {"stat", "open"} => load.bytes = <<>>
  /\ load.at = "read" => ReadFrom(load.versions, load.bytes)

LEMMA LesserOfTwo ==
  ASSUME NEW a \in Nat, NEW b \in Nat
  PROVE  Min({a, b}) \in {a, b} /\ Min({a, b}) <= a /\ Min({a, b}) <= b
<1>1. \E x \in {a, b} : \A y \in {a, b} : x <= y
  OBVIOUS
<1> QED BY <1>1 DEF Min

LEMMA LengthOfRest ==
  ASSUME NEW x \in Nat, NEW y \in Nat, x < y
  PROVE  (IF x + 1 <= y THEN y - (x + 1) + 1 ELSE 0) = y - x
OBVIOUS

\* A sequence of symbols, by its length and its places.
LEMMA ContentPlaces ==
  ASSUME NEW c, IsContent(c)
  PROVE  /\ Len(c) \in Nat /\ DOMAIN c = 1 .. Len(c)
         /\ \A i \in 1 .. Len(c) : c[i] \in ToSet(c)
BY LenProperties, ElementOfSeq DEF IsContent

\* Any sequence holds symbols, its own.
LEMMA OwnContent ==
  ASSUME NEW S, NEW c \in Seq(S)
  PROVE  IsContent(c)
<1>1. Len(c) \in Nat /\ DOMAIN c = 1 .. Len(c) /\ c \in [1 .. Len(c) -> S]
  BY LenProperties
<1>2. c \in [1 .. Len(c) -> ToSet(c)]
  BY <1>1 DEF ToSet
<1> QED BY <1>1, <1>2, SeqDef DEF IsContent

LEMMA LastVersion ==
  ASSUME NEW vs, NEW b, ReadFrom(vs, b)
  PROVE  Last(vs) \in ToSet(vs) /\ IsContent(Last(vs)) /\ Len(vs) \in Nat \ {0}
<1>1. vs \in Seq(ToSet(vs)) /\ vs # <<>>
  BY DEF ReadFrom
<1>2. Len(vs) \in Nat \ {0}
  BY <1>1, EmptySeq
<1>3. vs[Len(vs)] \in ToSet(vs)
  BY <1>1, <1>2, ElementOfSeq
<1> QED BY <1>2, <1>3 DEF ReadFrom, Last

\* A file that is opened has one version, of which nothing has been read.
LEMMA OpenedReads ==
  ASSUME NEW c, IsContent(c)
  PROVE  ReadFrom(<<c>>, <<>>)
<1>1. ToSet(<<c>>) = {c} /\ <<c>> \in Seq({c}) /\ <<c>> # <<>>
  BY DEF ToSet
<1>2. Len(<<>>) = 0 /\ DOMAIN <<>> = {} /\ <<>> \in Seq(ToSet(<<>>))
  BY EmptySeq
<1> QED BY <1>1, <1>2, FileConstants DEF ReadFrom, IsContent, take_limit

\* A write in place adds a version.
LEMMA WrittenReads ==
  ASSUME NEW vs, NEW b, ReadFrom(vs, b), NEW c, IsContent(c)
  PROVE  ReadFrom(Append(vs, c), b)
<1> DEFINE ws == Append(vs, c)
<1>1. vs \in Seq(ToSet(vs) \cup {c})
  BY DEF ReadFrom
<1>2. /\ ws \in Seq(ToSet(vs) \cup {c}) /\ ws # <<>>
      /\ Len(ws) = Len(vs) + 1 /\ ws[Len(vs) + 1] = c
      /\ \A i \in 1 .. Len(vs) : ws[i] = vs[i]
  BY <1>1, AppendProperties
<1>3. Len(vs) \in Nat /\ DOMAIN vs = 1 .. Len(vs) /\ DOMAIN ws = 1 .. Len(vs) + 1
  BY <1>1, <1>2, LenProperties
<1> HIDE DEF ws
<1>4. ToSet(ws) = ToSet(vs) \cup {c}
  BY <1>2, <1>3 DEF ToSet
<1>5. ReadFrom(ws, b)
  BY <1>2, <1>4 DEF ReadFrom
<1> QED BY <1>5 DEF ws

\* One call of read: what it brings stands in the version the file has now.
LEMMA MoreReads ==
  ASSUME NEW vs, NEW b, ReadFrom(vs, b), NEW k \in Nat \ {0},
         NEW e, e = Min({Len(Last(vs)), take_limit}), Len(b) < e,
         NEW n, n = Min({Len(b) + k, e})
  PROVE  ReadFrom(vs, b \o SubSeq(Last(vs), Len(b) + 1, n))
<1> DEFINE c   == Last(vs)
           new == SubSeq(c, Len(b) + 1, n)
           out == b \o new
           S   == ToSet(b) \cup ToSet(c)
<1> HIDE DEF new, out, S
<1>1. /\ c \in ToSet(vs) /\ Len(c) \in Nat /\ DOMAIN c = 1 .. Len(c)
      /\ \A i \in 1 .. Len(c) : c[i] \in ToSet(c)
  BY LastVersion, ContentPlaces
<1>2. b \in Seq(ToSet(b)) /\ Len(b) \in Nat /\ DOMAIN b = 1 .. Len(b)
  BY ContentPlaces DEF ReadFrom, IsContent
<1>3. take_limit \in Nat
  BY FileConstants DEF take_limit
<1> HIDE DEF c
<1>4. e \in Nat /\ e <= Len(c) /\ e <= take_limit
  BY <1>1, <1>3, LesserOfTwo DEF c
<1>5. n \in Nat /\ Len(b) < n /\ n <= e
  <2>1. Len(b) + k \in Nat /\ Len(b) < Len(b) + k
    BY <1>2
  <2>2. n \in {Len(b) + k, e} /\ n <= e
    BY ONLY <1>4, <2>1, LesserOfTwo, n = Min({Len(b) + k, e})
  <2> QED BY ONLY <1>2, <1>4, <2>1, <2>2, Len(b) < e
<1>6. /\ new \in Seq(S) /\ Len(new) = n - Len(b)
      /\ \A i \in 1 .. n - Len(b) : new[i] = c[Len(b) + i]
  <2>1. \A i \in Len(b) + 1 .. n : c[i] \in S
    BY <1>1, <1>2, <1>4, <1>5 DEF S
  <2>2. Len(b) + 1 \in Int /\ n \in Int
    BY <1>2, <1>5
  <2> DEFINE m == Len(b) + 1
  <2>3. /\ SubSeq(c, m, n) \in Seq(S)
        /\ Len(SubSeq(c, m, n)) = IF m <= n THEN n - m + 1 ELSE 0
        /\ \A i \in 1 .. n - m + 1 : SubSeq(c, m, n)[i] = c[m + i - 1]
    <3> HIDE DEF m
    <3>1. m \in Int /\ n \in Int /\ \A i \in m .. n : c[i] \in S
      BY <2>1, <2>2 DEF m
    <3> QED BY ONLY <3>1, SubSeqProperties
  <2>4. new = SubSeq(c, m, n)
    BY DEF new
  <2>5. new \in Seq(S) /\ Len(new) = n - Len(b)
    <3>1. (IF m <= n THEN n - m + 1 ELSE 0) = n - Len(b)
      BY <1>2, <1>5, LengthOfRest
    <3> HIDE DEF m
    <3> QED BY ONLY <2>3, <2>4, <3>1
  <2>6. ASSUME NEW i \in 1 .. n - Len(b) PROVE new[i] = c[Len(b) + i]
    <3>1. i \in 1 .. n - m + 1 /\ m + i - 1 = Len(b) + i
      BY ONLY <1>2, <1>5, i \in 1 .. n - Len(b)
    <3> QED BY <2>3, <2>4, <3>1
  <2> QED BY <2>5, <2>6
<1>7. /\ out \in Seq(S) /\ Len(out) = n
      /\ \A i \in 1 .. n : out[i] = IF i <= Len(b) THEN b[i] ELSE c[i]
  <2>1. b \in Seq(S)
    BY <1>2 DEF S
  <2>2. /\ out \in Seq(S) /\ Len(out) = Len(b) + Len(new)
        /\ \A i \in 1 .. Len(b) + Len(new) :
             out[i] = IF i <= Len(b) THEN b[i] ELSE new[i - Len(b)]
    BY <1>6, <2>1, ConcatProperties DEF out
  <2>3. Len(b) + Len(new) = n
    BY ONLY <1>2, <1>5, <1>6
  <2>4. ASSUME NEW i \in 1 .. n, ~ (i <= Len(b)) PROVE new[i - Len(b)] = c[i]
    <3>1. i - Len(b) \in 1 .. n - Len(b) /\ Len(b) + (i - Len(b)) = i
      BY ONLY <1>2, <1>5, i \in 1 .. n, ~ (i <= Len(b))
    <3> QED BY <1>6, <3>1
  <2> QED BY ONLY <2>2, <2>3, <2>4
<1>8. DOMAIN out = 1 .. n /\ IsContent(out)
  BY <1>7, OwnContent, LenProperties
<1>9. ASSUME NEW i \in DOMAIN out
      PROVE  \E v \in ToSet(vs) : i \in DOMAIN v /\ v[i] = out[i]
  <2>1. i \in 1 .. n
    BY <1>8
  <2>2. CASE i <= Len(b)
    <3>1. i \in DOMAIN b /\ out[i] = b[i]
      BY ONLY <1>2, <1>5, <1>7, <2>1, <2>2
    <3> QED BY <3>1 DEF ReadFrom
  <2>3. CASE ~ (i <= Len(b))
    <3>1. i \in DOMAIN c /\ out[i] = c[i]
      BY ONLY <1>1, <1>4, <1>5, <1>7, <2>1, <2>3
    <3> QED BY <1>1, <3>1
  <2> QED BY <2>2, <2>3
<1>10. Len(out) <= take_limit
  BY <1>3, <1>4, <1>5, <1>7
<1>11. ReadFrom(vs, out)
  BY <1>8, <1>9, <1>10 DEF ReadFrom
<1> QED BY <1>11 DEF out, new, c

\* A read that met the end within the cap has all of the file, and no version was shorter.
LEMMA EndIsUncut ==
  ASSUME NEW vs, NEW b, ReadFrom(vs, b),
         Len(b) >= Min({Len(Last(vs)), take_limit}), ~ too_large(Len(b))
  PROVE  ComesUncut(vs, b)
<1> DEFINE c == Last(vs)
<1>1. IsContent(c) /\ Len(c) \in Nat /\ DOMAIN c = 1 .. Len(c) /\ Len(vs) \in Nat \ {0}
  BY LastVersion, ContentPlaces
<1>2. IsContent(b) /\ Len(b) \in Nat /\ DOMAIN b = 1 .. Len(b) /\ vs # <<>>
  BY ContentPlaces DEF ReadFrom
<1>3. Len(b) <= MAX_FILE_BYTES
  BY <1>2, FileConstants DEF too_large
<1>4. Len(c) <= Len(b)
  <2>1. Min({Len(c), take_limit}) \in {Len(c), take_limit}
    BY <1>1, FileConstants, LesserOfTwo DEF take_limit
  <2> HIDE DEF c
  <2>2. Len(b) >= Min({Len(c), take_limit})
    BY DEF c
  <2> QED BY <1>1, <1>2, <1>3, <2>1, <2>2, FileConstants DEF take_limit
<1>5. ASSUME Len(vs) = 1 PROVE b = vs[1]
  <2>1. c = vs[1] /\ ToSet(vs) = {c}
    <3>1. DOMAIN vs = {1}
      BY <1>5, LenProperties DEF ReadFrom
    <3> QED BY <1>5, <3>1 DEF Last, ToSet
  <2> HIDE DEF c
  <2>2. \A i \in 1 .. Len(b) : i \in 1 .. Len(c) /\ c[i] = b[i]
    BY <1>1, <1>2, <2>1 DEF ReadFrom
  <2>3. Len(b) = Len(c)
    <3>1. ASSUME NEW x \in Nat, NEW y \in Nat, y <= x, \A i \in 1 .. x : i \in 1 .. y
          PROVE  x = y
      <4>1. x # 0 => x \in 1 .. x
        OBVIOUS
      <4> QED BY <3>1, <4>1
    <3>2. \A i \in 1 .. Len(b) : i \in 1 .. Len(c)
      BY <2>2
    <3>3. Len(b) \in Nat /\ Len(c) \in Nat
      BY <1>1, <1>2
    <3> QED BY <1>4, <3>1, <3>2, <3>3
  <2>4. b \in Seq(ToSet(b) \cup ToSet(c)) /\ c \in Seq(ToSet(b) \cup ToSet(c))
    BY <1>1, <1>2 DEF IsContent
  <2>5. b = c
    BY <2>2, <2>3, <2>4, SeqEqual
  <2> QED BY <2>1, <2>5
<1>6. \A i \in DOMAIN b : \E v \in ToSet(vs) : i \in DOMAIN v /\ v[i] = b[i]
  BY DEF ReadFrom
<1> QED BY <1>2, <1>3, <1>4, <1>5, <1>6 DEF ComesUncut

\* More bytes than the cap are from a version that was that long.
LEMMA TooLargeWas ==
  ASSUME NEW vs, NEW b, ReadFrom(vs, b), too_large(Len(b))
  PROVE  \E v \in ToSet(vs) : Len(v) > MAX_FILE_BYTES
<1>1. Len(b) \in Nat /\ DOMAIN b = 1 .. Len(b) /\ Len(b) > MAX_FILE_BYTES
  BY ContentPlaces DEF ReadFrom, too_large
<1>2. Len(b) \in DOMAIN b
  BY <1>1, FileConstants
<1>3. PICK v \in ToSet(vs) : Len(b) \in DOMAIN v
  BY <1>2 DEF ReadFrom
<1>4. Len(v) \in Nat /\ DOMAIN v = 1 .. Len(v)
  BY <1>3, ContentPlaces DEF ReadFrom
<1> QED BY <1>1, <1>3, <1>4, FileConstants

LEMMA LoadStepKept ==
  ASSUME LoadKept, [FileNext]_fileVars
  PROVE  LoadKept'
<1>1. CASE StartLoad
  BY <1>1 DEF LoadKept, StartLoad, load_file, Loading, LoadError, NoLoad
<1>2. CASE TakeLoad
  <2>1. NoLoad.at = "none" /\ DOMAIN NoLoad = {"at", "path", "is", "bytes", "versions"}
    BY DEF NoLoad
  <2> QED BY <1>2, <2>1 DEF LoadKept, TakeLoad
<1>3. CASE StatFile
  <2>1. CASE \E e \in {"Io", "TooLarge"} : load' = LoadError(e)
    BY <1>3, <2>1 DEF LoadKept, StatFile, LoadError, NoLoad
  <2>2. CASE load' = [load EXCEPT !.at = "open"]
    BY <1>3, <2>2 DEF LoadKept, StatFile
  <2>3. \/ load' = LoadError("Io") \/ load' = LoadError("TooLarge")
        \/ load' = [load EXCEPT !.at = "open"]
    BY <1>3 DEF StatFile
  <2> QED BY <2>1, <2>2, <2>3
<1>4. CASE OpenFile
  <2>1. CASE load' = LoadError("Io")
    BY <1>4, <2>1 DEF LoadKept, OpenFile, LoadError, NoLoad
  <2>2. CASE /\ load.path \in DOMAIN files
             /\ load' = [load EXCEPT !.at = "read", !.versions = <<files[load.path]>>]
    <3>1. /\ DOMAIN load' = DOMAIN load /\ load'.at = "read" /\ load'.bytes = <<>>
          /\ load'.versions = <<files[load.path]>>
      BY <1>4, <2>2 DEF LoadKept, OpenFile
    <3>2. ReadFrom(load'.versions, load'.bytes)
      BY <2>2, <3>1, OpenedReads DEF LoadKept
    <3> QED BY <1>4, <3>1, <3>2 DEF LoadKept, OpenFile
  <2> QED BY <1>4, <2>1, <2>2 DEF OpenFile
<1>5. CASE ReadSome
  <2>1. PICK k \in Nat \ {0} :
          load' = [load EXCEPT !.bytes = @ \o SubSeq(Last(load.versions), Len(@) + 1,
                                                     Min({Len(@) + k, read_end}))]
    BY <1>5, FileConstants DEF ReadSome
  <2>2. /\ DOMAIN load' = DOMAIN load /\ load'.at = "read" /\ load'.versions = load.versions
        /\ load'.bytes = load.bytes \o SubSeq(Last(load.versions), Len(load.bytes) + 1,
                                              Min({Len(load.bytes) + k, read_end}))
    BY <1>5, <2>1 DEF LoadKept, ReadSome
  <2>3. ReadFrom(load.versions, load.bytes) /\ Len(load.bytes) < read_end
    BY <1>5 DEF LoadKept, ReadSome
  <2>4. ReadFrom(load'.versions, load'.bytes)
    BY <2>2, <2>3, MoreReads DEF read_end
  <2> QED BY <1>5, <2>2, <2>4 DEF LoadKept, ReadSome
<1>6. CASE ReadEnd
  BY <1>6 DEF LoadKept, ReadEnd, read_result, Loaded, LoadError, NoLoad
<1>7. CASE Rewrite
  <2>1. PICK p \in DOMAIN files : \E c \in Rewrites :
               files' = [files EXCEPT ![p] = c] /\ load' \in {load, seen(p, c)}
    BY <1>7 DEF Rewrite
  <2>2. PICK c \in Rewrites :
               files' = [files EXCEPT ![p] = c] /\ load' \in {load, seen(p, c)}
    BY <2>1
  <2>3. IsContent(c)
    BY FileConstants
  <2>4. \A q \in DOMAIN files' : IsContent(files'[q])
    BY <2>2, <2>3 DEF LoadKept
  <2>5. CASE load' = load
    BY <2>4, <2>5 DEF LoadKept
  <2>6. CASE load.at = "read" /\ load' = [load EXCEPT !.versions = Append(@, c)]
    <3>1. /\ DOMAIN load' = DOMAIN load /\ load'.at = "read" /\ load'.bytes = load.bytes
          /\ load'.versions = Append(load.versions, c)
      BY <2>6 DEF LoadKept
    <3>2. ReadFrom(load'.versions, load'.bytes)
      BY <2>3, <2>6, <3>1, WrittenReads DEF LoadKept
    <3> QED BY <2>4, <3>1, <3>2 DEF LoadKept
  <2> QED BY <2>2, <2>5, <2>6 DEF seen
<1>8. CASE RemoveFile
  BY <1>8 DEF LoadKept, RemoveFile
<1>9. CASE UNCHANGED fileVars
  BY <1>9 DEF LoadKept, fileVars
<1> QED BY <1>1, <1>2, <1>3, <1>4, <1>5, <1>6, <1>7, <1>8, <1>9 DEF FileNext, LoadStep

(* A file that grows, shrinks or is replaced after the question for its    *)
(* size is returned uncut or refused: what a load returns is within the    *)
(* cap, ends where the file ended at the last read, has every byte from a  *)
(* moment the file had it there, and is the file itself if nobody wrote    *)
(* into it while it was open; and no file is refused as too large that     *)
(* never was.                                                              *)
THEOREM LoadsAreUncut == FileSpec => FilesComeUncut
<1> DEFINE Uncut ==
      (load.at # "done" /\ load'.at = "done") =>
        /\ load'.is = "Ok" => ComesUncut(load.versions, load'.bytes)
        /\ load'.is = "TooLarge" =>
             \E v \in ToSet(load.versions) \cup {files[p] : p \in DOMAIN files \cap {load.path}} :
               Len(v) > MAX_FILE_BYTES
<1>1. FileInit => LoadKept
  <2>1. NoLoad.at = "none" /\ DOMAIN NoLoad = {"at", "path", "is", "bytes", "versions"}
    BY DEF NoLoad
  <2> QED BY <2>1 DEF FileInit, LoadKept
<1>2. ASSUME LoadKept, FileNext PROVE Uncut
  <2>1. CASE ReadEnd
    <3> USE DEF read_end, read_result, Loaded, LoadError, NoLoad
    <3>1. /\ ReadFrom(load.versions, load.bytes)
          /\ Len(load.bytes) >= Min({Len(Last(load.versions)), take_limit})
      BY <1>2, <2>1 DEF LoadKept, ReadEnd
    <3>2. CASE too_large(Len(load.bytes))
      BY <2>1, <3>1, <3>2, TooLargeWas DEF ReadEnd
    <3>3. CASE ~ too_large(Len(load.bytes))
      BY <2>1, <3>1, <3>3, EndIsUncut DEF ReadEnd
    <3> QED BY <3>2, <3>3
  <2>2. CASE StatFile
    <3>1. /\ load'.at = "done" => load'.is \in {"Io", "TooLarge"}
          /\ (load'.at = "done" /\ load'.is = "TooLarge") =>
                load.path \in DOMAIN files /\ too_large(Len(files[load.path]))
      BY <1>2, <2>2 DEF StatFile, LoadError, NoLoad, LoadKept
    <3> QED BY <3>1 DEF too_large
  <2>3. CASE OpenFile
    BY <1>2, <2>3 DEF OpenFile, LoadError, NoLoad, LoadKept
  <2>4. CASE ReadSome
    BY <1>2, <2>4 DEF ReadSome, LoadKept
  <2>5. CASE StartLoad
    BY <2>5 DEF StartLoad, load_file, Loading, LoadError, NoLoad
  <2>6. CASE TakeLoad
    <3>1. NoLoad.at = "none"
      BY DEF NoLoad
    <3> QED BY <2>6, <3>1 DEF TakeLoad
  <2>7. CASE Rewrite \/ RemoveFile
    BY <1>2, <2>7 DEF Rewrite, RemoveFile, seen, LoadKept
  <2> QED BY <1>2, <2>1, <2>2, <2>3, <2>4, <2>5, <2>6, <2>7 DEF FileNext, LoadStep
<1>3. LoadKept /\ [FileNext]_fileVars => [Uncut]_fileVars
  BY <1>2
<1>4. LoadKept /\ [FileNext]_fileVars => LoadKept'
  BY LoadStepKept
<1> QED BY <1>1, <1>3, <1>4, PTL DEF FileSpec, FilesComeUncut
-----------------------------------------------------------------------------
(***************************************************************************)
(* The k-th of a set of positions.                                         *)
(***************************************************************************)
\* A nonempty set of numbers has a least one.
LEMMA LeastNatural ==
  ASSUME NEW S \in SUBSET Nat, S # {}
  PROVE  \E i \in S : \A j \in S : i <= j
<1>1. \A i, j \in Nat : <<j, i>> \in OpToRel(<, Nat) <=> j < i
  BY DEF OpToRel
<1>2. PICK R : IsWellFoundedOn(R, Nat) /\ \A i, j \in Nat : <<j, i>> \in R <=> j < i
  BY <1>1, NatLessThanWellFounded, Zenon
<1>3. PICK i \in S : \A j \in S : ~ (<<j, i>> \in R)
  BY <1>2, WFMin
<1>4. \A j \in S : ~ (j < i)
  BY <1>2, <1>3, Zenon
<1> QED BY <1>4

\* How many members of a set of positions come before one.
Rank(S, i) == Cardinality({j \in S : j < i})

\* A rank is a number.
LEMMA RankOf ==
  ASSUME NEW n \in Nat, NEW S, \A i \in S : i \in 1 .. n, NEW m
  PROVE  IsFiniteSet({j \in S : j < m}) /\ Rank(S, m) \in Nat
<1>1. IsFiniteSet(1 .. n) /\ {j \in S : j < m} \in SUBSET (1 .. n)
  BY FS_Interval
<1>2. IsFiniteSet({j \in S : j < m})
  BY <1>1, FS_Subset
<1> QED BY <1>2, FS_CardinalityType DEF Rank

\* The rank grows by one at a member
LEMMA RankNext ==
  ASSUME NEW n \in Nat, NEW S, \A i \in S : i \in 1 .. n, NEW i \in S
  PROVE  Rank(S, i + 1) = Rank(S, i) + 1
<1>1. {j \in S : j < i + 1} = {j \in S : j < i} \cup {i} /\ i \notin {j \in S : j < i}
  OBVIOUS
<1>2. IsFiniteSet({j \in S : j < i})
  BY RankOf
<1> QED BY <1>1, <1>2, FS_AddElement DEF Rank

\* and never falls.
LEMMA RankGrows ==
  ASSUME NEW n \in Nat, NEW S, \A i \in S : i \in 1 .. n,
         NEW i \in Int, NEW j \in Int, i <= j
  PROVE  Rank(S, i) <= Rank(S, j)
<1>1. {k \in S : k < i} \in SUBSET {k \in S : k < j}
  OBVIOUS
<1> QED BY <1>1, RankOf, FS_Subset DEF Rank

\* It is none before all positions, and the size of the set after them.
LEMMA RankEnds ==
  ASSUME NEW n \in Nat, NEW S, \A i \in S : i \in 1 .. n
  PROVE  /\ Rank(S, 0) = 0 /\ Rank(S, n + 1) = Cardinality(S)
         /\ IsFiniteSet(S) /\ Cardinality(S) \in Nat
<1>1. {j \in S : j < 0} = {} /\ {j \in S : j < n + 1} = S
  OBVIOUS
<1>2. Rank(S, 0) = 0
  BY <1>1, FS_EmptySet DEF Rank
<1>3. Rank(S, n + 1) = Cardinality(S) /\ IsFiniteSet(S) /\ Cardinality(S) \in Nat
  BY <1>1, RankOf DEF Rank
<1> QED BY <1>2, <1>3

(* A set of positions has a k-th member for every k up to its size.        *)
LEMMA NthIsMember ==
  ASSUME NEW n \in Nat, NEW S, \A i \in S : i \in 1 .. n, NEW k \in 1 .. Cardinality(S)
  PROVE  nth(S, k) \in S /\ Rank(S, nth(S, k)) = k - 1
<1> DEFINE Enough == {m \in Nat : Rank(S, m) >= k}
<1>1. n + 1 \in Enough
  BY RankEnds
<1>2. PICK m \in Enough : \A i \in Enough : m <= i
  BY <1>1, LeastNatural
<1>3. m # 0
  BY <1>2, RankEnds
<1>4. m - 1 \in Nat /\ ~ (Rank(S, m - 1) >= k)
  BY <1>2, <1>3
<1>5. m - 1 \in S
  <2> SUFFICES ASSUME m - 1 \notin S PROVE FALSE
    OBVIOUS
  <2>1. {j \in S : j < m} = {j \in S : j < m - 1}
    BY <1>4
  <2> QED BY <1>2, <1>4, <2>1 DEF Rank
<1>6. Rank(S, m - 1) = k - 1
  <2>1. ASSUME NEW i, i = m - 1 PROVE Rank(S, m) = Rank(S, i) + 1
    <3>1. i \in S /\ i + 1 = m
      BY <1>4, <1>5, <2>1
    <3> QED BY <3>1, RankNext
  <2>2. Rank(S, m - 1) \in Nat
    BY RankOf
  <2> QED BY <1>2, <1>4, <2>1, <2>2
<1>7. \E i \in S : Cardinality({j \in S : j < i}) = k - 1
  BY <1>5, <1>6 DEF Rank
<1> QED BY <1>7 DEF nth, Rank

\* And every member is the k-th for a k of its own.
LEMMA MemberIsNth ==
  ASSUME NEW n \in Nat, NEW S, \A i \in S : i \in 1 .. n, NEW m \in S, NEW k, k = Rank(S, m) + 1
  PROVE  k \in 1 .. Cardinality(S) /\ nth(S, k) = m
<1>1. \A a, b : a \in Int /\ b \in Int /\ a <= b => Rank(S, a) <= Rank(S, b)
  BY RankGrows
<1>2. \A a \in S : a \in Int /\ a <= n /\ Rank(S, a) \in Nat /\ Rank(S, a + 1) = Rank(S, a) + 1
  <2> TAKE a \in S
  <2>1. Rank(S, a) \in Nat
    BY RankOf
  <2>2. Rank(S, a + 1) = Rank(S, a) + 1
    BY RankNext
  <2> QED BY <2>1, <2>2
<1>3. Rank(S, m + 1) <= Rank(S, n + 1)
  <2>1. m + 1 \in Int /\ n + 1 \in Int /\ m + 1 <= n + 1
    BY <1>2
  <2> QED BY <1>1, <2>1
<1>4. k \in 1 .. Cardinality(S)
  BY <1>2, <1>3, RankEnds
<1>5. nth(S, k) \in S /\ Rank(S, nth(S, k)) = k - 1
  BY <1>4, NthIsMember
<1>6. ASSUME NEW a \in S, NEW b \in S, a < b PROVE Rank(S, a) < Rank(S, b)
  <2>1. a + 1 \in Int /\ b \in Int /\ a + 1 <= b
    BY <1>2, <1>6
  <2>2. Rank(S, a + 1) <= Rank(S, b)
    BY <1>1, <2>1
  <2> QED BY <1>2, <2>2
<1>7. ~ (nth(S, k) < m) /\ ~ (m < nth(S, k)) /\ Rank(S, m) \in Nat
  BY <1>2, <1>5, <1>6
<1> QED BY <1>2, <1>4, <1>5, <1>7
-----------------------------------------------------------------------------
(* Every inline child is in a run: one starts at it or before it, where    *)
(* the children begin or a block-level one has just been.                  *)
LEMMA RunHasAStart ==
  ASSUME NEW Blocks, NEW i \in Nat \ {0}, i \notin Blocks
  PROVE  \E s \in 1 .. i : /\ s = 1 \/ s - 1 \in Blocks
                           /\ \A k \in s .. i : k \notin Blocks
<1> DEFINE Starts == {s \in 1 .. i : \A k \in s .. i : k \notin Blocks}
<1>1. i \in Starts
  OBVIOUS
<1>2. PICK s \in Starts : \A r \in Starts : s <= r
  <2>1. Starts \in SUBSET Nat
    OBVIOUS
  <2> QED BY <1>1, <2>1, LeastNatural
<1>3. ASSUME s # 1, s - 1 \notin Blocks PROVE FALSE
  <2>1. s - 1 \in 1 .. i
    BY <1>2, <1>3
  <2>2. \A k \in s - 1 .. i : k = s - 1 \/ k \in s .. i
    BY <1>2
  <2>3. s - 1 \in Starts
    BY <1>2, <1>3, <2>1, <2>2
  <2> QED BY <1>2, <2>1, <2>3
<1> QED BY <1>2, <1>3

(* It reaches to the last child or to just before a block-level one.       *)
LEMMA RunHasAnEnd ==
  ASSUME NEW bs, NEW S, NEW built \in Seq(S), NEW i \in 1 .. Len(built),
         ~ block_child(bs, built[i])
  PROVE  \E e \in i .. Len(built) :
           /\ run_from(bs, built, i) = SubSeq(built, i, e)
           /\ \A k \in i .. e : ~ block_child(bs, built[k])
           /\ e = Len(built) \/ block_child(bs, built[e + 1])
<1> DEFINE n == Len(built)
           Stops == {j \in i + 1 .. n + 1 : j = n + 1 \/ block_child(bs, built[j])}
           ends == {j \in i .. n : \A k \in i .. j : ~ block_child(bs, built[k])}
<1>1. n \in Nat /\ n + 1 \in Stops
  BY LenProperties
<1>2. PICK j \in Stops : \A r \in Stops : j <= r
  <2>1. Stops \in SUBSET Nat
    BY <1>1
  <2> QED BY <1>1, <2>1, LeastNatural
<1>3. j - 1 \in i .. n
  BY <1>1, <1>2
<1>4. \A k \in i .. j - 1 : ~ block_child(bs, built[k])
  <2> TAKE k \in i .. j - 1
  <2>1. k \notin Stops
    BY <1>2, <1>3
  <2>2. k = i \/ k \in i + 1 .. n + 1
    BY <1>1, <1>3
  <2> QED BY <1>1, <1>2, <1>3, <2>1, <2>2
<1>5. j - 1 = n \/ block_child(bs, built[j - 1 + 1])
  BY <1>1, <1>2
<1>6. j - 1 \in ends
  BY <1>3, <1>4
<1>7. \A k \in ends : k <= j - 1
  <2> SUFFICES ASSUME NEW k \in ends, k > j - 1 PROVE FALSE
    BY <1>1, <1>3
  <2>1. j \in i .. k /\ j # n + 1
    BY <1>1, <1>2, <1>3
  <2>2. block_child(bs, built[j])
    BY <1>2, <2>1
  <2> QED BY <2>1, <2>2
<1>8. ASSUME NEW e, e = CHOOSE x \in ends : \A k \in ends : k <= x PROVE e = j - 1
  <2>1. e \in ends /\ \A k \in ends : k <= e
    BY <1>6, <1>7, <1>8
  <2>2. e <= j - 1 /\ j - 1 <= e
    BY <1>6, <1>7, <2>1
  <2> QED BY <1>3, <2>1, <2>2
<1>9. run_from(bs, built, i) = SubSeq(built, i, j - 1)
  BY <1>8 DEF run_from
<1> QED BY <1>3, <1>4, <1>5, <1>9

\* The run that starts at i holds the inline children up to e, where it ends.
RunSpans(bs, built, i, e) ==
  /\ \A p \in i .. e : /\ p - i + 1 \in DOMAIN run_from(bs, built, i)
                       /\ run_from(bs, built, i)[p - i + 1] = built[p]
  /\ ToSet(run_from(bs, built, i)) = {built[p] : p \in i .. e}
  /\ \A p \in i .. e : ~ block_child(bs, built[p])
  /\ e = Len(built) \/ block_child(bs, built[e + 1])

\* A run is a sequence of the children it spans.
LEMMA RunHolds ==
  ASSUME NEW bs, NEW S, NEW built \in Seq(S), NEW i \in 1 .. Len(built),
         ~ block_child(bs, built[i])
  PROVE  \E e \in i .. Len(built) : run_from(bs, built, i) \in Seq(S) /\ RunSpans(bs, built, i, e)
<1>1. PICK e \in i .. Len(built) :
        /\ run_from(bs, built, i) = SubSeq(built, i, e)
        /\ \A k \in i .. e : ~ block_child(bs, built[k])
        /\ e = Len(built) \/ block_child(bs, built[e + 1])
  BY RunHasAnEnd
<1> DEFINE run == SubSeq(built, i, e)
<1>2. Len(built) \in Nat /\ \A p \in i .. e : built[p] \in S
  BY LenProperties, ElementOfSeq
<1>3. /\ run \in Seq(S) /\ Len(run) = e - i + 1
      /\ \A j \in 1 .. e - i + 1 : run[j] = built[i + j - 1]
  BY <1>2, SubSeqProperties
<1>4. DOMAIN run = 1 .. e - i + 1
  BY <1>3, LenProperties
<1> HIDE DEF run
<1>5. \A p \in i .. e : p - i + 1 \in DOMAIN run /\ run[p - i + 1] = built[p]
  <2> TAKE p \in i .. e
  <2>1. p - i + 1 \in 1 .. e - i + 1 /\ i + (p - i + 1) - 1 = p
    BY <1>2
  <2> QED BY <1>3, <1>4, <2>1
<1>6. ToSet(run) = {built[p] : p \in i .. e}
  <2>1. ASSUME NEW x \in ToSet(run) PROVE x \in {built[p] : p \in i .. e}
    <3>1. PICK j \in 1 .. e - i + 1 : x = run[j]
      BY <1>4, <2>1 DEF ToSet
    <3>2. i + j - 1 \in i .. e
      BY <1>2
    <3> QED BY <1>3, <3>1, <3>2
  <2>2. ASSUME NEW p \in i .. e PROVE built[p] \in ToSet(run)
    BY <1>5, <2>2 DEF ToSet
  <2> QED BY <2>1, <2>2
<1> QED BY <1>1, <1>3, <1>5, <1>6 DEF run, RunSpans

\* Runs that start at different places have no position in common.
LEMMA RunsAreApart ==
  ASSUME NEW Blocks, NEW i \in Nat, NEW j \in Nat, i < j, i > 0, NEW e \in Nat,
         \A p \in i .. e : p \notin Blocks,
         j = 1 \/ j - 1 \in Blocks
  PROVE  e < j
<1>1. j - 1 \in Blocks /\ i <= j - 1
  OBVIOUS
<1>2. j - 1 \notin i .. e
  BY <1>1
<1> QED BY <1>1, <1>2
-----------------------------------------------------------------------------
\* A text that generates no box between blocks.
BlankBox(d, x) ==
  /\ x.kind = "InlineText" /\ x.style.text.white_space = "Normal"
  /\ \A c \in ToSet(d.text[x.node]) : is_collapsible(c)
Kids(x) == ToSet(x.children)

\* A sequence of whatever it holds.
IsSeq(s) == s \in Seq(ToSet(s))

\* Any sequence is one of what it holds.
LEMMA OwnSeq ==
  ASSUME NEW S, NEW s \in Seq(S)
  PROVE  IsSeq(s)
<1>1. Len(s) \in Nat /\ DOMAIN s = 1 .. Len(s) /\ s \in [1 .. Len(s) -> S]
  BY LenProperties
<1>2. s \in [1 .. Len(s) -> ToSet(s)]
  BY <1>1 DEF ToSet
<1> QED BY <1>1, <1>2 DEF IsSeq

(* What wrap_inline_runs answers of the children of one box: the boxes     *)
(* there were and the wrappers, which share out inline children among      *)
(* themselves; and the children left, which are the others and all         *)
(* wrappers.  A child that is in neither is blank.                         *)
WrapSound(d, bs, built, W) ==
  LET n == Len(bs)
      Wrappers == n + 1 .. Len(W.boxes)
  IN  /\ IsSeq(W.boxes) /\ Len(W.boxes) >= n
      /\ \A b \in 1 .. n : W.boxes[b] = bs[b]
      /\ \A b \in Wrappers :
           /\ W.boxes[b].kind = "AnonymousBlock" /\ W.boxes[b].style.display = "Block"
           /\ W.boxes[b].children \in Seq(1 .. n)
           /\ \A c \in Kids(W.boxes[b]) : c \in ToSet(built) /\ ~ block_child(bs, c)
           /\ \A c \in Wrappers : b # c => Kids(W.boxes[b]) \cap Kids(W.boxes[c]) = {}
           /\ Kids(W.boxes[b]) \cap ToSet(W.children) = {}
           /\ b \in ToSet(W.children)
      /\ W.children \in Seq(1 .. Len(W.boxes))
      /\ ToSet(W.children) \subseteq ToSet(built) \cup Wrappers
      /\ \A c \in ToSet(built) : \/ c \in ToSet(W.children)
                                 \/ \E b \in Wrappers : c \in Kids(W.boxes[b])
                                 \/ BlankBox(d, bs[c])
      /\ \/ /\ \A c \in ToSet(W.children) : block_child(W.boxes, c)
            /\ Len(W.boxes) = n \/ \E c \in ToSet(built) : block_child(bs, c)
         \/ W.children = built /\ \A c \in ToSet(built) : ~ block_child(W.boxes, c)

\* Children of one level are left as they are.
LEMMA WrapNothing ==
  ASSUME NEW d, NEW bs, IsSeq(bs), NEW built \in Seq(1 .. Len(bs)), NEW W,
         W = [boxes |-> bs, children |-> built],
         \/ \A i \in DOMAIN built : block_child(bs, built[i])
         \/ \A i \in DOMAIN built : ~ block_child(bs, built[i])
  PROVE  WrapSound(d, bs, built, W)
<1>1. Len(bs) \in Nat
  BY LenProperties DEF IsSeq
<1>2. \A b \in Len(bs) + 1 .. Len(bs) : FALSE
  BY <1>1
<1> QED BY <1>1, <1>2 DEF WrapSound, ToSet

\* The positions of built where a wrapper's run starts.
StartsIn(bs, built, Wrapped) ==
  \A i \in Wrapped : /\ i \in DOMAIN built /\ ~ block_child(bs, built[i])
                     /\ i = 1 \/ block_child(bs, built[i - 1])

Wrapper(bs, built, style, i) ==
  Box(NoNode, "AnonymousBlock", anonymous_block(style), run_from(bs, built, i))

\* A wrapper is an anonymous block with the run in it.
LEMMA WrapperIsABox ==
  ASSUME NEW bs, NEW built, NEW style, NEW i
  PROVE  /\ Wrapper(bs, built, style, i).kind = "AnonymousBlock"
         /\ Wrapper(bs, built, style, i).style.display = "Block"
         /\ Wrapper(bs, built, style, i).children = run_from(bs, built, i)
BY DEF Wrapper, Box, anonymous_block, initial

\* What is at each position of two sequences put together.
LEMMA Joined ==
  ASSUME NEW S, NEW a \in Seq(S), NEW b \in Seq(S), NEW c, c = a \o b
  PROVE  /\ c \in Seq(S) /\ Len(c) = Len(a) + Len(b)
         /\ \A i \in 1 .. Len(a) : c[i] = a[i]
         /\ \A k \in 1 .. Len(b) : c[Len(a) + k] = b[k]
<1>1. Len(a) \in Nat /\ Len(b) \in Nat
  BY LenProperties
<1>2. /\ c \in Seq(S) /\ Len(c) = Len(a) + Len(b)
      /\ \A i \in 1 .. Len(a) + Len(b) : c[i] = IF i <= Len(a) THEN a[i] ELSE b[i - Len(a)]
  BY ConcatProperties
<1>3. \A i \in 1 .. Len(a) : c[i] = a[i]
  BY <1>1, <1>2
<1>4. ASSUME NEW k \in 1 .. Len(b) PROVE c[Len(a) + k] = b[k]
  <2>1. Len(a) + k \in 1 .. Len(a) + Len(b) /\ ~ (Len(a) + k <= Len(a)) /\ Len(a) + k - Len(a) = k
    BY <1>1
  <2> QED BY <1>2, <2>1
<1> QED BY <1>2, <1>3, <1>4

\* The boxes, and a wrapper for each of Wrapped.
Wrappings(bs, built, style, Wrapped) ==
  bs \o [k \in 1 .. Cardinality(Wrapped) |-> Wrapper(bs, built, style, nth(Wrapped, k))]

(* The boxes of the mixed case: a wrapper for each of Wrapped, which holds *)
(* the run that starts there.                                              *)
LEMMA WrappersAre ==
  ASSUME NEW bs, IsSeq(bs), NEW built \in Seq(1 .. Len(bs)), NEW style,
         NEW Wrapped, StartsIn(bs, built, Wrapped),
         NEW all, all = Wrappings(bs, built, style, Wrapped)
  PROVE  /\ IsSeq(all) /\ Len(all) = Len(bs) + Cardinality(Wrapped)
         /\ Len(bs) \in Nat /\ Cardinality(Wrapped) \in Nat
         /\ \A b \in 1 .. Len(bs) : all[b] = bs[b]
         /\ \A k \in 1 .. Cardinality(Wrapped) :
              all[Len(bs) + k] = Wrapper(bs, built, style, nth(Wrapped, k))
<1> DEFINE m   == Cardinality(Wrapped)
           new == [k \in 1 .. m |-> Wrapper(bs, built, style, nth(Wrapped, k))]
           S   == ToSet(bs) \cup ToSet(new)
<1>1. Len(bs) \in Nat /\ Len(built) \in Nat /\ DOMAIN built = 1 .. Len(built)
  BY LenProperties DEF IsSeq
<1>2. m \in Nat
  <2>1. \A i \in Wrapped : i \in 1 .. Len(built)
    BY <1>1 DEF StartsIn
  <2> QED BY <1>1, <2>1, RankEnds
<1>3. new \in Seq(S) /\ Len(new) = m
  <2>1. \A k \in 1 .. m : new[k] \in S
    BY DEF ToSet
  <2> HIDE DEF S
  <2>2. new \in [1 .. m -> S]
    BY <2>1
  <2> HIDE DEF new, m
  <2> QED BY <1>2, <2>2
<1>4. bs \in Seq(S)
  <2>1. ToSet(bs) \subseteq S
    OBVIOUS
  <2> HIDE DEF S
  <2> QED BY <2>1, SeqMonotonic DEF IsSeq
<1> HIDE DEF S
<1>5. /\ all \in Seq(S) /\ Len(all) = Len(bs) + Len(new)
      /\ \A i \in 1 .. Len(bs) : all[i] = bs[i]
      /\ \A k \in 1 .. Len(new) : all[Len(bs) + k] = new[k]
  <2>1. all = bs \o new
    BY DEF Wrappings
  <2>2. ASSUME NEW b \in Seq(S), all = bs \o b
        PROVE  /\ all \in Seq(S) /\ Len(all) = Len(bs) + Len(b)
               /\ \A i \in 1 .. Len(bs) : all[i] = bs[i]
               /\ \A k \in 1 .. Len(b) : all[Len(bs) + k] = b[k]
    BY <1>4, <2>2, Joined
  <2> HIDE DEF new, m
  <2> QED BY <1>3, <2>1, <2>2
<1>6. \A k \in 1 .. m : all[Len(bs) + k] = new[k]
  <2> HIDE DEF new, m
  <2> QED BY <1>3, <1>5
<1> QED BY <1>1, <1>2, <1>3, <1>5, <1>6, OwnSeq

\* The block-level children and, at the places of Wrapped, the wrappers.
Left(n, built, Blocks, Wrapped) ==
  [k \in 1 .. Cardinality(Blocks \cup Wrapped) |->
     LET i == nth(Blocks \cup Wrapped, k)
     IN  IF i \in Blocks THEN built[i] ELSE n + Cardinality({j \in Wrapped : j < i}) + 1]

LeftAre(left, n, built, Blocks, Wrapped) ==
  ToSet(left) = {built[i] : i \in Blocks} \cup (n + 1 .. n + Cardinality(Wrapped))

\* The children left: the block-level ones and the wrappers, at places of their own.
LEMMA ChildrenLeft ==
  ASSUME NEW n \in Nat, NEW S, NEW built \in Seq(S), NEW Blocks, NEW Wrapped,
         \A i \in Blocks \cup Wrapped : i \in 1 .. Len(built), Blocks \cap Wrapped = {},
         NEW left, left = Left(n, built, Blocks, Wrapped)
  PROVE  /\ left \in Seq(S \cup (n + 1 .. n + Cardinality(Wrapped)))
         /\ LeftAre(left, n, built, Blocks, Wrapped)
<1> DEFINE Kept == Blocks \cup Wrapped
           new_id(i) == n + Cardinality({j \in Wrapped : j < i}) + 1
           entry(i) == IF i \in Blocks THEN built[i] ELSE new_id(i)
           T == S \cup (n + 1 .. n + Cardinality(Wrapped))
<1>1. Len(built) \in Nat /\ Cardinality(Kept) \in Nat /\ Cardinality(Wrapped) \in Nat
  <2>1. Len(built) \in Nat
    BY LenProperties
  <2>2. Cardinality(Kept) \in Nat
    BY <2>1, RankEnds
  <2>3. \A i \in Wrapped : i \in 1 .. Len(built)
    OBVIOUS
  <2>4. Cardinality(Wrapped) \in Nat
    BY <2>1, <2>3, RankEnds
  <2> QED BY <2>1, <2>2, <2>4
<1>2. \A i \in Wrapped : /\ new_id(i) \in Int
                         /\ new_id(i) - n \in 1 .. Cardinality(Wrapped)
                         /\ nth(Wrapped, new_id(i) - n) = i
  <2> TAKE i \in Wrapped
  <2>1. \A j \in Wrapped : j \in 1 .. Len(built)
    OBVIOUS
  <2>2. Rank(Wrapped, i) \in Nat
    BY <1>1, <2>1, RankOf
  <2>3. new_id(i) - n = Rank(Wrapped, i) + 1 /\ new_id(i) \in Int
    BY <2>2 DEF Rank
  <2> HIDE DEF new_id
  <2> QED BY <1>1, <2>1, <2>3, MemberIsNth
<1>3. \A k \in 1 .. Cardinality(Kept) : nth(Kept, k) \in Kept
  BY <1>1, NthIsMember
<1>4. \A i \in Kept : \E k \in 1 .. Cardinality(Kept) : nth(Kept, k) = i
  <2> TAKE i \in Kept
  <2>1. ASSUME NEW k, k = Rank(Kept, i) + 1 PROVE k \in 1 .. Cardinality(Kept) /\ nth(Kept, k) = i
    BY <1>1, <2>1, MemberIsNth
  <2> QED BY <2>1
<1>5. \A i \in Kept : entry(i) \in T
  <2> TAKE i \in Kept
  <2>1. CASE i \in Blocks
    BY <2>1, ElementOfSeq
  <2>2. CASE i \notin Blocks
    <3>1. i \in Wrapped /\ entry(i) = new_id(i)
      BY <2>2
    <3>2. new_id(i) - n \in 1 .. Cardinality(Wrapped) /\ new_id(i) \in Int
      BY <1>2, <3>1
    <3> HIDE DEF new_id
    <3>3. new_id(i) \in n + 1 .. n + Cardinality(Wrapped)
      BY <1>1, <3>2
    <3> QED BY <3>1, <3>3
  <2> QED BY <2>1, <2>2
<1>6. left = [k \in 1 .. Cardinality(Kept) |-> entry(nth(Kept, k))]
  BY DEF Left
<1>7. left \in Seq(T) /\ DOMAIN left = 1 .. Cardinality(Kept)
  <2> HIDE DEF T, entry, Kept
  <2>1. \A k \in 1 .. Cardinality(Kept) : entry(nth(Kept, k)) \in T
    BY <1>3, <1>5
  <2>2. left \in [1 .. Cardinality(Kept) -> T]
    BY <1>6, <2>1
  <2>3. ASSUME NEW c, c = Cardinality(Kept), NEW f \in [1 .. c -> T]
        PROVE  f \in Seq(T) /\ DOMAIN f = 1 .. Cardinality(Kept)
    BY <1>1, <2>3
  <2> QED BY <2>2, <2>3
<1>8. ToSet(left) = {entry(i) : i \in Kept}
  <2> HIDE DEF entry, Kept
  <2>1. ASSUME NEW x \in ToSet(left) PROVE x \in {entry(i) : i \in Kept}
    <3>1. PICK k \in 1 .. Cardinality(Kept) : x = left[k]
      BY <1>7, <2>1 DEF ToSet
    <3> QED BY <1>3, <1>6, <3>1
  <2>2. ASSUME NEW i \in Kept PROVE entry(i) \in ToSet(left)
    <3>1. PICK k \in 1 .. Cardinality(Kept) : nth(Kept, k) = i
      BY <1>4, <2>2
    <3>2. left[k] = entry(i)
      BY <1>6, <3>1
    <3> QED BY <1>7, <3>1, <3>2 DEF ToSet
  <2> QED BY <2>1, <2>2
<1>9. {entry(i) : i \in Kept} = {built[i] : i \in Blocks} \cup {new_id(i) : i \in Wrapped}
  OBVIOUS
<1>10. {new_id(i) : i \in Wrapped} = n + 1 .. n + Cardinality(Wrapped)
  <2>1. \A i \in Wrapped : new_id(i) \in n + 1 .. n + Cardinality(Wrapped)
    <3> TAKE i \in Wrapped
    <3>1. new_id(i) - n \in 1 .. Cardinality(Wrapped) /\ new_id(i) \in Int
      BY <1>2
    <3> HIDE DEF new_id
    <3> QED BY <1>1, <3>1
  <2>2. ASSUME NEW x \in n + 1 .. n + Cardinality(Wrapped) PROVE \E i \in Wrapped : new_id(i) = x
    <3>1. x - n \in 1 .. Cardinality(Wrapped)
      BY <1>1
    <3>2. /\ nth(Wrapped, x - n) \in Wrapped
          /\ Rank(Wrapped, nth(Wrapped, x - n)) = x - n - 1
      <4>1. \A j \in Wrapped : j \in 1 .. Len(built)
        OBVIOUS
      <4> QED BY <1>1, <3>1, <4>1, NthIsMember
    <3>3. new_id(nth(Wrapped, x - n)) = x
      BY <1>1, <3>2 DEF Rank
    <3> QED BY <3>2, <3>3
  <2> HIDE DEF new_id
  <2> QED BY <2>1, <2>2
<1> QED BY <1>7, <1>8, <1>9, <1>10 DEF LeftAre

\* Wrappers are blocks, and share out inline children.
WrapsRuns(bs, built, all) ==
  \A b \in Len(bs) + 1 .. Len(all) :
    /\ all[b].kind = "AnonymousBlock" /\ all[b].style.display = "Block"
    /\ all[b].children \in Seq(1 .. Len(bs))
    /\ \A c \in Kids(all[b]) : c \in ToSet(built) /\ ~ block_child(bs, c)
    /\ \A c \in Len(bs) + 1 .. Len(all) : b # c => Kids(all[b]) \cap Kids(all[c]) = {}

\* The wrappers hold inline children, and no two of them the same one.
LEMMA WrappersHold ==
  ASSUME NEW bs, IsSeq(bs), NEW built \in Seq(1 .. Len(bs)), IsInjective(built), NEW style,
         NEW Wrapped, StartsIn(bs, built, Wrapped),
         NEW all, all = Wrappings(bs, built, style, Wrapped)
  PROVE  WrapsRuns(bs, built, all)
<1> DEFINE n == Len(bs)
           m == Cardinality(Wrapped)
<1>1. /\ Len(all) = n + m /\ n \in Nat /\ m \in Nat
      /\ \A k \in 1 .. m : all[n + k] = Wrapper(bs, built, style, nth(Wrapped, k))
  BY WrappersAre
<1>2. Len(built) \in Nat /\ DOMAIN built = 1 .. Len(built)
  BY LenProperties
<1>3. \A i \in Wrapped : /\ i \in 1 .. Len(built) /\ ~ block_child(bs, built[i])
                         /\ i = 1 \/ block_child(bs, built[i - 1])
  BY <1>2 DEF StartsIn
<1>4. \A k \in 1 .. m : nth(Wrapped, k) \in Wrapped /\ Rank(Wrapped, nth(Wrapped, k)) = k - 1
  BY <1>2, <1>3, NthIsMember
<1> DEFINE Full(x, i, e) ==
             /\ x.children \in Seq(1 .. n) /\ Kids(x) = {built[p] : p \in i .. e}
             /\ \A p \in i .. e : ~ block_child(bs, built[p])
<1>5. ASSUME NEW k \in 1 .. m
      PROVE  \E i \in Wrapped : \E e \in i .. Len(built) :
               i = nth(Wrapped, k) /\ Full(all[n + k], i, e)
  <2>1. PICK i \in Wrapped : i = nth(Wrapped, k) /\ all[n + k].children = run_from(bs, built, i)
    BY <1>1, <1>4, WrapperIsABox
  <2>2. PICK e \in i .. Len(built) :
          run_from(bs, built, i) \in Seq(1 .. n) /\ RunSpans(bs, built, i, e)
    BY <1>3, RunHolds
  <2>3. Full(all[n + k], i, e)
    BY <2>1, <2>2 DEF Kids, RunSpans
  <2> QED BY <2>1, <2>3
<1>6. \A b \in n + 1 .. Len(all) : \E k \in 1 .. m : b = n + k
  <2> TAKE b \in n + 1 .. Len(all)
  <2>1. b - n \in 1 .. m /\ b = n + (b - n)
    BY <1>1
  <2> QED BY <2>1
<1>7. \A b \in n + 1 .. Len(all) : all[b].kind = "AnonymousBlock" /\ all[b].style.display = "Block"
  <2> TAKE b \in n + 1 .. Len(all)
  <2>1. PICK k \in 1 .. m : b = n + k
    BY <1>6
  <2>2. all[b] = Wrapper(bs, built, style, nth(Wrapped, k))
    BY <1>1, <2>1
  <2> QED BY <2>2, WrapperIsABox
<1>8. ASSUME NEW k \in 1 .. m, NEW l \in 1 .. m, nth(Wrapped, k) < nth(Wrapped, l)
      PROVE  Kids(all[n + k]) \cap Kids(all[n + l]) = {}
  <2>1. PICK i \in Wrapped : \E e \in i .. Len(built) : i = nth(Wrapped, k) /\ Full(all[n + k], i, e)
    BY <1>5
  <2>5. PICK e \in i .. Len(built) : i = nth(Wrapped, k) /\ Full(all[n + k], i, e)
    BY <2>1
  <2>2. PICK j \in Wrapped : \E f \in j .. Len(built) : j = nth(Wrapped, l) /\ Full(all[n + l], j, f)
    BY <1>5
  <2>6. PICK f \in j .. Len(built) : j = nth(Wrapped, l) /\ Full(all[n + l], j, f)
    BY <2>2
  <2>3. e < j
    <3>1. i \in Nat /\ j \in Nat /\ i < j /\ i > 0 /\ e \in Nat
      <4>1. i \in 1 .. Len(built) /\ j \in 1 .. Len(built) /\ e \in i .. Len(built)
        BY <1>3
      <4>2. i < j
        BY <1>8, <2>5, <2>6
      <4> QED BY ONLY <1>2, <4>1, <4>2, SMT
    <3> DEFINE Blocks == {p \in 1 .. Len(built) : block_child(bs, built[p])}
    <3>2. \A p \in i .. e : p \notin Blocks
      BY <2>5
    <3>3. j = 1 \/ j - 1 \in Blocks
      <4>1. j \in 1 .. Len(built) /\ (j = 1 \/ block_child(bs, built[j - 1]))
        BY <1>3
      <4>2. j # 1 => j - 1 \in 1 .. Len(built)
        BY ONLY <1>2, <4>1, SMT
      <4> QED BY <4>1, <4>2
    <3> HIDE DEF Blocks
    <3> QED BY <3>1, <3>2, <3>3, RunsAreApart
  <2>4. ASSUME NEW p \in i .. e, NEW q \in j .. f, built[p] = built[q] PROVE FALSE
    <3>1. p \in DOMAIN built /\ q \in DOMAIN built /\ p # q
      <4>1. /\ i \in 1 .. Len(built) /\ e \in i .. Len(built)
            /\ j \in 1 .. Len(built) /\ f \in j .. Len(built)
        BY <1>3
      <4> QED BY ONLY <1>2, <2>3, <2>4, <4>1, SMT
    <3> QED BY <2>4, <3>1 DEF IsInjective
  <2> QED BY <2>5, <2>6, <2>4
<1>9. ASSUME NEW b \in n + 1 .. Len(all), NEW c \in n + 1 .. Len(all), b # c
      PROVE  Kids(all[b]) \cap Kids(all[c]) = {}
  <2>1. PICK k \in 1 .. m : b = n + k
    BY <1>6
  <2>2. PICK l \in 1 .. m : c = n + l
    BY <1>6
  <2>3. nth(Wrapped, k) # nth(Wrapped, l)
    <3>1. k - 1 # l - 1
      BY <1>1, <1>9, <2>1, <2>2
    <3> QED BY <1>4, <3>1
  <2>4. nth(Wrapped, k) \in Int /\ nth(Wrapped, l) \in Int
    BY <1>3, <1>4
  <2>5. nth(Wrapped, k) < nth(Wrapped, l) \/ nth(Wrapped, l) < nth(Wrapped, k)
    BY <2>3, <2>4
  <2>6. CASE nth(Wrapped, k) < nth(Wrapped, l)
    BY <1>8, <2>1, <2>2, <2>6
  <2>7. CASE nth(Wrapped, l) < nth(Wrapped, k)
    <3>1. Kids(all[n + l]) \cap Kids(all[n + k]) = {}
      BY <1>8, <2>7
    <3> QED BY <2>1, <2>2, <3>1
  <2> QED BY <2>5, <2>6, <2>7
<1>10. ASSUME NEW b \in n + 1 .. Len(all)
       PROVE  /\ all[b].children \in Seq(1 .. n)
              /\ \A c \in Kids(all[b]) : c \in ToSet(built) /\ ~ block_child(bs, c)
  <2>1. PICK k \in 1 .. m : b = n + k
    BY <1>6
  <2>2. PICK i \in Wrapped : \E e \in i .. Len(built) : Full(all[n + k], i, e)
    BY <1>5
  <2>5. PICK e \in i .. Len(built) : Full(all[n + k], i, e)
    BY <2>2
  <2>3. \A p \in i .. e : p \in DOMAIN built
    BY <1>2, <1>3
  <2>4. \A p \in i .. e : built[p] \in ToSet(built)
    BY <2>3 DEF ToSet
  <2> QED BY <2>1, <2>5, <2>4
<1> QED BY <1>7, <1>9, <1>10 DEF WrapsRuns

\* Runs that get no wrapper are blank.
OthersAreBlank(d, bs, built, Wrapped) ==
  \A i \in DOMAIN built :
    /\ ~ block_child(bs, built[i]) /\ i \notin Wrapped
    /\ i = 1 \/ block_child(bs, built[i - 1])
    => run_is_collapsible_whitespace(d, bs, run_from(bs, built, i))

(* A child of built stays a child, or is in the run of a wrapper, or the   *)
(* run it is in was blank.                                                 *)
LEMMA EveryChildIsPlaced ==
  ASSUME NEW d, NEW bs, IsSeq(bs), NEW built \in Seq(1 .. Len(bs)), NEW style,
         NEW Wrapped, StartsIn(bs, built, Wrapped),
         OthersAreBlank(d, bs, built, Wrapped),
         NEW all, all = Wrappings(bs, built, style, Wrapped),
         NEW p \in DOMAIN built, ~ block_child(bs, built[p])
  PROVE  \/ \E b \in Len(bs) + 1 .. Len(all) : built[p] \in Kids(all[b])
         \/ BlankBox(d, bs[built[p]])
<1> DEFINE n == Len(bs)
           Blocks == {i \in DOMAIN built : block_child(bs, built[i])}
<1>1. Len(built) \in Nat /\ DOMAIN built = 1 .. Len(built)
  BY LenProperties
<1>2. PICK i \in 1 .. p : /\ i = 1 \/ i - 1 \in Blocks
                          /\ \A k \in i .. p : k \notin Blocks
  <2>1. p \in Nat \ {0} /\ p \notin Blocks
    BY <1>1
  <2> HIDE DEF Blocks
  <2> QED BY <2>1, RunHasAStart
<1>3. /\ i \in 1 .. Len(built) /\ ~ block_child(bs, built[i])
      /\ i = 1 \/ block_child(bs, built[i - 1])
  <2>1. i \in 1 .. Len(built) /\ i \in i .. p
    BY <1>1
  <2> QED BY <1>1, <1>2, <2>1
<1>4. PICK e \in i .. Len(built) : RunSpans(bs, built, i, e)
  BY <1>3, RunHolds
<1>5. p \in i .. e
  <2>1. p \in 1 .. Len(built) /\ i \in Nat /\ i <= p /\ e \in Nat /\ i <= e
    BY <1>1, <1>3
  <2>2. ASSUME e < p PROVE e + 1 \in i .. p /\ e # Len(built) /\ e + 1 \in DOMAIN built
    <3>1. e + 1 \in i .. p
      BY <2>1, <2>2
    <3>2. e # Len(built) /\ e + 1 \in 1 .. Len(built)
      BY <2>1, <2>2
    <3> QED BY <1>1, <3>1, <3>2
  <2>3. ASSUME e < p PROVE FALSE
    BY <1>2, <1>4, <2>2, <2>3 DEF RunSpans
  <2> QED BY <2>1, <2>3
<1>6. CASE i \in Wrapped
  <2>1. /\ Len(all) = n + Cardinality(Wrapped) /\ n \in Nat /\ Cardinality(Wrapped) \in Nat
        /\ \A k \in 1 .. Cardinality(Wrapped) :
             all[n + k] = Wrapper(bs, built, style, nth(Wrapped, k))
    BY WrappersAre
  <2>2. \A j \in Wrapped : j \in 1 .. Len(built)
    BY <1>1 DEF StartsIn
  <2>3. PICK k \in 1 .. Cardinality(Wrapped) : nth(Wrapped, k) = i
    BY <1>1, <1>6, <2>2, MemberIsNth
  <2>4. all[n + k].children = run_from(bs, built, i)
    BY <2>1, <2>3, WrapperIsABox
  <2>6. n + k \in n + 1 .. Len(all)
    BY <2>1, <2>3
  <2>5. built[p] \in Kids(all[n + k])
    BY <1>4, <1>5, <2>4 DEF Kids, RunSpans
  <2> QED BY <2>5, <2>6
<1>7. CASE i \notin Wrapped
  <2>1. run_is_collapsible_whitespace(d, bs, run_from(bs, built, i))
    BY <1>1, <1>3, <1>7 DEF OthersAreBlank
  <2>2. p - i + 1 \in DOMAIN run_from(bs, built, i) /\ run_from(bs, built, i)[p - i + 1] = built[p]
    BY <1>4, <1>5 DEF RunSpans
  <2> QED BY <2>1, <2>2 DEF run_is_collapsible_whitespace, BlankBox
<1> QED BY <1>6, <1>7

\* Where children of both levels meet.
LEMMA WrapMixed ==
  ASSUME NEW d, NEW bs, IsSeq(bs), NEW built \in Seq(1 .. Len(bs)), IsInjective(built), NEW style,
         NEW Wrapped, StartsIn(bs, built, Wrapped),
         OthersAreBlank(d, bs, built, Wrapped),
         NEW Blocks, Blocks = {i \in DOMAIN built : block_child(bs, built[i])}, Blocks # {},
         NEW W, W.boxes = Wrappings(bs, built, style, Wrapped),
         W.children = Left(Len(bs), built, Blocks, Wrapped)
  PROVE  WrapSound(d, bs, built, W)
<1> DEFINE n == Len(bs)
           all == W.boxes
           Wrappers == n + 1 .. Len(all)
<1>1. /\ IsSeq(all) /\ Len(all) = n + Cardinality(Wrapped)
      /\ n \in Nat /\ Cardinality(Wrapped) \in Nat
      /\ \A b \in 1 .. n : all[b] = bs[b]
  BY WrappersAre
<1>2. Len(built) \in Nat /\ DOMAIN built = 1 .. Len(built)
  BY LenProperties
<1>3. /\ W.children \in Seq((1 .. n) \cup Wrappers)
      /\ ToSet(W.children) = {built[i] : i \in Blocks} \cup Wrappers
  <2>1. \A i \in Blocks \cup Wrapped : i \in 1 .. Len(built)
    BY <1>2 DEF StartsIn
  <2>2. Blocks \cap Wrapped = {}
    BY DEF StartsIn
  <2>3. Wrappers = n + 1 .. n + Cardinality(Wrapped)
    BY <1>1
  <2>4. W.children \in Seq((1 .. n) \cup (n + 1 .. n + Cardinality(Wrapped)))
    BY <1>1, <2>1, <2>2, ChildrenLeft
  <2>5. ToSet(W.children) = {built[i] : i \in Blocks} \cup (n + 1 .. n + Cardinality(Wrapped))
    <3>1. LeftAre(W.children, n, built, Blocks, Wrapped)
      BY <1>1, <2>1, <2>2, ChildrenLeft
    <3> QED BY <3>1 DEF LeftAre
  <2> HIDE DEF Wrappers
  <2> QED BY <2>3, <2>4, <2>5
<1>4. (1 .. n) \cup Wrappers = 1 .. Len(all)
  BY <1>1
<1>5. \A b \in Wrappers :
        /\ all[b].kind = "AnonymousBlock" /\ all[b].style.display = "Block"
        /\ all[b].children \in Seq(1 .. n)
        /\ \A c \in Kids(all[b]) : c \in ToSet(built) /\ ~ block_child(bs, c)
        /\ \A c \in Wrappers : b # c => Kids(all[b]) \cap Kids(all[c]) = {}
  <2>1. WrapsRuns(bs, built, all)
    BY WrappersHold
  <2> QED BY <2>1 DEF WrapsRuns
<1>6. \A c \in ToSet(built) : c \in 1 .. n
  BY <1>2, ElementOfSeq DEF ToSet
<1>7. \A i \in Blocks : built[i] \in ToSet(built) /\ block_child(bs, built[i])
  BY DEF ToSet
<1>8. ASSUME NEW b \in Wrappers PROVE Kids(all[b]) \cap ToSet(W.children) = {}
  <2> SUFFICES ASSUME NEW c \in Kids(all[b]), c \in ToSet(W.children) PROVE FALSE
    OBVIOUS
  <2>1. c \in 1 .. n /\ ~ block_child(bs, c)
    BY <1>5, <1>6
  <2>2. c \notin Wrappers
    BY <1>1, <2>1
  <2> QED BY <1>3, <1>7, <2>1, <2>2
<1>9. ASSUME NEW c \in ToSet(built)
      PROVE  \/ c \in ToSet(W.children)
             \/ \E b \in Wrappers : c \in Kids(all[b])
             \/ BlankBox(d, bs[c])
  <2>1. PICK p \in DOMAIN built : c = built[p]
    BY DEF ToSet
  <2>2. CASE block_child(bs, c)
    BY <1>3, <2>1, <2>2
  <2>3. CASE ~ block_child(bs, c)
    BY <2>1, <2>3, EveryChildIsPlaced
  <2> QED BY <2>2, <2>3
<1>10. \A c \in ToSet(W.children) : block_child(all, c)
  <2>1. \A b \in Wrappers : block_child(all, b)
    BY <1>5 DEF block_child, is_block_level
  <2>2. \A i \in Blocks : block_child(all, built[i])
    <3>1. \A i \in Blocks : all[built[i]] = bs[built[i]] /\ block_child(bs, built[i])
      BY <1>1, <1>6, <1>7
    <3> QED BY <3>1 DEF block_child
  <2> QED BY <1>3, <2>1, <2>2
<1>11. ToSet(W.children) \subseteq ToSet(built) \cup Wrappers
  BY <1>3, <1>7
<1>12. W.children \in Seq(1 .. Len(all))
  BY <1>3, <1>4
<1>13. \A b \in Wrappers : b \in ToSet(W.children)
  BY <1>3
<1>14. Len(all) >= n /\ \E c \in ToSet(built) : block_child(bs, c)
  BY <1>1, <1>7
<1> QED BY <1>1, <1>5, <1>8, <1>9, <1>10, <1>11, <1>12, <1>13, <1>14 DEF WrapSound

\* wrap_inline_runs, whatever the children are.
LEMMA WrapIsSound ==
  ASSUME NEW d, NEW bs, IsSeq(bs), NEW built \in Seq(1 .. Len(bs)), IsInjective(built), NEW style,
         NEW W, W = wrap_inline_runs(d, bs, built, style)
  PROVE  WrapSound(d, bs, built, W)
<1> DEFINE Blocks == {i \in DOMAIN built : block_child(bs, built[i])}
           Inlines == DOMAIN built \ Blocks
           Wrapped == {i \in Inlines :
                         /\ i = 1 \/ i - 1 \in Blocks
                         /\ ~ run_is_collapsible_whitespace(d, bs, run_from(bs, built, i))}
<1>1. CASE Blocks = {} \/ Inlines = {}
  <2>1. W = [boxes |-> bs, children |-> built]
    BY <1>1 DEF wrap_inline_runs
  <2>2. \/ \A i \in DOMAIN built : block_child(bs, built[i])
        \/ \A i \in DOMAIN built : ~ block_child(bs, built[i])
    BY <1>1
  <2> QED BY <2>1, <2>2, WrapNothing
<1>2. CASE ~ (Blocks = {} \/ Inlines = {})
  <2>1. W = [boxes |-> Wrappings(bs, built, style, Wrapped),
             children |-> Left(Len(bs), built, Blocks, Wrapped)]
    BY <1>2 DEF wrap_inline_runs, Wrappings, Wrapper, Left
  <2>2. StartsIn(bs, built, Wrapped)
    BY DEF StartsIn
  <2>3. OthersAreBlank(d, bs, built, Wrapped)
    <3>1. Len(built) \in Nat /\ DOMAIN built = 1 .. Len(built)
      BY LenProperties
    <3>2. \A i \in DOMAIN built : i # 1 => i - 1 \in DOMAIN built
      BY <3>1
    <3> QED BY <3>2 DEF OthersAreBlank
  <2>4. W.boxes = Wrappings(bs, built, style, Wrapped) /\ W.children = Left(Len(bs), built, Blocks, Wrapped)
    BY <2>1
  <2>5. Blocks = {i \in DOMAIN built : block_child(bs, built[i])} /\ Blocks # {}
    BY <1>2
  <2> HIDE DEF Blocks, Wrapped
  <2> QED BY <2>2, <2>3, <2>4, <2>5, WrapMixed
<1> QED BY <1>1, <1>2
-----------------------------------------------------------------------------
(***************************************************************************)
(* What holds of the boxes at every step of the walk.                      *)
(***************************************************************************)
GoodBox(bs, x) ==
  /\ x.children \in Seq(1 .. Len(bs))
  /\ \/ is_block_level(x.kind) = (x.style.display = "Block")
     \/ x = EmptyPage \/ x.kind = "LineBreak"
  /\ \/ \A c \in Kids(x) : ~ block_child(bs, c)
     \/ x.kind # "Inline" /\ \A c \in Kids(x) : block_child(bs, c)
  /\ x.kind \in {"InlineText", "LineBreak"} => x.children = <<>>

\* A frame's style is one that generates a box, and its kind is that of the style.
GoodFrame(bs, f) ==
  /\ DOMAIN f = {"node", "style", "kind", "todo", "built"} /\ "display" \in DOMAIN f.style
  /\ f.style.display \in {"Inline", "Block"} /\ f.kind = f.style.display
  /\ f.built \in Seq(1 .. Len(bs)) /\ IsInjective(f.built)
Built(f) == ToSet(f.built)

GoodBoxes(bs)      == IsSeq(bs) /\ \A b \in 1 .. Len(bs) : GoodBox(bs, bs[b])
GoodFrames(bs, fs) == IsSeq(fs) /\ \A f \in 1 .. Len(fs) : GoodFrame(bs, fs[f])

\* No box is in two places.
OneOwner(bs, fs) ==
  /\ \A a, b \in 1 .. Len(bs) : a # b => Kids(bs[a]) \cap Kids(bs[b]) = {}
  /\ \A f, g \in 1 .. Len(fs) : f # g => Built(fs[f]) \cap Built(fs[g]) = {}
  /\ \A b \in 1 .. Len(bs), f \in 1 .. Len(fs) : Kids(bs[b]) \cap Built(fs[f]) = {}

\* Every box is somewhere, but for the one that was made last and blank ones.
SomeOwner(d, bs, fs, loose) ==
  \A id \in 1 .. Len(bs) : \/ \E b \in 1 .. Len(bs) : id \in Kids(bs[b])
                           \/ \E f \in 1 .. Len(fs) : id \in Built(fs[f])
                           \/ id = loose \/ BlankBox(d, bs[id])

IsLoose(bs, fs, loose) ==
  /\ loose \in 0 .. Len(bs)
  /\ \A b \in 1 .. Len(bs) : loose \notin Kids(bs[b])
  /\ \A f \in 1 .. Len(fs) : loose \notin Built(fs[f])

Sound(d, bs, fs, loose) ==
  /\ GoodBoxes(bs) /\ GoodFrames(bs, fs)
  /\ OneOwner(bs, fs) /\ SomeOwner(d, bs, fs, loose) /\ IsLoose(bs, fs, loose)

\* The root is the one box that is nowhere once the walk has returned.
BoxInv == Sound(doc, boxes, frames, root) /\ (root # 0 => frames = <<>>)

(* More boxes leave what was said of the boxes there were.                 *)
LEMMA MoreBoxes ==
  ASSUME NEW bs, IsSeq(bs), NEW cs, IsSeq(cs), Len(bs) <= Len(cs),
         \A b \in 1 .. Len(bs) : cs[b] = bs[b]
  PROVE  /\ Len(bs) \in Nat /\ Len(cs) \in Nat /\ 1 .. Len(bs) \subseteq 1 .. Len(cs)
         /\ \A c \in 1 .. Len(bs) : block_child(cs, c) = block_child(bs, c)
         /\ \A x : GoodBox(bs, x) => GoodBox(cs, x)
         /\ \A f : GoodFrame(bs, f) => GoodFrame(cs, f)
<1>1. Len(bs) \in Nat /\ Len(cs) \in Nat /\ 1 .. Len(bs) \subseteq 1 .. Len(cs)
  BY LenProperties DEF IsSeq
<1>2. \A c \in 1 .. Len(bs) : block_child(cs, c) = block_child(bs, c)
  BY DEF block_child
<1>3. \A t \in Seq(1 .. Len(bs)) : t \in Seq(1 .. Len(cs))
  BY <1>1, SeqMonotonic
<1>4. \A x : x.children \in Seq(1 .. Len(bs)) => \A c \in Kids(x) : c \in 1 .. Len(bs)
  BY LenProperties, ElementOfSeq DEF Kids, ToSet
<1>5. ASSUME NEW x, GoodBox(bs, x) PROVE GoodBox(cs, x)
  <2>1. x.children \in Seq(1 .. Len(cs))
    BY <1>3, <1>5 DEF GoodBox
  <2>2. \A c \in Kids(x) : block_child(cs, c) = block_child(bs, c)
    BY <1>2, <1>4, <1>5 DEF GoodBox
  <2> QED BY <1>5, <2>1, <2>2 DEF GoodBox
<1>6. ASSUME NEW f, GoodFrame(bs, f) PROVE GoodFrame(cs, f)
  BY <1>3, <1>6 DEF GoodFrame
<1> QED BY <1>1, <1>2, <1>5, <1>6

\* What a box holds are boxes; so is what a frame has built.
LEMMA KidsAreBoxes ==
  ASSUME NEW bs
  PROVE  /\ \A x, c : GoodBox(bs, x) /\ c \in Kids(x) => c \in 1 .. Len(bs)
         /\ \A f, c : GoodFrame(bs, f) /\ c \in Built(f) => c \in 1 .. Len(bs)
<1>1. \A t \in Seq(1 .. Len(bs)) : \A c \in ToSet(t) : c \in 1 .. Len(bs)
  BY LenProperties, ElementOfSeq DEF ToSet
<1> QED BY <1>1 DEF GoodBox, GoodFrame, Kids, Built

\* A box without children.
LEMMA NoKids ==
  ASSUME NEW x, x.children = <<>>
  PROVE  Kids(x) = {}
<1>1. DOMAIN x.children = {}
  OBVIOUS
<1> QED BY <1>1 DEF Kids, ToSet

\* Before anything is built, and when nothing is.
LEMMA NothingIsSound ==
  ASSUME NEW d
  PROVE  Sound(d, <<>>, <<>>, 0) /\ Sound(d, <<EmptyPage>>, <<>>, 1)
<1>1. Len(<<>>) = 0 /\ <<>> \in Seq({})
  BY EmptySeq
<1>2. 1 .. 0 = {} /\ 1 .. 1 = {1}
  OBVIOUS
<1>3. IsSeq(<<>>) /\ IsSeq(<<EmptyPage>>)
  <2>1. <<EmptyPage>> \in Seq({EmptyPage})
    OBVIOUS
  <2> QED BY <1>1, <2>1, OwnSeq
<1>4. Len(<<EmptyPage>>) = 1 /\ <<EmptyPage>>[1] = EmptyPage
  OBVIOUS
<1>5. EmptyPage.children = <<>> /\ EmptyPage.kind = "AnonymousBlock"
  BY DEF EmptyPage, Box
<1>6. Kids(EmptyPage) = {} /\ <<>> \in Seq(1 .. Len(<<EmptyPage>>))
  BY <1>4, <1>5, NoKids
<1>7. GoodBox(<<EmptyPage>>, EmptyPage)
  BY <1>5, <1>6 DEF GoodBox
<1>8. GoodBoxes(<<>>) /\ GoodFrames(<<>>, <<>>) /\ GoodFrames(<<EmptyPage>>, <<>>)
  BY <1>1, <1>2, <1>3 DEF GoodBoxes, GoodFrames
<1>9. GoodBoxes(<<EmptyPage>>)
  BY <1>2, <1>3, <1>4, <1>7 DEF GoodBoxes
<1>10. OneOwner(<<>>, <<>>) /\ SomeOwner(d, <<>>, <<>>, 0) /\ IsLoose(<<>>, <<>>, 0)
  BY <1>1, <1>2 DEF OneOwner, SomeOwner, IsLoose
<1>11. /\ OneOwner(<<EmptyPage>>, <<>>) /\ SomeOwner(d, <<EmptyPage>>, <<>>, 1)
       /\ IsLoose(<<EmptyPage>>, <<>>, 1)
  BY <1>1, <1>2, <1>4, <1>6 DEF OneOwner, SomeOwner, IsLoose
<1> QED BY <1>8, <1>9, <1>10, <1>11 DEF Sound

\* A stack that has the same frames, but for what is left to do.
SameFrames(fs, gs) ==
  /\ IsSeq(gs) /\ Len(gs) = Len(fs)
  /\ \A f \in 1 .. Len(fs) : /\ DOMAIN gs[f] = DOMAIN fs[f] /\ gs[f].style = fs[f].style
                             /\ gs[f].kind = fs[f].kind /\ gs[f].built = fs[f].built

\* A frame may go on to its next child.
LEMMA SameFramesAreSound ==
  ASSUME NEW d, NEW bs, NEW fs, NEW loose, Sound(d, bs, fs, loose),
         NEW gs, SameFrames(fs, gs)
  PROVE  Sound(d, bs, gs, loose)
<1>1. GoodFrames(bs, gs)
  BY DEF Sound, GoodFrames, GoodFrame, SameFrames
<1>2. Len(gs) = Len(fs) /\ \A f \in 1 .. Len(fs) : Built(gs[f]) = Built(fs[f])
  BY DEF SameFrames, Built
<1>3. OneOwner(bs, gs)
  BY <1>2 DEF Sound, OneOwner
<1>4. SomeOwner(d, bs, gs, loose)
  BY <1>2 DEF Sound, SomeOwner
<1>5. IsLoose(bs, gs, loose)
  BY <1>2 DEF Sound, IsLoose
<1> QED BY <1>1, <1>3, <1>4, <1>5 DEF Sound

\* Taking the next child off leaves what the frame has built.
LEMMA TodoTaken ==
  ASSUME NEW bs, NEW fs, GoodFrames(bs, fs), fs # <<>>
  PROVE  SameFrames(fs, [fs EXCEPT ![1].todo = Tail(@)])
<1> DEFINE top == [fs[1] EXCEPT !.todo = Tail(@)]
           gs == [fs EXCEPT ![1] = top]
           S == ToSet(fs) \cup {top}
<1>1. fs \in Seq(S) /\ 1 \in 1 .. Len(fs) /\ Len(fs) \in Nat
  BY LenProperties, EmptySeq, SeqMonotonic DEF GoodFrames, IsSeq
<1>2. GoodFrame(bs, fs[1])
  BY <1>1 DEF GoodFrames
<1>3. /\ DOMAIN top = DOMAIN fs[1] /\ top.style = fs[1].style
      /\ top.kind = fs[1].kind /\ top.built = fs[1].built
  BY <1>2 DEF GoodFrame
<1> HIDE DEF top, S
<1>4. /\ gs \in Seq(S) /\ Len(gs) = Len(fs)
      /\ \A f \in 1 .. Len(fs) : gs[f] = IF f = 1 THEN top ELSE fs[f]
  <2>1. top \in S
    BY DEF S
  <2> QED BY <1>1, <2>1, ExceptSeq
<1>5. gs = [fs EXCEPT ![1].todo = Tail(@)]
  BY DEF top
<1>6. SameFrames(fs, gs)
  <2> HIDE DEF gs
  <2> QED BY <1>3, <1>4, OwnSeq DEF SameFrames
<1> QED BY <1>5, <1>6

\* A child's box is put into the top frame's hands.
LEMMA AddBuilt ==
  ASSUME NEW d, NEW bs, NEW fs, NEW id, Sound(d, bs, fs, id), id # 0, fs # <<>>
  PROVE  Sound(d, bs, add_built(fs, id), 0)
<1> DEFINE top == [fs[1] EXCEPT !.built = Append(@, id)]
           gs == [fs EXCEPT ![1] = top]
           S == ToSet(fs) \cup {top}
<1>1. fs \in Seq(S) /\ 1 \in 1 .. Len(fs) /\ Len(fs) \in Nat
  BY LenProperties, EmptySeq, SeqMonotonic DEF Sound, GoodFrames, IsSeq
<1>2. GoodFrame(bs, fs[1]) /\ id \in 1 .. Len(bs) /\ Len(bs) \in Nat
  BY <1>1, LenProperties DEF Sound, GoodFrames, GoodBoxes, IsLoose, IsSeq
<1>3. /\ DOMAIN top = DOMAIN fs[1] /\ top.style = fs[1].style
      /\ top.kind = fs[1].kind /\ top.built = Append(fs[1].built, id)
  BY <1>2 DEF GoodFrame
<1>4. id \notin Built(fs[1])
  BY <1>1 DEF Sound, IsLoose
<1>5. /\ Append(fs[1].built, id) \in Seq(1 .. Len(bs)) /\ IsInjective(Append(fs[1].built, id))
      /\ ToSet(Append(fs[1].built, id)) = Built(fs[1]) \cup {id}
  <2>1. ASSUME NEW q, q = fs[1].built, NEW r, r = Append(q, id)
        PROVE  r \in Seq(1 .. Len(bs)) /\ IsInjective(r) /\ ToSet(r) = ToSet(q) \cup {id}
    <3>1. /\ q \in Seq(1 .. Len(bs)) /\ Len(q) \in Nat /\ DOMAIN q = 1 .. Len(q)
          /\ IsInjective(q) /\ id \notin ToSet(q)
      BY <1>2, <1>4, <2>1, LenProperties DEF GoodFrame, Built
    <3>2. /\ r \in Seq(1 .. Len(bs)) /\ DOMAIN r = 1 .. Len(q) + 1
          /\ \A i \in 1 .. Len(q) : r[i] = q[i]
          /\ r[Len(q) + 1] = id
      BY <1>2, <2>1, <3>1
    <3>3. \A i \in 1 .. Len(q) : r[i] # id
      BY <3>1, <3>2 DEF ToSet
    <3>4. IsInjective(r)
      <4> SUFFICES ASSUME NEW i \in DOMAIN r, NEW j \in DOMAIN r, r[i] = r[j] PROVE i = j
        BY DEF IsInjective
      <4>1. i \in 1 .. Len(q) \/ i = Len(q) + 1
        BY <3>1, <3>2
      <4>2. j \in 1 .. Len(q) \/ j = Len(q) + 1
        BY <3>1, <3>2
      <4> QED BY <3>1, <3>2, <3>3, <4>1, <4>2 DEF IsInjective
    <3>5. ToSet(r) = ToSet(q) \cup {id}
      <4>1. ASSUME NEW y PROVE y \in ToSet(r) <=> y \in ToSet(q) \/ y = id
        <5>1. y \in ToSet(r) <=> \E i \in 1 .. Len(q) + 1 : r[i] = y
          BY <3>2 DEF ToSet
        <5>2. y \in ToSet(q) <=> \E i \in 1 .. Len(q) : q[i] = y
          BY <3>1 DEF ToSet
        <5>3. \A i \in 1 .. Len(q) + 1 : i \in 1 .. Len(q) \/ i = Len(q) + 1
          BY ONLY <3>1, SMT
        <5>4. 1 .. Len(q) \subseteq 1 .. Len(q) + 1 /\ Len(q) + 1 \in 1 .. Len(q) + 1
          BY ONLY <3>1, SMT
        <5> QED BY ONLY <3>2, <5>1, <5>2, <5>3, <5>4
      <4> QED BY ONLY <4>1
    <3> QED BY <3>2, <3>4, <3>5
  <2> QED BY <2>1 DEF Built
<1>6. GoodFrame(bs, top) /\ Built(top) = Built(fs[1]) \cup {id}
  <2> HIDE DEF top
  <2> QED BY <1>2, <1>3, <1>5 DEF GoodFrame, Built
<1> HIDE DEF top, S
<1>7. /\ gs \in Seq(S) /\ Len(gs) = Len(fs)
      /\ \A f \in 1 .. Len(fs) : gs[f] = IF f = 1 THEN top ELSE fs[f]
  <2>1. top \in S
    BY DEF S
  <2> QED BY <1>1, <2>1, ExceptSeq
<1>8. gs = add_built(fs, id)
  BY DEF top, add_built
<1> HIDE DEF gs
<1>9. GoodFrames(bs, gs)
  BY <1>6, <1>7, OwnSeq DEF Sound, GoodFrames
<1>10. \A f \in 1 .. Len(fs) : Built(gs[f]) = IF f = 1 THEN Built(fs[1]) \cup {id} ELSE Built(fs[f])
  BY <1>6, <1>7
<1>11. /\ \A b \in 1 .. Len(bs) : id \notin Kids(bs[b])
       /\ \A f \in 1 .. Len(fs) : id \notin Built(fs[f])
  BY DEF Sound, IsLoose
<1>12. OneOwner(bs, gs)
  <2>1. \A f, g \in 1 .. Len(fs) : f # g => Built(gs[f]) \cap Built(gs[g]) = {}
    <3> TAKE f, g \in 1 .. Len(fs)
    <3> HAVE f # g
    <3>1. Built(fs[f]) \cap Built(fs[g]) = {} /\ id \notin Built(fs[f]) /\ id \notin Built(fs[g])
      BY <1>11 DEF Sound, OneOwner
    <3>2. f = 1 => g # 1
      OBVIOUS
    <3> QED BY <1>10, <3>1, <3>2
  <2>2. \A b \in 1 .. Len(bs), f \in 1 .. Len(fs) : Kids(bs[b]) \cap Built(gs[f]) = {}
    <3> TAKE b \in 1 .. Len(bs), f \in 1 .. Len(fs)
    <3>1. Kids(bs[b]) \cap Built(fs[f]) = {} /\ id \notin Kids(bs[b])
      BY <1>11 DEF Sound, OneOwner
    <3> QED BY <1>10, <3>1
  <2> QED BY <1>7, <2>1, <2>2 DEF Sound, OneOwner
<1>13. SomeOwner(d, bs, gs, 0)
  BY <1>1, <1>7, <1>10 DEF Sound, SomeOwner
<1>14. IsLoose(bs, gs, 0)
  <2>1. \A f \in 1 .. Len(gs) : \A c \in Built(gs[f]) : c # 0
    BY <1>2, <1>9, KidsAreBoxes DEF GoodFrames
  <2>2. \A b \in 1 .. Len(bs) : \A c \in Kids(bs[b]) : c # 0
    BY <1>2, KidsAreBoxes DEF Sound, GoodBoxes
  <2> QED BY <1>2, <2>1, <2>2 DEF IsLoose
<1> QED BY <1>8, <1>9, <1>12, <1>13, <1>14 DEF Sound

\* A new leaf is in nobody's hands yet.
LEMMA NewLeaf ==
  ASSUME NEW d, NEW bs, NEW fs, Sound(d, bs, fs, 0),
         NEW x, x.children = <<>>, ~ is_block_level(x.kind),
         x.kind = "LineBreak" \/ x.style.display # "Block",
         NEW cs, cs = Append(bs, x)
  PROVE  Sound(d, cs, fs, Len(cs)) /\ Len(cs) # 0
<1> DEFINE n == Len(bs)
<1>1. IsSeq(bs) /\ n \in Nat
  BY LenProperties DEF Sound, GoodBoxes, IsSeq
<1>2. IsSeq(cs) /\ Len(cs) = n + 1 /\ cs[n + 1] = x /\ \A b \in 1 .. n : cs[b] = bs[b]
  <2>1. bs \in Seq(ToSet(bs) \cup {x})
    BY <1>1, SeqMonotonic DEF IsSeq
  <2>2. /\ cs \in Seq(ToSet(bs) \cup {x}) /\ Len(cs) = n + 1 /\ cs[n + 1] = x
        /\ \A b \in 1 .. n : cs[b] = bs[b]
    BY <1>1, <2>1
  <2> QED BY <2>2, OwnSeq
<1>3. /\ \A y : GoodBox(bs, y) => GoodBox(cs, y)
      /\ \A f : GoodFrame(bs, f) => GoodFrame(cs, f)
  <2>1. Len(bs) <= Len(cs)
    BY <1>1, <1>2
  <2> QED BY <1>1, <1>2, <2>1, MoreBoxes
<1>4. Kids(x) = {}
  BY NoKids
<1>5. \A b \in 1 .. Len(cs) : b = n + 1 \/ b \in 1 .. n
  BY <1>1, <1>2
<1>6. GoodBox(cs, x)
  <2>1. <<>> \in Seq(1 .. Len(cs))
    OBVIOUS
  <2> QED BY <1>4, <2>1 DEF GoodBox, is_block_level
<1>7. GoodBoxes(cs) /\ GoodFrames(cs, fs)
  BY <1>2, <1>3, <1>5, <1>6 DEF Sound, GoodBoxes, GoodFrames
<1>8. OneOwner(cs, fs)
  BY <1>2, <1>4, <1>5 DEF Sound, OneOwner
<1>9. SomeOwner(d, cs, fs, n + 1)
  <2> SUFFICES ASSUME NEW id \in 1 .. n
               PROVE  \/ \E b \in 1 .. Len(cs) : id \in Kids(cs[b])
                      \/ \E f \in 1 .. Len(fs) : id \in Built(fs[f])
                      \/ BlankBox(d, cs[id])
    BY <1>5 DEF SomeOwner
  <2>1. 1 .. n \subseteq 1 .. Len(cs) /\ id # 0
    BY <1>1, <1>2
  <2> QED BY <1>2, <2>1 DEF Sound, SomeOwner
<1>10. IsLoose(cs, fs, n + 1)
  <2>1. \A f \in 1 .. Len(fs) : \A c \in Built(fs[f]) : c # n + 1
    BY <1>1, KidsAreBoxes DEF Sound, GoodFrames
  <2>2. \A b \in 1 .. n : \A c \in Kids(bs[b]) : c # n + 1
    BY <1>1, KidsAreBoxes DEF Sound, GoodBoxes
  <2>3. n + 1 \in 0 .. Len(cs)
    BY <1>1, <1>2
  <2> QED BY <1>2, <1>4, <1>5, <2>1, <2>2, <2>3 DEF IsLoose
<1> QED BY <1>1, <1>2, <1>7, <1>8, <1>9, <1>10 DEF Sound

\* A frame on top of the others.
LEMMA OnTop ==
  ASSUME NEW S, NEW x \in S, NEW fs \in Seq(S)
  PROVE  /\ <<x>> \o fs \in Seq(S) /\ Len(<<x>> \o fs) = 1 + Len(fs)
         /\ (<<x>> \o fs)[1] = x
         /\ \A f \in 1 .. Len(fs) : (<<x>> \o fs)[1 + f] = fs[f]
<1>1. Len(fs) \in Nat
  BY LenProperties
<1>2. PICK t : t = <<x>> /\ t \in Seq(S) /\ Len(t) = 1 /\ t[1] = x
  <2>1. <<x>> \in Seq(S) /\ Len(<<x>>) = 1 /\ <<x>>[1] = x
    OBVIOUS
  <2> QED BY <2>1, Zenon
<1>3. /\ t \o fs \in Seq(S) /\ Len(t \o fs) = Len(t) + Len(fs)
      /\ \A i \in 1 .. Len(t) : (t \o fs)[i] = t[i]
      /\ \A f \in 1 .. Len(fs) : (t \o fs)[Len(t) + f] = fs[f]
  BY <1>2, Joined
<1> QED BY <1>1, <1>2, <1>3

\* A frame that is entered has built nothing.
LEMMA EnterFrame ==
  ASSUME NEW d, NEW bs, NEW fs, NEW loose, Sound(d, bs, fs, loose),
         NEW x, GoodFrame(bs, x), x.built = <<>>
  PROVE  Sound(d, bs, <<x>> \o fs, loose)
<1> DEFINE gs == <<x>> \o fs
           S  == ToSet(fs) \cup {x}
<1>1. fs \in Seq(S) /\ Len(fs) \in Nat
  BY LenProperties, SeqMonotonic DEF Sound, GoodFrames, IsSeq
<1> HIDE DEF S
<1>3. /\ gs \in Seq(S) /\ Len(gs) = 1 + Len(fs) /\ gs[1] = x
      /\ \A f \in 1 .. Len(fs) : gs[1 + f] = fs[f]
  <2>1. x \in S
    BY DEF S
  <2> QED BY <1>1, <2>1, OnTop
<1> HIDE DEF gs
<1>4. \A g \in 1 .. Len(gs) : g = 1 \/ \E f \in 1 .. Len(fs) : g = 1 + f
  <2> TAKE g \in 1 .. Len(gs)
  <2>1. g # 1 => g - 1 \in 1 .. Len(fs) /\ g = 1 + (g - 1)
    BY <1>1, <1>3
  <2> QED BY <2>1
<1>5. Built(x) = {}
  <2>1. DOMAIN x.built = {}
    OBVIOUS
  <2> QED BY <2>1 DEF Built, ToSet
<1>6. GoodFrames(bs, gs)
  BY <1>3, <1>4, OwnSeq DEF Sound, GoodFrames
<1>7. OneOwner(bs, gs)
  <2>1. \A f, g \in 1 .. Len(gs) : f # g => Built(gs[f]) \cap Built(gs[g]) = {}
    <3> TAKE f, g \in 1 .. Len(gs)
    <3> HAVE f # g
    <3>1. CASE f = 1 \/ g = 1
      BY <1>3, <1>5, <3>1
    <3>2. CASE f # 1 /\ g # 1
      <4>1. PICK i \in 1 .. Len(fs) : f = 1 + i
        BY <1>4, <3>2
      <4>2. PICK j \in 1 .. Len(fs) : g = 1 + j
        BY <1>4, <3>2
      <4> QED BY <1>3, <4>1, <4>2 DEF Sound, OneOwner
    <3> QED BY <3>1, <3>2
  <2>2. \A b \in 1 .. Len(bs), g \in 1 .. Len(gs) : Kids(bs[b]) \cap Built(gs[g]) = {}
    <3> TAKE b \in 1 .. Len(bs), g \in 1 .. Len(gs)
    <3>1. CASE g = 1
      BY <1>3, <1>5, <3>1
    <3>2. CASE g # 1
      <4>1. PICK j \in 1 .. Len(fs) : g = 1 + j
        BY <1>4, <3>2
      <4> QED BY <1>3, <4>1 DEF Sound, OneOwner
    <3> QED BY <3>1, <3>2
  <2> QED BY <2>1, <2>2 DEF Sound, OneOwner
<1>8. SomeOwner(d, bs, gs, loose)
  <2>1. \A f \in 1 .. Len(fs) : 1 + f \in 1 .. Len(gs) /\ Built(gs[1 + f]) = Built(fs[f])
    BY <1>1, <1>3
  <2> QED BY <2>1 DEF Sound, SomeOwner
<1>9. IsLoose(bs, gs, loose)
  <2>1. \A g \in 1 .. Len(gs) : loose \notin Built(gs[g])
    <3> TAKE g \in 1 .. Len(gs)
    <3>1. CASE g = 1
      BY <1>3, <1>5, <3>1
    <3>2. CASE g # 1
      <4>1. PICK j \in 1 .. Len(fs) : g = 1 + j
        BY <1>4, <3>2
      <4> QED BY <1>3, <4>1 DEF Sound, IsLoose
    <3> QED BY <3>1, <3>2
  <2> QED BY <2>1 DEF Sound, IsLoose
<1> QED BY <1>6, <1>7, <1>8, <1>9 DEF Sound, gs

(* A frame that is finished gives what it has built to its box and to the  *)
(* wrappers; its box is in nobody's hands yet.                             *)
LEMMA FinishFrame ==
  ASSUME NEW d, NEW bs, NEW fs, Sound(d, bs, fs, 0), fs # <<>>,
         NEW W, WrapSound(d, bs, fs[1].built, W),
         NEW x, x.children = W.children, x.kind \in {"Inline", "Block"},
         is_block_level(x.kind) = (x.style.display = "Block"),
         x.kind = "Inline" => \A c \in Built(fs[1]) : ~ block_child(bs, c),
         NEW cs, cs = Append(W.boxes, x)
  PROVE  Sound(d, cs, Tail(fs), Len(cs)) /\ Len(cs) # 0
<1> DEFINE n == Len(bs)
           N == Len(W.boxes)
           Wrappers == n + 1 .. N
           HandedOn == Built(fs[1])
           gs == Tail(fs)
<1>1. IsSeq(bs) /\ n \in Nat /\ IsSeq(W.boxes) /\ N \in Nat /\ n <= N
  BY LenProperties DEF Sound, GoodBoxes, WrapSound, IsSeq
<1>2. IsSeq(cs) /\ Len(cs) = N + 1 /\ cs[N + 1] = x /\ \A b \in 1 .. N : cs[b] = W.boxes[b]
  <2>1. W.boxes \in Seq(ToSet(W.boxes) \cup {x})
    BY <1>1, SeqMonotonic DEF IsSeq
  <2>2. /\ cs \in Seq(ToSet(W.boxes) \cup {x}) /\ Len(cs) = N + 1 /\ cs[N + 1] = x
        /\ \A b \in 1 .. N : cs[b] = W.boxes[b]
    BY <1>1, <2>1
  <2> QED BY <2>2, OwnSeq
<1>3. /\ \A b \in 1 .. n : W.boxes[b] = bs[b]
      /\ \A b \in Wrappers :
           /\ W.boxes[b].kind = "AnonymousBlock" /\ W.boxes[b].style.display = "Block"
           /\ W.boxes[b].children \in Seq(1 .. n)
           /\ \A c \in Kids(W.boxes[b]) : c \in HandedOn /\ ~ block_child(bs, c)
           /\ \A c \in Wrappers : b # c => Kids(W.boxes[b]) \cap Kids(W.boxes[c]) = {}
           /\ Kids(W.boxes[b]) \cap Kids(x) = {}
           /\ b \in Kids(x)
      /\ x.children \in Seq(1 .. N)
      /\ Kids(x) \subseteq HandedOn \cup Wrappers
      /\ \A c \in HandedOn : \/ c \in Kids(x)
                             \/ \E b \in Wrappers : c \in Kids(W.boxes[b])
                             \/ BlankBox(d, bs[c])
      /\ \/ /\ \A c \in Kids(x) : block_child(W.boxes, c)
            /\ N = n \/ \E c \in HandedOn : block_child(bs, c)
         \/ Kids(x) = HandedOn /\ \A c \in HandedOn : ~ block_child(W.boxes, c)
  <2>1. Kids(x) = ToSet(W.children) /\ HandedOn = ToSet(fs[1].built)
    BY DEF Kids, Built
  <2> HIDE DEF HandedOn
  <2>2. /\ \A b \in 1 .. n : W.boxes[b] = bs[b]
        /\ x.children \in Seq(1 .. N)
        /\ Kids(x) \subseteq HandedOn \cup Wrappers
    BY <2>1 DEF WrapSound
  <2>3. ASSUME NEW b \in Wrappers
        PROVE  /\ W.boxes[b].kind = "AnonymousBlock" /\ W.boxes[b].style.display = "Block"
               /\ W.boxes[b].children \in Seq(1 .. n)
               /\ \A c \in Kids(W.boxes[b]) : c \in HandedOn /\ ~ block_child(bs, c)
               /\ \A c \in Wrappers : b # c => Kids(W.boxes[b]) \cap Kids(W.boxes[c]) = {}
               /\ Kids(W.boxes[b]) \cap Kids(x) = {}
               /\ b \in Kids(x)
    BY <2>1 DEF WrapSound
  <2>4. \A c \in HandedOn : \/ c \in Kids(x)
                            \/ \E b \in Wrappers : c \in Kids(W.boxes[b])
                            \/ BlankBox(d, bs[c])
    BY ONLY WrapSound(d, bs, fs[1].built, W), <2>1 DEF WrapSound
  <2>5. \/ /\ \A c \in Kids(x) : block_child(W.boxes, c)
           /\ N = n \/ \E c \in HandedOn : block_child(bs, c)
        \/ Kids(x) = HandedOn /\ \A c \in HandedOn : ~ block_child(W.boxes, c)
    BY <2>1 DEF WrapSound
  <2> HIDE DEF n, N, Wrappers
  <2> QED BY ONLY <2>2, <2>3, <2>4, <2>5
<1> HIDE DEF n, N
<1>4. \A b \in 1 .. N + 1 : b \in 1 .. n \/ b \in Wrappers \/ b = N + 1
  BY <1>1
<1>5. 1 .. n \subseteq 1 .. N /\ Wrappers \subseteq 1 .. N /\ 1 .. N \subseteq 1 .. N + 1
  BY <1>1
<1>6. /\ \A b \in 1 .. n : cs[b] = bs[b]
      /\ \A b \in Wrappers : cs[b] = W.boxes[b]
  BY <1>2, <1>3, <1>5
<1>7. /\ \A c \in 1 .. n : block_child(cs, c) = block_child(bs, c)
      /\ \A c \in 1 .. N : block_child(cs, c) = block_child(W.boxes, c)
      /\ \A y : GoodBox(bs, y) => GoodBox(cs, y)
      /\ \A f : GoodFrame(bs, f) => GoodFrame(cs, f)
  <2>1. Len(bs) <= Len(cs) /\ \A b \in 1 .. Len(bs) : cs[b] = bs[b]
    BY <1>1, <1>2, <1>6 DEF n
  <2>2. /\ \A c \in 1 .. Len(bs) : block_child(cs, c) = block_child(bs, c)
        /\ \A y : GoodBox(bs, y) => GoodBox(cs, y)
        /\ \A f : GoodFrame(bs, f) => GoodFrame(cs, f)
    <3>1. IsSeq(bs) /\ IsSeq(cs)
      BY <1>1, <1>2
    <3>2. \A c \in 1 .. Len(bs) : block_child(cs, c) = block_child(bs, c)
      BY ONLY <2>1, <3>1, MoreBoxes
    <3>3. \A y : GoodBox(bs, y) => GoodBox(cs, y)
      BY ONLY <2>1, <3>1, MoreBoxes
    <3>4. \A f : GoodFrame(bs, f) => GoodFrame(cs, f)
      BY ONLY <2>1, <3>1, MoreBoxes
    <3> QED BY <3>2, <3>3, <3>4
  <2> QED BY <1>2, <2>2 DEF n, block_child
<1>8. fs[1] = Head(fs) /\ 1 \in 1 .. Len(fs) /\ Len(fs) \in Nat
  BY LenProperties, EmptySeq DEF Sound, GoodFrames, IsSeq
<1>9. /\ IsSeq(gs) /\ Len(gs) = Len(fs) - 1
      /\ \A f \in 1 .. Len(gs) : gs[f] = fs[f + 1]
  BY HeadTailProperties, OwnSeq DEF Sound, GoodFrames, IsSeq
<1> HIDE DEF gs
<1>10. \A f \in 1 .. Len(gs) : f + 1 \in 1 .. Len(fs) /\ f + 1 # 1
  BY <1>8, <1>9
<1>11. /\ \A b \in 1 .. n : GoodBox(bs, bs[b])
       /\ \A f \in 1 .. Len(fs) : GoodFrame(bs, fs[f])
  BY DEF Sound, GoodBoxes, GoodFrames, n
<1>12. /\ \A b \in 1 .. n : Kids(bs[b]) \subseteq 1 .. n
       /\ \A f \in 1 .. Len(fs) : Built(fs[f]) \subseteq 1 .. n
       /\ HandedOn \subseteq 1 .. n
  BY <1>8, <1>11, KidsAreBoxes DEF n
<1>13. Kids(x) \subseteq 1 .. N
  BY <1>3, <1>5, <1>12
<1> HIDE DEF HandedOn
<1>14. \A b \in Wrappers : GoodBox(cs, cs[b])
  <2> TAKE b \in Wrappers
  <2>1. cs[b].children \in Seq(1 .. N + 1)
    <3>1. cs[b].children \in Seq(1 .. n)
      BY <1>3, <1>6
    <3>2. 1 .. n \subseteq 1 .. N + 1
      BY <1>5
    <3> QED BY <3>1, <3>2, SeqMonotonic
  <2>2. \A c \in Kids(cs[b]) : ~ block_child(cs, c)
    BY <1>3, <1>6, <1>7, <1>12
  <2>3. cs[b].kind = "AnonymousBlock" /\ cs[b].style.display = "Block"
    BY <1>3, <1>6
  <2> QED BY <1>2, <2>1, <2>2, <2>3 DEF GoodBox, is_block_level
<1>15. GoodBox(cs, x)
  <2>1. x.children \in Seq(1 .. N + 1)
    <3>1. x.children \in Seq(1 .. N) /\ 1 .. N \subseteq 1 .. N + 1
      BY <1>3, <1>5
    <3> QED BY <3>1, SeqMonotonic
  <2>2. \/ \A c \in Kids(x) : ~ block_child(cs, c)
        \/ x.kind # "Inline" /\ \A c \in Kids(x) : block_child(cs, c)
    <3>1. CASE Kids(x) = HandedOn /\ \A c \in HandedOn : ~ block_child(W.boxes, c)
      BY <1>7, <1>13, <3>1
    <3>2. CASE /\ \A c \in Kids(x) : block_child(W.boxes, c)
               /\ N = n \/ \E c \in HandedOn : block_child(bs, c)
      <4>1. \A c \in Kids(x) : block_child(cs, c)
        BY <1>7, <1>13, <3>2
      <4>2. CASE x.kind = "Inline"
        <5>1. \A c \in HandedOn : ~ block_child(bs, c)
          BY <4>2 DEF HandedOn
        <5>2. Wrappers = {}
          BY <1>1, <3>2, <5>1
        <5>3. \A c \in Kids(x) : c \in HandedOn /\ c \in 1 .. n
          BY <1>3, <1>12, <5>2
        <5> QED BY <1>7, <5>1, <5>3
      <4> QED BY <4>1, <4>2
    <3> QED BY <1>3, <3>1, <3>2
  <2> QED BY <1>2, <2>1, <2>2 DEF GoodBox
<1>16. GoodBoxes(cs)
  <2> SUFFICES ASSUME NEW b \in 1 .. N + 1 PROVE GoodBox(cs, cs[b])
    BY <1>2 DEF GoodBoxes
  <2>1. CASE b \in 1 .. n
    BY <1>6, <1>7, <1>11, <2>1
  <2>2. CASE b \in Wrappers
    BY <1>14, <2>2
  <2>3. CASE b = N + 1
    BY <1>2, <1>15, <2>3
  <2> QED BY <1>4, <2>1, <2>2, <2>3
<1>17. GoodFrames(cs, gs)
  BY <1>7, <1>9, <1>10, <1>11 DEF GoodFrames
<1>18. /\ \A a, b \in 1 .. n : a # b => Kids(bs[a]) \cap Kids(bs[b]) = {}
       /\ \A f, g \in 1 .. Len(fs) : f # g => Built(fs[f]) \cap Built(fs[g]) = {}
       /\ \A b \in 1 .. n, f \in 1 .. Len(fs) : Kids(bs[b]) \cap Built(fs[f]) = {}
       /\ \A b \in 1 .. n : Kids(bs[b]) \cap HandedOn = {}
       /\ \A f \in 1 .. Len(gs) : Built(gs[f]) \cap HandedOn = {}
  BY <1>8, <1>9, <1>10 DEF Sound, OneOwner, n, HandedOn
<1>19. \A b \in 1 .. N + 1 :
         \/ b \in 1 .. n /\ Kids(cs[b]) = Kids(bs[b])
         \/ b \in Wrappers /\ Kids(cs[b]) = Kids(W.boxes[b])
         \/ b = N + 1 /\ Kids(cs[b]) = Kids(x)
  BY <1>2, <1>4, <1>6
<1>20. \A c \in Wrappers : c \notin 1 .. n
  BY <1>1
<1>21. ASSUME NEW a \in 1 .. N + 1, NEW b \in 1 .. N + 1, a # b
       PROVE  Kids(cs[a]) \cap Kids(cs[b]) = {}
  <2>1. CASE a \in 1 .. n /\ Kids(cs[a]) = Kids(bs[a])
    <3>1. Kids(bs[a]) \subseteq 1 .. n /\ Kids(bs[a]) \cap HandedOn = {}
      BY <1>12, <1>18, <2>1
    <3>2. b \in 1 .. n => Kids(bs[a]) \cap Kids(bs[b]) = {}
      BY <1>18, <1>21, <2>1
    <3>3. b \in Wrappers => Kids(bs[a]) \cap Kids(W.boxes[b]) = {}
      BY <1>3, <3>1
    <3>4. Kids(bs[a]) \cap Kids(x) = {}
      BY <1>3, <1>20, <3>1
    <3> QED BY <1>19, <2>1, <3>2, <3>3, <3>4
  <2>2. CASE b \in 1 .. n /\ Kids(cs[b]) = Kids(bs[b])
    <3>1. Kids(bs[b]) \subseteq 1 .. n /\ Kids(bs[b]) \cap HandedOn = {}
      BY <1>12, <1>18, <2>2
    <3>2. a \in 1 .. n => Kids(bs[b]) \cap Kids(bs[a]) = {}
      BY <1>18, <1>21, <2>2
    <3>3. a \in Wrappers => Kids(bs[b]) \cap Kids(W.boxes[a]) = {}
      BY <1>3, <3>1
    <3>4. Kids(bs[b]) \cap Kids(x) = {}
      BY <1>3, <1>20, <3>1
    <3> QED BY <1>19, <2>2, <3>2, <3>3, <3>4
  <2>3. CASE a \in Wrappers /\ Kids(cs[a]) = Kids(W.boxes[a])
    BY <1>3, <1>19, <1>21, <2>2, <2>3
  <2>4. CASE b \in Wrappers /\ Kids(cs[b]) = Kids(W.boxes[b])
    BY <1>3, <1>19, <1>21, <2>1, <2>4
  <2> QED BY <1>19, <1>21, <2>1, <2>2, <2>3, <2>4
<1>22. ASSUME NEW b \in 1 .. N + 1, NEW f \in 1 .. Len(gs)
       PROVE  Kids(cs[b]) \cap Built(gs[f]) = {}
  <2>1. Built(gs[f]) \cap HandedOn = {} /\ Built(gs[f]) \subseteq 1 .. n
    BY <1>9, <1>10, <1>12, <1>18
  <2>2. b \in 1 .. n => Kids(bs[b]) \cap Built(gs[f]) = {}
    BY <1>9, <1>10, <1>18
  <2>3. b \in Wrappers => Kids(W.boxes[b]) \cap Built(gs[f]) = {}
    BY <1>3, <2>1
  <2>4. Kids(x) \cap Built(gs[f]) = {}
    BY <1>3, <1>20, <2>1
  <2> QED BY <1>19, <2>2, <2>3, <2>4
<1>23. OneOwner(cs, gs)
  <2>1. \A f, g \in 1 .. Len(gs) : f # g => Built(gs[f]) \cap Built(gs[g]) = {}
    <3> TAKE f, g \in 1 .. Len(gs)
    <3> HAVE f # g
    <3>1. f + 1 \in 1 .. Len(fs) /\ g + 1 \in 1 .. Len(fs) /\ f + 1 # g + 1
      BY <1>10
    <3>2. Built(fs[f + 1]) \cap Built(fs[g + 1]) = {}
      BY <1>18, <3>1
    <3> QED BY <1>9, <3>2
  <2> QED BY <1>2, <1>21, <1>22, <2>1 DEF OneOwner
<1>24. SomeOwner(d, cs, gs, N + 1)
  <2> SUFFICES ASSUME NEW id \in 1 .. N + 1
               PROVE  \/ \E b \in 1 .. N + 1 : id \in Kids(cs[b])
                      \/ \E f \in 1 .. Len(gs) : id \in Built(gs[f])
                      \/ id = N + 1 \/ BlankBox(d, cs[id])
    BY <1>2 DEF SomeOwner
  <2>1. N + 1 \in 1 .. N + 1 /\ Kids(cs[N + 1]) = Kids(x)
    BY <1>1, <1>2
  <2>2. CASE id \in Wrappers
    BY <1>3, <2>1, <2>2
  <2>3. CASE id \in 1 .. n
    <3>1. \/ \E b \in 1 .. n : id \in Kids(bs[b])
          \/ \E f \in 1 .. Len(fs) : id \in Built(fs[f])
          \/ BlankBox(d, bs[id])
      BY <1>1, <2>3 DEF Sound, SomeOwner, n
    <3>2. ASSUME NEW b \in 1 .. n, id \in Kids(bs[b]) PROVE \E a \in 1 .. N + 1 : id \in Kids(cs[a])
      BY <1>5, <1>6, <3>2
    <3>3. ASSUME id \in HandedOn
          PROVE  (\E b \in 1 .. N + 1 : id \in Kids(cs[b])) \/ BlankBox(d, cs[id])
      <4>1. CASE id \in Kids(x)
        BY <2>1, <4>1
      <4>2. CASE \E b \in Wrappers : id \in Kids(W.boxes[b])
        BY <1>5, <1>6, <4>2
      <4>3. CASE BlankBox(d, bs[id])
        BY <1>6, <2>3, <4>3
      <4> QED BY <1>3, <3>3, <4>1, <4>2, <4>3
    <3>4. ASSUME NEW f \in 1 .. Len(fs), id \in Built(fs[f])
          PROVE  id \in HandedOn \/ \E g \in 1 .. Len(gs) : id \in Built(gs[g])
      <4>1. CASE f = 1
        BY <3>4, <4>1 DEF HandedOn
      <4>2. CASE f # 1
        <5>1. f - 1 \in 1 .. Len(gs) /\ f - 1 + 1 = f
          BY <1>8, <1>9, <4>2
        <5> QED BY <1>9, <3>4, <5>1
      <4> QED BY <4>1, <4>2
    <3>5. BlankBox(d, bs[id]) => BlankBox(d, cs[id])
      BY <1>6, <2>3
    <3> QED BY <3>1, <3>2, <3>3, <3>4, <3>5
  <2> QED BY <1>4, <2>2, <2>3
<1>25. IsLoose(cs, gs, N + 1)
  <2>1. N + 1 \notin 1 .. N /\ N + 1 \notin 1 .. n /\ N + 1 \in 0 .. N + 1
    BY <1>1
  <2>2. \A b \in Wrappers : Kids(W.boxes[b]) \subseteq 1 .. n
    BY <1>3, <1>12
  <2>3. \A b \in 1 .. N + 1 : N + 1 \notin Kids(cs[b])
    BY <1>12, <1>13, <1>19, <2>1, <2>2
  <2>4. \A f \in 1 .. Len(gs) : N + 1 \notin Built(gs[f])
    BY <1>9, <1>10, <1>12, <2>1
  <2> QED BY <1>2, <2>1, <2>3, <2>4 DEF IsLoose
<1>26. Sound(d, cs, gs, N + 1) /\ N + 1 # 0
  BY <1>1, <1>16, <1>17, <1>23, <1>24, <1>25 DEF Sound
<1> QED BY <1>2, <1>26 DEF gs
-----------------------------------------------------------------------------
(***************************************************************************)
(* The steps of the walk.                                                  *)
(***************************************************************************)
LEMMA AdaptedDisplay ==
  ASSUME NEW cv
  PROVE  "display" \in DOMAIN adapt(cv) /\ adapt(cv).display \in {"None", "Inline", "Block"}
BY DEF adapt, adapt_display

\* A text is inline.
LEMMA InheritedDisplay ==
  ASSUME NEW style
  PROVE  "display" \in DOMAIN initial /\ initial.display = "Inline"
         /\ inherited_text_style(style).display = "Inline"
BY DEF initial, inherited_text_style

\* A frame for an element that generates a box.
LEMMA FrameIsGood ==
  ASSUME NEW node, NEW style, NEW bs,
         "display" \in DOMAIN style, style.display \in {"Inline", "Block"}
  PROVE  GoodFrame(bs, Frame(node, style)) /\ Frame(node, style).built = <<>>
<1>1. /\ DOMAIN Frame(node, style) = {"node", "style", "kind", "todo", "built"}
      /\ Frame(node, style).style = style /\ Frame(node, style).built = <<>>
      /\ Frame(node, style).kind = style.display
  BY DEF Frame
<1>2. <<>> \in Seq(1 .. Len(bs)) /\ IsInjective(<<>>)
  BY DEF IsInjective
<1> HIDE DEF Frame
<1> QED BY <1>1, <1>2 DEF GoodFrame

\* The root element has the first frame.
LEMMA RootIsEntered ==
  ASSUME BoxInv, EnterRoot
  PROVE  BoxInv'
<1> DEFINE style == computed_or_initial(doc, root_element(doc))
           x == Frame(root_element(doc), style)
<1>1. /\ root = 0 /\ boxes = <<>> /\ frames = <<>>
      /\ doc' = doc /\ boxes' = <<>> /\ root' = 0
  BY DEF EnterRoot, Unstarted
<1>2. frames' = <<x>> \o frames
  <2>1. frames' = <<x>>
    BY DEF EnterRoot
  <2> HIDE DEF x
  <2> QED BY <1>1, <2>1
<1>3. "display" \in DOMAIN style /\ style.display \in {"Inline", "Block"}
  <2>1. style = initial \/ style = adapt(doc.computed[root_element(doc)])
    BY DEF computed_or_initial
  <2>2. root_element(doc) # 0 => style.display # "None"
    BY DEF EnterRoot, NoBoxes
  <2>3. root_element(doc) # 0
    BY DEF EnterRoot, NoBoxes
  <2> HIDE DEF style
  <2> QED BY <2>1, <2>2, <2>3, AdaptedDisplay, InheritedDisplay
<1>4. GoodFrame(boxes, x) /\ x.built = <<>>
  <2> HIDE DEF style
  <2> QED BY <1>3, FrameIsGood DEF x
<1> HIDE DEF x
<1>5. Sound(doc, boxes, <<x>> \o frames, root)
  BY <1>4, EnterFrame DEF BoxInv
<1> QED BY <1>1, <1>2, <1>5 DEF BoxInv

\* A child is skipped, or becomes a leaf box, or has a frame of its own.
LEMMA ChildIsVisited ==
  ASSUME BoxInv, VisitChild
  PROVE  BoxInv'
<1> DEFINE node  == Head(Head(frames).todo)
           rest  == [frames EXCEPT ![1].todo = Tail(@)]
           child == classify_child(doc, node, Head(frames).style)
<1>1. /\ frames # <<>> /\ doc' = doc /\ root' = root /\ root = 0
      /\ Sound(doc, boxes, frames, 0)
  BY DEF VisitChild, BoxInv
<1>2. Sound(doc, boxes, rest, 0) /\ rest # <<>>
  <2>1. SameFrames(frames, rest)
    BY <1>1, TodoTaken DEF Sound
  <2> HIDE DEF rest
  <2>2. Sound(doc, boxes, rest, 0)
    BY <1>1, <2>1, SameFramesAreSound
  <2>3. Len(rest) = Len(frames) /\ Len(frames) # 0
    BY <1>1, <2>1, EmptySeq DEF SameFrames, Sound, GoodFrames, IsSeq
  <2>4. rest # <<>>
    BY <2>3, EmptySeq
  <2> QED BY <2>2, <2>4
<1>3. \/ child.is = "Skip" /\ frames' = rest /\ boxes' = boxes
      \/ /\ child.is = "Leaf" /\ boxes' = Append(boxes, Box(node, child.kind, child.style, <<>>))
         /\ frames' = add_built(rest, Len(boxes'))
      \/ /\ child.is = "Container" /\ boxes' = boxes
         /\ frames' = <<Frame(node, child.style)>> \o rest
  <2>1. child.is \in {"Skip", "Leaf", "Container"}
    BY DEF classify_child, classify_element, Skip, Leaf, Container
  <2> QED BY <2>1 DEF VisitChild
<1>4. /\ child.is = "Leaf" => \/ child.kind = "LineBreak"
                              \/ child.kind = "InlineText" /\ child.style.display = "Inline"
      /\ child.is = "Container" => /\ "display" \in DOMAIN child.style
                                   /\ child.style.display \in {"Inline", "Block"}
  <2>1. /\ "display" \in DOMAIN adapt(doc.computed[node])
        /\ adapt(doc.computed[node]).display \in {"None", "Inline", "Block"}
        /\ inherited_text_style(Head(frames).style).display = "Inline"
    BY AdaptedDisplay, InheritedDisplay
  <2> HIDE DEF node
  <2> QED BY <2>1 DEF classify_child, classify_element, Skip, Leaf, Container
<1> HIDE DEF rest, child, node
<1>5. CASE child.is = "Skip" /\ frames' = rest /\ boxes' = boxes
  BY <1>1, <1>2, <1>5 DEF BoxInv
<1>6. CASE /\ child.is = "Leaf"
           /\ boxes' = Append(boxes, Box(node, child.kind, child.style, <<>>))
           /\ frames' = add_built(rest, Len(boxes'))
  <2> DEFINE x == Box(node, child.kind, child.style, <<>>)
  <2>1. /\ x.children = <<>> /\ ~ is_block_level(x.kind)
        /\ x.kind = "LineBreak" \/ x.style.display # "Block"
    BY <1>4, <1>6 DEF Box, is_block_level
  <2>2. boxes' = Append(boxes, x)
    BY <1>6
  <2> HIDE DEF x
  <2>3. Sound(doc, boxes', rest, Len(boxes')) /\ Len(boxes') # 0
    BY <1>2, <2>1, <2>2, NewLeaf
  <2>4. Sound(doc, boxes', add_built(rest, Len(boxes')), 0)
    BY <1>2, <2>3, AddBuilt
  <2> QED BY <1>1, <1>6, <2>4 DEF BoxInv
<1>7. CASE /\ child.is = "Container" /\ boxes' = boxes
           /\ frames' = <<Frame(node, child.style)>> \o rest
  <2>1. PICK x : x = Frame(node, child.style)
    OBVIOUS
  <2>2. GoodFrame(boxes, x) /\ x.built = <<>>
    BY <1>4, <1>7, <2>1, FrameIsGood
  <2>3. Sound(doc, boxes, <<x>> \o rest, 0)
    BY <1>2, <2>2, EnterFrame
  <2> QED BY <1>1, <1>7, <2>1, <2>3 DEF BoxInv
<1> QED BY <1>3, <1>5, <1>6, <1>7

\* finalize_kind keeps what was built, and an inline box that is left one has no block in it.
LEMMA KindIsFinal ==
  ASSUME NEW bs, NEW f, GoodFrame(bs, f), NEW g, g = finalize_kind(f, bs)
  PROVE  /\ g.built = f.built /\ g.node = f.node /\ g.kind \in {"Inline", "Block"}
         /\ is_block_level(g.kind) = (g.style.display = "Block")
         /\ g.kind = "Inline" => \A c \in Built(f) : ~ block_child(bs, c)
<1>1. /\ DOMAIN f = {"node", "style", "kind", "todo", "built"} /\ "display" \in DOMAIN f.style
      /\ f.style.display \in {"Inline", "Block"} /\ f.kind = f.style.display
  BY DEF GoodFrame
<1>2. CASE f.kind = "Inline" /\ \E i \in DOMAIN f.built : block_child(bs, f.built[i])
  <2>1. g = [f EXCEPT !.kind = "Block", !.style.display = "Block"]
    BY <1>2 DEF finalize_kind
  <2>2. /\ g.built = f.built /\ g.node = f.node /\ g.kind = "Block"
        /\ g.style.display = "Block"
    BY <1>1, <2>1
  <2> QED BY <2>2 DEF is_block_level
<1>3. CASE ~ (f.kind = "Inline" /\ \E i \in DOMAIN f.built : block_child(bs, f.built[i]))
  <2>1. g = f
    BY <1>3 DEF finalize_kind
  <2>2. g.kind = "Inline" => \A c \in Built(f) : ~ block_child(bs, c)
    BY <1>3, <2>1 DEF Built, ToSet
  <2> QED BY <1>1, <2>1, <2>2 DEF is_block_level
<1> QED BY <1>2, <1>3

\* A frame becomes a box, and its wrappers come before it.
LEMMA BoxIsFinished ==
  ASSUME BoxInv, FinishBox
  PROVE  BoxInv'
<1>1. /\ frames # <<>> /\ doc' = doc /\ root = 0 /\ Sound(doc, boxes, frames, 0)
  BY DEF FinishBox, BoxInv
<1>2. PICK frame : frame = finalize_kind(Head(frames), boxes)
  OBVIOUS
<1>3. PICK W : W = wrap_inline_runs(doc, boxes, frame.built, frame.style)
  OBVIOUS
<1>4. PICK x : x = Box(frame.node, frame.kind, frame.style, W.children)
  OBVIOUS
<1>5. /\ boxes' = Append(W.boxes, x)
      /\ \/ Tail(frames) = <<>> /\ frames' = <<>> /\ root' = Len(W.boxes) + 1
         \/ /\ Tail(frames) # <<>> /\ frames' = add_built(Tail(frames), Len(W.boxes) + 1)
            /\ root' = 0
  BY <1>1, <1>2, <1>3, <1>4 DEF FinishBox
<1>6. GoodFrame(boxes, frames[1]) /\ Head(frames) = frames[1]
  BY <1>1, LenProperties, EmptySeq DEF Sound, GoodFrames, IsSeq
<1>7. /\ frame.built = frames[1].built /\ frame.kind \in {"Inline", "Block"}
      /\ is_block_level(frame.kind) = (frame.style.display = "Block")
      /\ frame.kind = "Inline" => \A c \in Built(frames[1]) : ~ block_child(boxes, c)
  BY <1>2, <1>6, KindIsFinal
<1>8. WrapSound(doc, boxes, frames[1].built, W)
  <2>1. /\ IsSeq(boxes) /\ frames[1].built \in Seq(1 .. Len(boxes))
        /\ IsInjective(frames[1].built)
    BY <1>1, <1>6 DEF Sound, GoodBoxes, GoodFrame
  <2>2. W = wrap_inline_runs(doc, boxes, frames[1].built, frame.style)
    BY <1>3, <1>7
  <2> QED BY <2>1, <2>2, WrapIsSound
<1>9. /\ x.children = W.children /\ x.kind = frame.kind /\ x.style = frame.style
  BY <1>4 DEF Box
<1>10. Sound(doc, boxes', Tail(frames), Len(boxes')) /\ Len(boxes') # 0
  BY <1>1, <1>5, <1>7, <1>8, <1>9, FinishFrame
<1>11. Len(boxes') = Len(W.boxes) + 1
  <2>1. W.boxes \in Seq(ToSet(W.boxes))
    BY <1>8 DEF WrapSound, IsSeq
  <2>2. PICK S : S = ToSet(W.boxes) \cup {x}
    OBVIOUS
  <2>3. W.boxes \in Seq(S) /\ x \in S
    BY <2>1, <2>2, SeqMonotonic
  <2> QED BY <1>5, <2>3
<1>12. CASE Tail(frames) = <<>> /\ frames' = <<>> /\ root' = Len(W.boxes) + 1
  BY <1>1, <1>10, <1>11, <1>12 DEF BoxInv
<1>13. CASE /\ Tail(frames) # <<>> /\ frames' = add_built(Tail(frames), Len(W.boxes) + 1)
            /\ root' = 0
  <2>1. Sound(doc, boxes', add_built(Tail(frames), Len(boxes')), 0)
    BY <1>10, <1>13, AddBuilt
  <2> QED BY <1>1, <1>11, <1>13, <2>1 DEF BoxInv
<1> QED BY <1>5, <1>12, <1>13

\* The walk's specification, as layout's document steps take it.
BoxSpec == BoxInit /\ [][BuildStep]_boxVars

\* No boxes are sound boxes.
LEMMA BoxesStart == BoxInit => BoxInv
  BY NothingIsSound DEF BoxInit, BoxInv

\* Every step of the walk keeps the boxes sound.
LEMMA BoxesStep == BoxInv /\ [BuildStep]_boxVars => BoxInv'
<1> SUFFICES ASSUME BoxInv, [BuildStep]_boxVars PROVE BoxInv'
  OBVIOUS
<1>1. CASE BuildNothing
  <2>1. /\ doc' = doc /\ boxes' = <<EmptyPage>> /\ frames' = <<>> /\ root' = 1
    BY <1>1 DEF BuildNothing, Unstarted
  <2> QED BY <2>1, NothingIsSound DEF BoxInv
<1>2. CASE EnterRoot
  BY <1>2, RootIsEntered
<1>3. CASE VisitChild
  BY <1>3, ChildIsVisited
<1>4. CASE FinishBox
  BY <1>4, BoxIsFinished
<1>5. CASE UNCHANGED boxVars
  BY <1>5 DEF boxVars, BoxInv
<1> QED BY <1>1, <1>2, <1>3, <1>4, <1>5 DEF BuildStep

(* Whatever has an owner has one: if no two of a family of sets meet, an    *)
(* id is in one of them or in none.                                        *)
LEMMA AtMostOne ==
  ASSUME NEW S, NEW T, NEW id, \A a, b \in S : a # b => T[a] \cap T[b] = {}
  PROVE  /\ (\E a \in S : id \in T[a]) => Cardinality({a \in S : id \in T[a]}) = 1
         /\ (\A a \in S : id \notin T[a]) => Cardinality({a \in S : id \in T[a]}) = 0
<1>1. ASSUME NEW a \in S, id \in T[a] PROVE Cardinality({b \in S : id \in T[b]}) = 1
  <2>1. {b \in S : id \in T[b]} = {a}
    BY <1>1
  <2> QED BY <2>1, FS_Singleton
<1>2. ASSUME \A a \in S : id \notin T[a] PROVE Cardinality({b \in S : id \in T[b]}) = 0
  <2>1. {b \in S : id \in T[b]} = {}
    BY <1>2
  <2> QED BY <2>1, FS_EmptySet
<1> QED BY <1>1, <1>2

\* Who owns a box: the boxes and the frames, one of them or none.
LEMMA OwnersAre ==
  ASSUME BoxInv, NEW id \in DOMAIN boxes
  PROVE  \/ Owners(id) = 1 /\ id # root
         \/ Owners(id) = 0 /\ (id = root \/ BlankBox(doc, boxes[id]))
<1>1. /\ DOMAIN boxes = 1 .. Len(boxes) /\ DOMAIN frames = 1 .. Len(frames)
      /\ OneOwner(boxes, frames) /\ SomeOwner(doc, boxes, frames, root)
      /\ IsLoose(boxes, frames, root)
  BY LenProperties DEF BoxInv, Sound, GoodBoxes, GoodFrames, IsSeq
<1>2. PICK T : T = [b \in DOMAIN boxes |-> ToSet(boxes[b].children)]
  OBVIOUS
<1>3. PICK U : U = [f \in DOMAIN frames |-> ToSet(frames[f].built)]
  OBVIOUS
<1>4. PICK p : p = Cardinality({b \in DOMAIN boxes : id \in T[b]})
  OBVIOUS
<1>5. PICK q : q = Cardinality({f \in DOMAIN frames : id \in U[f]})
  OBVIOUS
<1>6. Owners(id) = p + q
  <2>1. {b \in DOMAIN boxes : id \in T[b]} = {b \in DOMAIN boxes : id \in ToSet(boxes[b].children)}
    BY <1>2
  <2>2. {f \in DOMAIN frames : id \in U[f]} = {f \in DOMAIN frames : id \in ToSet(frames[f].built)}
    BY <1>3
  <2> QED BY <1>4, <1>5, <2>1, <2>2 DEF Owners
<1>7. /\ \A a, b \in DOMAIN boxes : a # b => T[a] \cap T[b] = {}
      /\ \A f, g \in DOMAIN frames : f # g => U[f] \cap U[g] = {}
      /\ \A b \in DOMAIN boxes, f \in DOMAIN frames : T[b] \cap U[f] = {}
  BY <1>1, <1>2, <1>3 DEF OneOwner, Kids, Built
<1>8. /\ \/ \E b \in DOMAIN boxes : id \in T[b]
         \/ \E f \in DOMAIN frames : id \in U[f]
         \/ id = root \/ BlankBox(doc, boxes[id])
      /\ \A b \in DOMAIN boxes : root \notin T[b]
      /\ \A f \in DOMAIN frames : root \notin U[f]
  BY <1>1, <1>2, <1>3 DEF SomeOwner, IsLoose, Kids, Built
<1>9. CASE \E b \in DOMAIN boxes : id \in T[b]
  <2>1. p = 1
    BY <1>4, <1>7, <1>9, AtMostOne
  <2>2. \A f \in DOMAIN frames : id \notin U[f]
    BY <1>7, <1>9
  <2>3. q = 0
    BY <1>5, <1>7, <2>2, AtMostOne
  <2> QED BY <1>6, <1>8, <1>9, <2>1, <2>3
<1>10. CASE (\E f \in DOMAIN frames : id \in U[f]) /\ \A b \in DOMAIN boxes : id \notin T[b]
  <2>1. q = 1 /\ p = 0
    BY <1>4, <1>5, <1>7, <1>10, AtMostOne
  <2> QED BY <1>6, <1>8, <1>10, <2>1
<1>11. CASE (\A f \in DOMAIN frames : id \notin U[f]) /\ \A b \in DOMAIN boxes : id \notin T[b]
  <2>1. q = 0 /\ p = 0
    BY <1>4, <1>5, <1>7, <1>11, AtMostOne
  <2> QED BY <1>6, <1>8, <1>11, <2>1
<1> QED BY <1>9, <1>10, <1>11

\* A blank box is a blank run of one.
LEMMA BlankAlone ==
  ASSUME NEW d, NEW bs, NEW id, BlankBox(d, bs[id])
  PROVE  run_is_collapsible_whitespace(d, bs, <<id>>)
<1>1. \A i \in DOMAIN <<id>> : <<id>>[i] = id
  OBVIOUS
<1> QED BY <1>1 DEF run_is_collapsible_whitespace, BlankBox

\* A good box has children of one level, and an inline box has none that is a block.
LEMMA KindsOf ==
  ASSUME NEW bs, NEW x, GoodBox(bs, x), NEW Kinds,
         Kinds = {is_block_level(bs[c].kind) : c \in ToSet(x.children)}
  PROVE  Cardinality(Kinds) <= 1 /\ (x.kind = "Inline" => TRUE \notin Kinds)
<1>1. \/ \A c \in ToSet(x.children) : ~ is_block_level(bs[c].kind)
      \/ x.kind # "Inline" /\ \A c \in ToSet(x.children) : is_block_level(bs[c].kind)
  BY DEF GoodBox, Kids, block_child
<1>2. \A c : is_block_level(bs[c].kind) \in BOOLEAN
  BY DEF is_block_level
<1>3. \/ Kinds \subseteq {FALSE}
      \/ x.kind # "Inline" /\ Kinds \subseteq {TRUE}
  BY <1>1, <1>2, Zenon
<1>4. Kinds = {} \/ Kinds = {FALSE} \/ Kinds = {TRUE}
  BY <1>3
<1>5. Cardinality(Kinds) <= 1
  <2>1. Cardinality({}) = 0 /\ Cardinality({FALSE}) = 1 /\ Cardinality({TRUE}) = 1
    BY FS_EmptySet, FS_Singleton
  <2>2. Cardinality(Kinds) = 0 \/ Cardinality(Kinds) = 1
    BY <1>4, <2>1
  <2> QED BY <2>2
<1>6. x.kind = "Inline" => TRUE \notin Kinds
  BY <1>3
<1> QED BY <1>5, <1>6

\* What the run checks follows.
LEMMA SoundIsWellFormed == BoxInv => BoxesWellFormed
<1> SUFFICES ASSUME BoxInv PROVE BoxesWellFormed
  OBVIOUS
<1>1. DOMAIN boxes = 1 .. Len(boxes) /\ \A b \in 1 .. Len(boxes) : GoodBox(boxes, boxes[b])
  BY LenProperties DEF BoxInv, Sound, GoodBoxes, IsSeq
<1> SUFFICES ASSUME NEW id \in DOMAIN boxes
             PROVE
       /\ \/ Owners(id) = 1 /\ id # root
          \/ Owners(id) = 0 /\ (id = root \/ run_is_collapsible_whitespace(doc, boxes, <<id>>))
       /\ \/ is_block_level(boxes[id].kind) = (boxes[id].style.display = "Block")
          \/ boxes[id] = EmptyPage \/ boxes[id].kind = "LineBreak"
       /\ LET Kinds == {is_block_level(boxes[c].kind) : c \in ToSet(boxes[id].children)}
          IN  Cardinality(Kinds) <= 1 /\ (boxes[id].kind = "Inline" => TRUE \notin Kinds)
       /\ boxes[id].kind \in {"InlineText", "LineBreak"} => boxes[id].children = <<>>
  BY DEF BoxesWellFormed
<1>2. \/ Owners(id) = 1 /\ id # root
      \/ Owners(id) = 0 /\ (id = root \/ run_is_collapsible_whitespace(doc, boxes, <<id>>))
  BY OwnersAre, BlankAlone
<1>3. GoodBox(boxes, boxes[id])
  BY <1>1
<1>4. /\ \/ is_block_level(boxes[id].kind) = (boxes[id].style.display = "Block")
         \/ boxes[id] = EmptyPage \/ boxes[id].kind = "LineBreak"
      /\ boxes[id].kind \in {"InlineText", "LineBreak"} => boxes[id].children = <<>>
  BY <1>3 DEF GoodBox
<1>5. LET Kinds == {is_block_level(boxes[c].kind) : c \in ToSet(boxes[id].children)}
      IN  Cardinality(Kinds) <= 1 /\ (boxes[id].kind = "Inline" => TRUE \notin Kinds)
  BY <1>3, KindsOf
<1> QED BY <1>2, <1>4, <1>5

(* Whatever the document and its computed values are, at every step of the *)
(* walk each finished box but the root and dropped blank text has one      *)
(* parent, and no box mixes block-level and inline-level children.         *)
THEOREM BoxesStayWellFormed == BoxSpec => []BoxesWellFormed
<1>1. BoxInit => BoxInv
  BY BoxesStart
<1>2. BoxInv /\ [BuildStep]_boxVars => BoxInv'
  BY BoxesStep
<1>3. BoxInv => BoxesWellFormed
  BY SoundIsWellFormed
<1> QED BY <1>1, <1>2, <1>3, PTL DEF BoxSpec

(***************************************************************************)
(* Rectangles in each other.                                               *)
(***************************************************************************)
Extent == 0 .. MaxAu

\* Saturating arithmetic stays in the range.
LEMMA Saturates ==
  /\ \A n \in Int : clamp(n, -MaxAu - 1, MaxAu) \in Au
  /\ \A a, b \in Int : saturating_add(a, b) \in Au /\ saturating_sub(a, b) \in Au
  /\ Au \subseteq Int /\ Extent \subseteq Au
  /\ \A a, b \in Int : a >= b => saturating_sub(a, b) >= 0
<1>1. \A n \in Int : clamp(n, -MaxAu - 1, MaxAu) \in Au
  BY WidthAssumption DEF clamp, Au
<1>2. \A a, b \in Int : saturating_add(a, b) \in Au /\ saturating_sub(a, b) \in Au
  BY <1>1 DEF saturating_add, saturating_sub
<1>3. Au \subseteq Int /\ Extent \subseteq Au
  BY WidthAssumption DEF Au, Extent
<1>4. \A a, b \in Int : a >= b => saturating_sub(a, b) >= 0
  BY WidthAssumption DEF saturating_sub, clamp
<1> QED BY <1>1, <1>2, <1>3, <1>4

(* What is Inside must stay so when both are moved and one of them meets   *)
(* the edge of the range: true ends, not saturated ones, are compared.     *)
Fits(inner, outer) ==
  /\ inner \in Rect /\ outer \in Rect /\ inner.size >= 0
  /\ inner.size > 0 => /\ outer.origin <= inner.origin
                       /\ inner.origin + inner.size <= outer.origin + outer.size

LEMMA FitsIsInside ==
  ASSUME NEW inner, NEW outer, Fits(inner, outer)
  PROVE  Inside(inner, outer)
<1>1. /\ inner.origin \in Int /\ inner.size \in Int /\ outer.origin \in Int /\ outer.size \in Int
  BY Saturates DEF Fits, Rect
<1> QED BY <1>1, WidthAssumption DEF Fits, Inside, far_edge, saturating_add, clamp

LEMMA InsetFits ==
  ASSUME NEW r \in Rect, NEW sides, sides[1] \in Extent, sides[2] \in Extent
  PROVE  Fits(inset(r, sides), r)
<1> DEFINE o == saturating_add(r.origin, sides[1])
           s == saturating_sub(saturating_sub(r.size, sides[1]), sides[2])
<1>1. r.origin \in Au /\ r.size \in Au /\ r.origin \in Int /\ r.size \in Int
  BY Saturates DEF Rect
<1>2. sides[1] \in Int /\ sides[2] \in Int /\ sides[1] >= 0 /\ sides[2] >= 0
  BY DEF Extent
<1>3. o \in Au /\ s \in Au /\ o \in Int /\ s \in Int
  BY <1>1, <1>2, Saturates
<1>4. inset(r, sides) = [origin |-> o, size |-> Larger(s, 0)]
  BY DEF inset
<1>5. o <= r.origin + sides[1] /\ o >= r.origin
  BY <1>1, <1>2, WidthAssumption DEF saturating_add, clamp, Au
<1>6. s > 0 => s <= r.size - sides[1] - sides[2]
  BY <1>1, <1>2, WidthAssumption DEF saturating_sub, clamp, Au
<1> HIDE DEF o, s
<1>7. Larger(s, 0) \in Au /\ Larger(s, 0) >= 0 /\ (Larger(s, 0) > 0 => Larger(s, 0) = s)
  BY <1>3, WidthAssumption DEF Larger, Au
<1>8. inset(r, sides) \in Rect /\ inset(r, sides).origin = o /\ inset(r, sides).size = Larger(s, 0)
  BY <1>3, <1>4, <1>7 DEF Rect
<1> QED BY <1>1, <1>2, <1>3, <1>5, <1>6, <1>7, <1>8 DEF Fits

Moved(r, n) == [r EXCEPT !.origin = add(@, n)]

LEMMA MovedFits ==
  ASSUME NEW inner, NEW outer, Fits(inner, outer), NEW n \in Int
  PROVE  Fits(Moved(inner, n), Moved(outer, n))
<1>1. \A r \in Rect : /\ Moved(r, n) \in Rect /\ Moved(r, n).size = r.size
                      /\ Moved(r, n).origin = saturating_add(r.origin, n)
                      /\ r.origin \in Int /\ r.size \in Int
  BY Saturates DEF Rect, Moved, add
<1>2. ASSUME NEW a \in Int, NEW b \in Int, a <= b
      PROVE  /\ saturating_add(a, n) <= saturating_add(b, n)
             /\ saturating_add(b, n) - saturating_add(a, n) <= b - a
             /\ saturating_add(a, n) \in Int /\ saturating_add(b, n) \in Int
  BY <1>2, WidthAssumption DEF saturating_add, clamp
<1>3. inner \in Rect /\ outer \in Rect
  BY DEF Fits
<1>4. ASSUME inner.size > 0
      PROVE  /\ Moved(outer, n).origin <= Moved(inner, n).origin
             /\ Moved(inner, n).origin + inner.size <= Moved(outer, n).origin + outer.size
  BY <1>1, <1>2, <1>3, <1>4 DEF Fits
<1> QED BY <1>1, <1>3, <1>4 DEF Fits

(***************************************************************************)
(* What a style's lengths come to.                                         *)
(***************************************************************************)
IsLength(l) == (l.unit = "Px" => l.n \in Au) /\ (l.unit = "Percent" => l.n \in Int)
NonNegative(l) == (l.unit = "Px" => l.n \in Extent) /\ (l.unit = "Percent" => l.n \in Nat)

StyleKeys == {"display", "position", "size", "min_size", "max_size", "margin", "padding",
              "border_width", "border_solid", "box_sizing", "overflow", "offset", "background",
              "text"}
AllAround(s, a, i) ==
  /\ IsLength(s.margin[a][i]) /\ IsLength(s.offset[a][i])
  /\ NonNegative(s.padding[a][i]) /\ s.border_width[a][i] \in Extent
GoodStyle(s) ==
  /\ DOMAIN s = StyleKeys
  /\ \A a \in Axes : /\ IsLength(s.size[a]) /\ NonNegative(s.min_size[a]) /\ IsLength(s.max_size[a])
                     /\ \A i \in 1 .. 2 : AllAround(s, a, i)
  /\ s.text.line_height \in Au

\* A product by a percentage.
LEMMA PartOf ==
  ASSUME NEW n \in Int, NEW p \in Int
  PROVE  /\ mul_by_f32(n, p) \in Au
         /\ n >= 0 /\ p >= 0 => mul_by_f32(n, p) \in Extent
<1>1. PICK q : q = n * p
  OBVIOUS
<1>2. q \in Int /\ (n >= 0 /\ p >= 0 => q >= 0)
  BY <1>1
<1>3. \A m \in Int : m >= 0 => (2 * m + 100) \div 200 \in Nat
  OBVIOUS
<1>4. PICK r : r = IF q >= 0 THEN (2 * q + 100) \div 200 ELSE - ((2 * (- q) + 100) \div 200)
  OBVIOUS
<1>5. r \in Int /\ (q >= 0 => r >= 0)
  <2>1. q < 0 => (2 * (- q) + 100) \div 200 \in Nat
    BY <1>2, <1>3
  <2>2. q >= 0 => (2 * q + 100) \div 200 \in Nat
    BY <1>2, <1>3
  <2> QED BY <1>2, <1>4, <2>1, <2>2
<1>6. mul_by_f32(n, p) = clamp(r, -MaxAu - 1, MaxAu)
  BY <1>1, <1>4 DEF mul_by_f32
<1>7. r >= 0 => clamp(r, -MaxAu - 1, MaxAu) \in Extent
  BY <1>5, WidthAssumption DEF clamp, Extent
<1> QED BY <1>2, <1>5, <1>6, <1>7, Saturates

\* What a length comes to.
LEMMA LengthResolves ==
  ASSUME NEW l, IsLength(l), NEW n \in Int
  PROVE  resolve_len_zero(l, n) \in Au
<1>1. 0 \in Au
  BY WidthAssumption DEF Au
<1> QED BY <1>1, PartOf DEF IsLength, resolve_len_zero

LEMMA LengthResolvesUp ==
  ASSUME NEW l, NonNegative(l), NEW n \in Extent
  PROVE  resolve_len_zero(l, n) \in Extent
<1>1. 0 \in Extent /\ n \in Int /\ n >= 0
  BY WidthAssumption DEF Extent
<1>2. l.unit = "Percent" => l.n \in Int /\ l.n >= 0
  BY DEF NonNegative
<1> QED BY <1>1, <1>2, PartOf DEF NonNegative, resolve_len_zero

LEMMA NonNegativeIsLength ==
  ASSUME NEW l, NonNegative(l)
  PROVE  IsLength(l)
<1>1. \A n \in Extent : n \in Au
  BY Saturates
<1>2. \A n \in Nat : n \in Int
  OBVIOUS
<1> QED BY <1>1, <1>2 DEF NonNegative, IsLength

\* What the style adapter makes of a computed value.
LEMMA LengthAdapts ==
  ASSUME NEW v
  PROVE  /\ Fitting(v, Au, Int) => /\ IsLength(adapt_size(v)) /\ IsLength(adapt_max_size(v))
                                   /\ IsLength(adapt_margin(v)) /\ IsLength(adapt_inset(v))
         /\ Fitting(v, 0 .. MaxAu, Nat) =>
              /\ NonNegative(adapt_size(v))
              /\ v.key \in LengthPercentage => NonNegative(adapt_length_percentage(v))
BY DEF Fitting, IsLength, NonNegative, adapt_size, adapt_max_size, adapt_margin, adapt_inset,
       adapt_length_percentage, LengthPercentage, Percent, Px, AutoLength, Unbounded, Extent

LEMMA LineHeightAdapts ==
  ASSUME NEW cv, IsComputed(cv)
  PROVE  adapt_line_height(cv.text.line_height, cv.text.size) \in Au
<1>1. cv.text.size \in Int /\ NORMAL_LINE_HEIGHT_RATIO \in Int
  <2>1. cv.text.size \in Au /\ \A n \in Au : n \in Int
    BY Saturates DEF IsComputed
  <2> QED BY <2>1 DEF NORMAL_LINE_HEIGHT_RATIO
<1>2. /\ mul_by_f32(cv.text.size, NORMAL_LINE_HEIGHT_RATIO) \in Au
      /\ \A p \in Int : mul_by_f32(cv.text.size, p) \in Au
  BY <1>1, PartOf
<1> QED BY <1>2 DEF IsComputed, adapt_line_height, normal_line_height

LEMMA AdaptedIsGood ==
  ASSUME NEW cv, IsComputed(cv)
  PROVE  GoodStyle(adapt(cv))
<1>1. DOMAIN adapt(cv) = StyleKeys
  BY DEF adapt, StyleKeys
<1>2. adapt(cv).text.line_height \in Au
  BY LineHeightAdapts DEF adapt, adapt_text
<1>3. ASSUME NEW a \in Axes
      PROVE  /\ IsLength(adapt(cv).size[a]) /\ NonNegative(adapt(cv).min_size[a])
             /\ IsLength(adapt(cv).max_size[a])
  <2>1. /\ adapt(cv).size[a] = adapt_size(cv.size[a])
        /\ adapt(cv).min_size[a] = adapt_size(cv.min_size[a])
        /\ adapt(cv).max_size[a] = adapt_max_size(cv.max_size[a])
    BY DEF adapt
  <2>2. /\ Fitting(cv.size[a], Au, Int) /\ Fitting(cv.max_size[a], Au, Int)
        /\ Fitting(cv.min_size[a], 0 .. MaxAu, Nat)
    BY DEF IsComputed
  <2> QED BY <2>1, <2>2, LengthAdapts
<1>4. ASSUME NEW a \in Axes, NEW i \in 1 .. 2 PROVE AllAround(adapt(cv), a, i)
  <2>1. /\ adapt(cv).margin[a][i] = adapt_margin(cv.margin[a][i])
        /\ adapt(cv).offset[a][i] = adapt_inset(cv.inset[a][i])
        /\ adapt(cv).padding[a][i] = adapt_length_percentage(cv.padding[a][i])
        /\ adapt(cv).border_width[a][i] \in {0, cv.border_width[a][i]}
    BY DEF adapt, adapt_border_side
  <2>2. /\ Fitting(cv.margin[a][i], Au, Int) /\ Fitting(cv.inset[a][i], Au, Int)
        /\ cv.padding[a][i].key \in LengthPercentage
        /\ Fitting(cv.padding[a][i], 0 .. MaxAu, Nat)
        /\ cv.border_width[a][i] \in 0 .. MaxAu
    BY DEF IsComputed
  <2>3. adapt(cv).border_width[a][i] \in Extent
    BY <2>1, <2>2, WidthAssumption DEF Extent
  <2> QED BY <2>1, <2>2, <2>3, LengthAdapts DEF AllAround
<1> QED BY <1>1, <1>2, <1>3, <1>4 DEF GoodStyle

\* The styles that no element has.
LEMMA InitialIsGood ==
  /\ GoodStyle(initial)
  /\ \A s : GoodStyle(s) => GoodStyle(anonymous_block(s)) /\ GoodStyle(inherited_text_style(s))
<1>1. DOMAIN initial = StyleKeys
  BY DEF initial, StyleKeys
<1>2. ASSUME NEW a \in Axes
      PROVE  /\ IsLength(initial.size[a]) /\ NonNegative(initial.min_size[a])
             /\ IsLength(initial.max_size[a])
  BY DEF initial, Both, AutoLength, Unbounded, IsLength, NonNegative, Axes
<1>3. ASSUME NEW a \in Axes, NEW i \in 1 .. 2 PROVE AllAround(initial, a, i)
  BY WidthAssumption DEF initial, Uniform, Both, AutoLength, Px, IsLength, NonNegative, Axes, AllAround,
     Extent, Au
<1>4. initial.text.line_height \in Au
  BY PartOf DEF initial, InitialText, normal_line_height, NORMAL_LINE_HEIGHT_RATIO
<1>5. ASSUME NEW s, GoodStyle(s), NEW t, t \in {anonymous_block(s), inherited_text_style(s)}
      PROVE  GoodStyle(t)
  <2>1. /\ DOMAIN t = StyleKeys /\ t.size = initial.size /\ t.min_size = initial.min_size
        /\ t.max_size = initial.max_size /\ t.margin = initial.margin
        /\ t.padding = initial.padding /\ t.border_width = initial.border_width
        /\ t.offset = initial.offset /\ t.text = s.text
    BY <1>1, <1>5 DEF anonymous_block, inherited_text_style, StyleKeys
  <2>2. \A a \in Axes, i \in 1 .. 2 : AllAround(t, a, i)
    BY <1>3, <2>1 DEF AllAround
  <2> QED BY <1>2, <1>5, <2>1, <2>2 DEF GoodStyle
<1> QED BY <1>1, <1>2, <1>3, <1>4, <1>5 DEF GoodStyle

\* Becoming a block changes nothing else.
LEMMA BlockifiedIsGood ==
  ASSUME NEW s, GoodStyle(s)
  PROVE  GoodStyle([s EXCEPT !.display = "Block"])
<1>1. PICK t : t = [s EXCEPT !.display = "Block"]
  OBVIOUS
<1>2. /\ DOMAIN t = StyleKeys /\ t.size = s.size /\ t.min_size = s.min_size
      /\ t.max_size = s.max_size /\ t.margin = s.margin
      /\ t.padding = s.padding /\ t.border_width = s.border_width
      /\ t.offset = s.offset /\ t.text = s.text
  BY <1>1 DEF GoodStyle, StyleKeys
<1>3. \A a \in Axes, i \in 1 .. 2 : AllAround(t, a, i)
  BY <1>2 DEF AllAround, GoodStyle
<1>4. GoodStyle(t)
  BY <1>2, <1>3 DEF GoodStyle
<1> QED BY <1>1, <1>4

\* An Option of a number in the range.
MaybeAu(option)     == option # None => option[1] \in Au
MaybeExtent(option) == option # None => option[1] \in Extent

GoodModel(m) ==
  /\ \A a \in Axes, i \in 1 .. 2 : m.padding[a][i] \in Extent /\ m.border[a][i] \in Extent
  /\ m.content_width \in Extent /\ m.min_height \in Extent
  /\ m.margin_left \in Au /\ \A i \in 1 .. 2 : m.margins[i] \in Au
  /\ MaybeAu(m.max_height) /\ MaybeExtent(m.known_height)

\* Sums and choices stay in the range.
LEMMA InRange ==
  /\ 0 \in Extent /\ 0 \in Au
  /\ \A a, b \in Au : /\ add(a, b) \in Au /\ saturating_sub(a, b) \in Au
                      /\ Larger(a, b) \in Au /\ Larger(saturating_sub(a, b), 0) \in Extent
                      /\ a \in Int
  /\ \A a \in Au : Larger(a, 0) \in Extent
  /\ \A a \in Extent : a \in Au
<1>1. 0 \in Extent /\ 0 \in Au
  BY WidthAssumption DEF Extent, Au
<1>2. \A a \in Au : Larger(a, 0) \in Extent /\ a \in Int
  BY WidthAssumption DEF Larger, Extent, Au
<1>3. \A a \in Extent : a \in Au
  BY Saturates
<1>4. \A a, b \in Au : saturating_sub(a, b) \in Au /\ add(a, b) \in Au
  BY <1>2, Saturates DEF add
<1>5. \A a, b \in Au : Larger(a, b) \in Au
  BY DEF Larger
<1> QED BY <1>1, <1>2, <1>3, <1>4, <1>5

\* A content size within its bounds.
LEMMA SizeIsClamped ==
  ASSUME NEW v \in Au, NEW least \in Extent, NEW most, MaybeAu(most)
  PROVE  clamp_au(v, least, most) \in Extent
<1>1. PICK m : m = most[1]
  OBVIOUS
<1>2. most # None => m \in Au
  BY <1>1 DEF MaybeAu
<1>3. /\ v \in Int /\ least \in Int /\ least >= 0 /\ least <= MaxAu /\ v <= MaxAu
      /\ most # None => m \in Int /\ m <= MaxAu
  BY <1>2, WidthAssumption DEF Au, Extent
<1>4. Larger(v, least) \in Extent
  BY <1>3, WidthAssumption DEF Larger, Extent
<1>5. most # None => Smaller(Larger(v, least), Larger(m, least)) \in Extent
  BY <1>3, WidthAssumption DEF Larger, Smaller, Extent
<1> QED BY <1>1, <1>4, <1>5 DEF clamp_au

LEMMA LengthIsUsed ==
  ASSUME NEW l, IsLength(l), NEW n \in Au, NEW style, NEW around \in Au
  PROVE  /\ used_length(l, n, style, around) \in Au
         /\ NonNegative(l) /\ n \in Extent => used_length(l, n, style, around) \in Extent
<1>1. PICK r : r = resolve_len_zero(l, n)
  OBVIOUS
<1>2. n \in Int
  BY InRange
<1>3. r \in Au /\ (NonNegative(l) /\ n \in Extent => r \in Extent)
  BY <1>1, <1>2, LengthResolves, LengthResolvesUp
<1>4. Larger(saturating_sub(r, around), 0) \in Extent
  BY <1>3, InRange
<1>5. used_length(l, n, style, around) \in {r, Larger(saturating_sub(r, around), 0)}
  BY <1>1 DEF used_length, used_content_size
<1> QED BY <1>3, <1>4, <1>5, InRange

LEMMA BoundsAreGood ==
  ASSUME NEW style, GoodStyle(style), NEW a \in Axes, NEW n \in Extent, NEW around \in Au
  PROVE  /\ size_bounds(style, a, n, around).least \in Extent
         /\ MaybeAu(size_bounds(style, a, n, around).most)
<1>1. NonNegative(style.min_size[a]) /\ IsLength(style.min_size[a]) /\ IsLength(style.max_size[a])
  BY NonNegativeIsLength DEF GoodStyle
<1>2. n \in Au
  BY InRange
<1>3. /\ used_length(style.min_size[a], n, style, around) \in Extent
      /\ used_length(style.max_size[a], n, style, around) \in Au
  BY <1>1, <1>2, LengthIsUsed
<1> QED BY <1>3 DEF size_bounds, MaybeAu, Some

LEMMA MarginsAreShared ==
  ASSUME NEW p, NEW q, NEW l \in Au, NEW r \in Au, NEW free \in Au
  PROVE  auto_margins(p, q, l, r, free)[1] \in Au
<1>1. free >= 0 => free \div 2 \in Au
  BY WidthAssumption DEF Au
<1>2. saturating_sub(free, r) \in Au /\ 0 \in Au
  BY InRange
<1>3. \/ auto_margins(p, q, l, r, free)[1] \in {l, 0, saturating_sub(free, r)}
      \/ free >= 0 /\ auto_margins(p, q, l, r, free)[1] = free \div 2
  BY DEF auto_margins
<1> QED BY <1>1, <1>2, <1>3

\* resolve_width_and_margins: the width and the left margin.
LEMMA WidthIsGood ==
  ASSUME NEW style, GoodStyle(style), NEW w \in Extent, NEW around \in Au,
         NEW margins, margins[1] \in Au, margins[2] \in Au,
         NEW t, t = tentative_width(style, w, around, margins)
  PROVE  /\ bounded_width(style, w, around, margins, t).width \in Extent
         /\ bounded_width(style, w, around, margins, t).margins[1] \in Au
<1>1. w \in Au /\ "x" \in Axes
  BY InRange DEF Axes
<1>2. t \in Au
  <2>1. IsLength(style.size.x)
    BY <1>1 DEF GoodStyle
  <2>2. used_length(style.size.x, w, style, around) \in Au
    BY <1>1, <2>1, LengthIsUsed
  <2>3. saturating_sub(w, margins[1]) \in Au
    BY <1>1, InRange
  <2>4. saturating_sub(saturating_sub(w, margins[1]), around) \in Au
    BY <2>3, InRange
  <2>5. Larger(saturating_sub(saturating_sub(saturating_sub(w, margins[1]), around), margins[2]), 0)
          \in Au
    BY <2>4, InRange
  <2> QED BY <2>2, <2>5 DEF tentative_width
<1>3. PICK b : b = size_bounds(style, "x", w, around)
  OBVIOUS
<1>4. b.least \in Extent /\ MaybeAu(b.most)
  BY <1>1, <1>3, BoundsAreGood
<1>5. PICK width : width = clamp_to(t, b)
  OBVIOUS
<1>6. width \in Extent
  BY <1>2, <1>4, <1>5, SizeIsClamped DEF clamp_to
<1>7. PICK free : free = saturating_sub(w, add(around, width))
  OBVIOUS
<1>8. free \in Au
  <2>1. width \in Au
    BY <1>6, InRange
  <2>2. add(around, width) \in Au
    BY <2>1, InRange
  <2> QED BY <1>1, <1>7, <2>2, InRange
<1>9. /\ bounded_width(style, w, around, margins, t).width = width
      /\ bounded_width(style, w, around, margins, t).margins \in
           {margins, auto_margins(style.margin.x[1] = AutoLength, style.margin.x[2] = AutoLength,
                                  margins[1], margins[2], free)}
  BY <1>3, <1>5, <1>7 DEF bounded_width, side_margins
<1> QED BY <1>6, <1>8, <1>9, MarginsAreShared

LEMMA SidesAreSummed ==
  ASSUME NEW padding, NEW border, \A i \in 1 .. 2 : padding[i] \in Extent /\ border[i] \in Extent
  PROVE  non_content(padding, border) \in Au
<1>1. padding[1] \in Au /\ padding[2] \in Au /\ border[1] \in Au /\ border[2] \in Au
  <2>1. \A i \in 1 .. 2 : padding[i] \in Au /\ border[i] \in Au
    BY InRange
  <2> QED BY <2>1
<1>2. \A a, b \in Au : add(a, b) \in Au
  BY InRange
<1> HIDE DEF Au
<1> QED BY <1>1, <1>2 DEF non_content

\* resolve_height: a height that is asked for.
LEMMA HeightIsGood ==
  ASSUME NEW style, GoodStyle(style), NEW h, MaybeAu(h), NEW around \in Au
  PROVE  MaybeAu(resolve_height(style, h, around))
<1>1. IsLength(style.size.y) /\ unwrap_or(h, 0) \in Au
  BY InRange DEF GoodStyle, Axes, MaybeAu, unwrap_or
<1>2. used_length(style.size.y, unwrap_or(h, 0), style, around) \in Au
  BY <1>1, LengthIsUsed
<1> QED BY <1>2 DEF resolve_height, MaybeAu, Some

\* The box model of a good style is a good one.
LEMMA ModelIsGood ==
  ASSUME NEW style, GoodStyle(style), NEW w \in Extent, NEW h, MaybeExtent(h)
  PROVE  GoodModel(resolve_box_model(style, w, h))
<1>1. PICK padding : padding = [a \in Axes |->
                                 [i \in 1 .. 2 |-> resolve_len_zero(style.padding[a][i], w)]]
  OBVIOUS
<1>2. \A a \in Axes, i \in 1 .. 2 : /\ padding[a][i] \in Extent
                                     /\ style.border_width[a][i] \in Extent
  <2> TAKE a \in Axes, i \in 1 .. 2
  <2>1. NonNegative(style.padding[a][i]) /\ style.border_width[a][i] \in Extent
    BY DEF GoodStyle, AllAround
  <2>2. resolve_len_zero(style.padding[a][i], w) \in Extent
    BY <2>1, LengthResolvesUp
  <2> QED BY <1>1, <2>1, <2>2
<1>3. PICK around : around = non_content(padding.y, style.border_width.y)
  OBVIOUS
<1>4. PICK across : across = resolve_width_and_margins(style, w, padding.x, style.border_width.x)
  OBVIOUS
<1>5. PICK bounds : bounds = size_bounds(style, "y", unwrap_or(h, 0), around)
  OBVIOUS
<1>6. PICK height : height = resolve_height(style, h, around)
  OBVIOUS
<1>7. around \in Au /\ non_content(padding.x, style.border_width.x) \in Au
  BY <1>2, <1>3, SidesAreSummed DEF Axes
<1>8. across.width \in Extent /\ across.margins[1] \in Au
  <2>1. PICK margins : margins = [i \in 1 .. 2 |-> resolve_len_zero(style.margin.x[i], w)]
    OBVIOUS
  <2>2. margins[1] \in Au /\ margins[2] \in Au
    <3>1. \A i \in 1 .. 2 : IsLength(style.margin.x[i])
      BY DEF GoodStyle, AllAround, Axes
    <3>2. w \in Int
      BY InRange
    <3> QED BY <2>1, <3>1, <3>2, LengthResolves
  <2>3. PICK x : x = non_content(padding.x, style.border_width.x)
    OBVIOUS
  <2>4. PICK t : t = tentative_width(style, w, x, margins)
    OBVIOUS
  <2>5. across = bounded_width(style, w, x, margins, t)
    BY <1>4, <2>1, <2>3, <2>4 DEF resolve_width_and_margins, width_between
  <2> QED BY <1>7, <2>2, <2>3, <2>4, <2>5, WidthIsGood
<1>9. bounds.least \in Extent /\ MaybeAu(bounds.most)
  <2>1. unwrap_or(h, 0) \in Extent /\ "y" \in Axes
    BY InRange DEF unwrap_or, Axes, MaybeExtent
  <2> QED BY <1>5, <1>7, <2>1, BoundsAreGood
<1>10. MaybeAu(height)
  <2>1. MaybeAu(h)
    BY InRange DEF MaybeAu, MaybeExtent
  <2> QED BY <1>6, <1>7, <2>1, HeightIsGood
<1>11. height # None => clamp_to(height[1], bounds) \in Extent
  BY <1>9, <1>10, SizeIsClamped DEF MaybeAu, clamp_to
<1>12. \A i \in 1 .. 2 : resolve_len_zero(style.margin.y[i], w) \in Au
  <2>1. \A i \in 1 .. 2 : IsLength(style.margin.y[i])
    BY DEF GoodStyle, AllAround, Axes
  <2>2. w \in Int
    BY InRange
  <2> QED BY <2>1, <2>2, LengthResolves
<1>13. PICK m : m = box_model_of(style, w, padding, across, bounds, height)
  OBVIOUS
<1>14. resolve_box_model(style, w, h) = m
  BY <1>1, <1>3, <1>4, <1>5, <1>6, <1>13
     DEF resolve_box_model, padded_box_model, box_model_within
<1>15. /\ m.padding = padding /\ m.border = style.border_width /\ m.content_width = across.width
       /\ m.min_height = bounds.least /\ m.max_height = bounds.most
       /\ m.margin_left = across.margins[1]
       /\ \A i \in 1 .. 2 : m.margins[i] = resolve_len_zero(style.margin.y[i], w)
       /\ m.known_height = IF height = None THEN None ELSE Some(clamp_to(height[1], bounds))
  BY <1>13 DEF box_model_of
<1>16. MaybeExtent(m.known_height)
  BY <1>11, <1>15 DEF MaybeExtent, Some
<1>17. GoodModel(m)
  BY <1>2, <1>8, <1>9, <1>12, <1>15, <1>16 DEF GoodModel
<1> QED BY <1>14, <1>17

(***************************************************************************)
(* Sequences of whatever they hold, and what stands where in them.         *)
(***************************************************************************)
LEMMA OwnLen ==
  ASSUME NEW s, IsSeq(s)
  PROVE  /\ Len(s) \in Nat /\ DOMAIN s = 1 .. Len(s)
         /\ s = <<>> <=> Len(s) = 0
         /\ \A S : ToSet(s) \subseteq S => s \in Seq(S)
         /\ \A i \in 1 .. Len(s) : s[i] \in ToSet(s)
BY LenProperties, EmptySeq, SeqMonotonic DEF IsSeq, ToSet

LEMMA OwnAppend ==
  ASSUME NEW s, IsSeq(s), NEW x, NEW t, t = Append(s, x)
  PROVE  /\ IsSeq(t) /\ Len(t) = Len(s) + 1 /\ t[Len(s) + 1] = x
         /\ \A i \in 1 .. Len(s) : t[i] = s[i]
<1>1. PICK S : S = ToSet(s) \cup {x}
  OBVIOUS
<1>2. s \in Seq(S) /\ x \in S
  BY <1>1, OwnLen
<1>3. /\ t \in Seq(S) /\ Len(t) = Len(s) + 1 /\ t[Len(s) + 1] = x
      /\ \A i \in 1 .. Len(s) : t[i] = s[i]
  BY ONLY <1>2, t = Append(s, x), AppendProperties
<1>4. IsSeq(t)
  BY ONLY <1>3, OwnSeq
<1> QED BY <1>3, <1>4

LEMMA OwnJoined ==
  ASSUME NEW s, IsSeq(s), NEW t, IsSeq(t), NEW u, u = s \o t
  PROVE  /\ IsSeq(u) /\ Len(u) = Len(s) + Len(t)
         /\ \A i \in 1 .. Len(s) : u[i] = s[i]
         /\ \A i \in 1 .. Len(t) : u[Len(s) + i] = t[i]
<1>1. PICK S : S = ToSet(s) \cup ToSet(t)
  OBVIOUS
<1>2. s \in Seq(S) /\ t \in Seq(S)
  BY <1>1, OwnLen
<1>3. u \in Seq(S) /\ IsSeq(u)
  BY <1>2, Joined, OwnSeq
<1> QED BY ONLY <1>2, <1>3, u = s \o t, Joined

LEMMA OwnOne ==
  ASSUME NEW x
  PROVE  IsSeq(<<x>>) /\ Len(<<x>>) = 1 /\ <<x>>[1] = x
<1>1. <<x>> \in Seq({x})
  OBVIOUS
<1> QED BY <1>1, OwnSeq

LEMMA OwnTail ==
  ASSUME NEW s, IsSeq(s), s # <<>>
  PROVE  /\ IsSeq(Tail(s)) /\ Len(Tail(s)) = Len(s) - 1
         /\ \A i \in 1 .. Len(s) - 1 : Tail(s)[i] = s[i + 1]
         /\ Head(s) = s[1] /\ 1 \in 1 .. Len(s)
<1>1. s \in Seq(ToSet(s)) /\ Len(s) \in Nat \ {0}
  BY EmptySeq DEF IsSeq
<1>2. Head(s) = s[1]
  BY <1>1
<1>3. /\ Tail(s) \in Seq(ToSet(s)) /\ Len(Tail(s)) = Len(s) - 1
      /\ \A i \in 1 .. Len(Tail(s)) : Tail(s)[i] = s[i + 1]
  BY ONLY <1>1, s # <<>>, HeadTailProperties
<1>4. IsSeq(Tail(s))
  BY <1>3, OwnSeq
<1> QED BY <1>1, <1>2, <1>3, <1>4

\* A sequence with another first.
Topped(s, x) == [s EXCEPT ![1] = x]
LEMMA OwnFirst ==
  ASSUME NEW s, IsSeq(s), s # <<>>, NEW x, NEW t, t = Topped(s, x)
  PROVE  /\ IsSeq(t) /\ Len(t) = Len(s) /\ t # <<>> /\ t[1] = x
         /\ \A j \in 1 .. Len(s) : j # 1 => t[j] = s[j]
<1>1. PICK S : S = ToSet(s) \cup {x}
  OBVIOUS
<1>2. s \in Seq(S) /\ x \in S /\ 1 \in 1 .. Len(s)
  BY <1>1, OwnLen, OwnTail
<1>3. /\ t \in Seq(S) /\ Len(t) = Len(s)
      /\ \A j \in 1 .. Len(s) : t[j] = IF j = 1 THEN x ELSE s[j]
  BY ONLY <1>2, t = Topped(s, x), ExceptSeq DEF Topped
<1>4. IsSeq(t)
  BY <1>3, OwnSeq
<1>5. t # <<>>
  BY <1>3, <1>4, OwnLen
<1> QED BY <1>2, <1>3, <1>4, <1>5

\* A function on the first numbers is a sequence.
LEMMA OwnFunction ==
  ASSUME NEW n \in Nat, NEW f, f = [i \in 1 .. n |-> f[i]]
  PROVE  IsSeq(f) /\ Len(f) = n
<1>1. f \in [1 .. n -> ToSet(f)]
  BY DEF ToSet
<1> QED BY <1>1 DEF IsSeq

(***************************************************************************)
(* The boxes' styles.                                                      *)
(***************************************************************************)
StyledBox(d, x) == GoodStyle(x.style) /\ (x.kind = "InlineText" => x.node \in DOMAIN d.children)
StyledFrame(d, f) == GoodStyle(f.style) /\ f.todo \in Seq(DOMAIN d.children)
StyledPage(d, bs, fs) ==
  /\ IsDocument(d)
  /\ \A b \in 1 .. Len(bs) : StyledBox(d, bs[b])
  /\ \A f \in 1 .. Len(fs) : StyledFrame(d, fs[f])
StyleInv == StyledPage(doc, boxes, frames)

LEMMA ComputedIsGood ==
  ASSUME NEW d, IsDocument(d), NEW n \in DOMAIN d.children
  PROVE  /\ GoodStyle(computed_or_initial(d, n))
         /\ d.computed[n] # NoStyle => GoodStyle(adapt(d.computed[n]))
BY AdaptedIsGood, InitialIsGood DEF IsDocument, computed_or_initial

\* The root element is a node.
LEMMA RootIsANode ==
  ASSUME NEW d, IsDocument(d), root_element(d) # 0
  PROVE  root_element(d) \in DOMAIN d.children
<1>1. PICK E : E = {i \in DOMAIN d.children[1] : d.kind[d.children[1][i]] = "Element"}
  OBVIOUS
<1>2. E # {} /\ root_element(d) = d.children[1][nth(E, 1)]
  BY <1>1 DEF root_element
<1>3. /\ d.children[1] \in Seq(DOMAIN d.children) /\ Len(d.children[1]) \in Nat
      /\ DOMAIN d.children[1] = 1 .. Len(d.children[1])
  BY LenProperties DEF IsDocument
<1>4. \A i \in E : i \in 1 .. Len(d.children[1])
  BY <1>1, <1>3
<1>5. Cardinality(E) \in Nat /\ Cardinality(E) # 0
  BY <1>2, <1>3, <1>4, RankEnds, FS_EmptySet
<1>6. nth(E, 1) \in E
  <2>1. 1 \in 1 .. Cardinality(E)
    BY <1>5
  <2> QED BY <1>3, <1>4, <2>1, NthIsMember
<1> QED BY <1>2, <1>3, <1>4, <1>6, ElementOfSeq

LEMMA FrameIsStyled ==
  ASSUME IsDocument(doc), NEW n \in DOMAIN doc.children, NEW style, GoodStyle(style)
  PROVE  StyledFrame(doc, Frame(n, style))
<1>1. Frame(n, style).style = style /\ Frame(n, style).todo = doc.children[n]
  BY DEF Frame
<1> QED BY <1>1 DEF StyledFrame, IsDocument

\* What a child becomes has a good style.
LEMMA ChildIsStyled ==
  ASSUME NEW d, IsDocument(d), NEW n \in DOMAIN d.children, NEW s, GoodStyle(s),
         NEW c, c = classify_child(d, n, s)
  PROVE  c.is \in {"Leaf", "Container"} => GoodStyle(c.style)
<1>1. GoodStyle(inherited_text_style(s))
  BY InitialIsGood
<1>2. d.computed[n] # NoStyle => GoodStyle(adapt(d.computed[n]))
  BY ComputedIsGood
<1> HIDE DEF GoodStyle
<1> QED BY <1>1, <1>2 DEF classify_child, classify_element, Skip, Leaf, Container

\* The wrappers are styled.
LEMMA WrapIsStyled ==
  ASSUME NEW d, NEW bs, IsSeq(bs), NEW built \in Seq(1 .. Len(bs)), NEW style, GoodStyle(style),
         \A b \in 1 .. Len(bs) : StyledBox(d, bs[b]),
         NEW W, W = wrap_inline_runs(d, bs, built, style)
  PROVE  \A b \in 1 .. Len(W.boxes) : StyledBox(d, W.boxes[b])
<1> DEFINE Blocks == {i \in DOMAIN built : block_child(bs, built[i])}
           Inlines == DOMAIN built \ Blocks
           Wrapped == {i \in Inlines : /\ i = 1 \/ i - 1 \in Blocks
                                       /\ ~ run_is_collapsible_whitespace(d, bs, run_from(bs, built, i))}
<1>1. CASE Blocks = {} \/ Inlines = {}
  <2>1. W.boxes = bs
    BY <1>1 DEF wrap_inline_runs
  <2> QED BY <2>1
<1>2. CASE ~ (Blocks = {} \/ Inlines = {})
  <2>1. W.boxes = Wrappings(bs, built, style, Wrapped)
    BY <1>2 DEF wrap_inline_runs, Wrappings, Wrapper
  <2>2. StartsIn(bs, built, Wrapped)
    <3>1. \A i \in DOMAIN built : i # 1 /\ i - 1 \in Blocks => block_child(bs, built[i - 1])
      OBVIOUS
    <3>2. \A i \in DOMAIN built : i \notin Blocks => ~ block_child(bs, built[i])
      OBVIOUS
    <3> QED BY <3>1, <3>2 DEF StartsIn
  <2>3. PICK V : V = Wrapped
    OBVIOUS
  <2> HIDE DEF Wrapped
  <2>4. PICK m : m = Cardinality(V)
    OBVIOUS
  <2>5. /\ Len(W.boxes) = Len(bs) + m /\ Len(bs) \in Nat /\ m \in Nat
        /\ \A b \in 1 .. Len(bs) : W.boxes[b] = bs[b]
        /\ \A k \in 1 .. m : W.boxes[Len(bs) + k] = Wrapper(bs, built, style, nth(V, k))
    BY <2>1, <2>2, <2>3, <2>4, WrappersAre
  <2>6. \A i : StyledBox(d, Wrapper(bs, built, style, i))
    <3>1. GoodStyle(anonymous_block(style))
      BY InitialIsGood
    <3>2. \A i : /\ Wrapper(bs, built, style, i).kind = "AnonymousBlock"
                 /\ Wrapper(bs, built, style, i).style = anonymous_block(style)
      BY DEF Wrapper, Box
    <3> QED BY <3>1, <3>2 DEF StyledBox
  <2>7. \A b \in 1 .. Len(bs) + m : b \in 1 .. Len(bs) \/ \E k \in 1 .. m : b = Len(bs) + k
    <3> TAKE b \in 1 .. Len(bs) + m
    <3>1. b \notin 1 .. Len(bs) => b - Len(bs) \in 1 .. m /\ b = Len(bs) + (b - Len(bs))
      BY <2>5
    <3> QED BY <3>1
  <2>8. \A b \in 1 .. Len(bs) + m : StyledBox(d, W.boxes[b])
    BY <2>5, <2>6, <2>7
  <2> QED BY <2>5, <2>8
<1> QED BY <1>1, <1>2

LEMMA StylesStart == BoxInit => StyleInv
<1> SUFFICES ASSUME BoxInit PROVE StyleInv
  OBVIOUS
<1>1. IsDocument(doc)
  BY DocumentAssumption DEF BoxInit
<1>2. boxes = <<>> /\ frames = <<>> /\ Len(<<>>) = 0
  BY EmptySeq DEF BoxInit
<1> QED BY <1>1, <1>2 DEF StyleInv, StyledPage

\* The frames' tops as the steps leave them.
LEMMA TopIsTaken ==
  ASSUME NEW d, NEW bs, NEW fs, GoodFrames(bs, fs), fs # <<>>,
         \A f \in 1 .. Len(fs) : StyledFrame(d, fs[f]),
         fs[1].todo # <<>>, NEW gs, gs = [fs EXCEPT ![1].todo = Tail(@)]
  PROVE  /\ IsSeq(gs) /\ gs # <<>> /\ \A f \in 1 .. Len(gs) : StyledFrame(d, gs[f])
         /\ "built" \in DOMAIN gs[1]
<1>1. IsSeq(fs) /\ Len(fs) \in Nat /\ 1 \in 1 .. Len(fs)
  BY OwnLen DEF GoodFrames
<1>2. GoodFrame(bs, fs[1]) /\ StyledFrame(d, fs[1])
  BY <1>1 DEF GoodFrames
<1>3. PICK top : top = [fs[1] EXCEPT !.todo = Tail(@)]
  OBVIOUS
<1>4. gs = Topped(fs, top)
  BY <1>3 DEF Topped
<1>5. /\ IsSeq(gs) /\ Len(gs) = Len(fs) /\ gs[1] = top
      /\ \A j \in 1 .. Len(fs) : j # 1 => gs[j] = fs[j]
  BY ONLY <1>1, <1>4, fs # <<>>, OwnFirst
<1>6. top.style = fs[1].style /\ top.todo = Tail(fs[1].todo) /\ "built" \in DOMAIN top
  BY <1>2, <1>3 DEF GoodFrame
<1>7. Tail(fs[1].todo) \in Seq(DOMAIN d.children)
  BY <1>2, HeadTailProperties DEF StyledFrame
<1>8. StyledFrame(d, top)
  BY <1>2, <1>6, <1>7 DEF StyledFrame
<1>9. gs # <<>>
  BY <1>1, <1>5, OwnLen
<1> QED BY <1>5, <1>6, <1>8, <1>9

LEMMA TopHasBuilt ==
  ASSUME NEW d, NEW fs, IsSeq(fs), fs # <<>>, "built" \in DOMAIN fs[1],
         \A f \in 1 .. Len(fs) : StyledFrame(d, fs[f]),
         NEW id, NEW gs, gs = add_built(fs, id)
  PROVE  \A f \in 1 .. Len(gs) : StyledFrame(d, gs[f])
<1>1. Len(fs) \in Nat /\ 1 \in 1 .. Len(fs)
  BY OwnLen
<1>3. PICK top : top = [fs[1] EXCEPT !.built = Append(@, id)]
  OBVIOUS
<1>4. gs = Topped(fs, top)
  BY <1>3 DEF add_built, Topped
<1>5. /\ IsSeq(gs) /\ Len(gs) = Len(fs) /\ gs[1] = top
      /\ \A j \in 1 .. Len(fs) : j # 1 => gs[j] = fs[j]
  BY ONLY <1>1, <1>4, IsSeq(fs), fs # <<>>, OwnFirst
<1>6. top.style = fs[1].style /\ top.todo = fs[1].todo
  BY <1>3
<1>8. StyledFrame(d, top)
  BY <1>1, <1>6 DEF StyledFrame
<1> QED BY <1>5, <1>8

LEMMA FrameOnTop ==
  ASSUME NEW d, NEW fs, IsSeq(fs), \A f \in 1 .. Len(fs) : StyledFrame(d, fs[f]),
         NEW x, StyledFrame(d, x), NEW gs, gs = <<x>> \o fs
  PROVE  \A f \in 1 .. Len(gs) : StyledFrame(d, gs[f])
<1>1. IsSeq(<<x>>) /\ Len(<<x>>) = 1 /\ <<x>>[1] = x /\ Len(fs) \in Nat
  BY OwnOne, OwnLen
<1>2. PICK t : t = <<x>> /\ IsSeq(t) /\ Len(t) = 1 /\ t[1] = x
  BY <1>1
<1>3. Len(gs) = 1 + Len(fs) /\ gs[1] = x /\ \A i \in 1 .. Len(fs) : gs[1 + i] = fs[i]
  BY <1>2, OwnJoined
<1>4. ASSUME NEW f \in 1 .. Len(gs) PROVE StyledFrame(d, gs[f])
  <2>1. f # 1 => f - 1 \in 1 .. Len(fs) /\ 1 + (f - 1) = f
    BY <1>1, <1>3
  <2> QED BY <1>3, <2>1
<1> QED BY <1>4

LEMMA BoxAppended ==
  ASSUME NEW d, NEW bs, IsSeq(bs), \A b \in 1 .. Len(bs) : StyledBox(d, bs[b]),
         NEW x, StyledBox(d, x), NEW cs, cs = Append(bs, x)
  PROVE  \A b \in 1 .. Len(cs) : StyledBox(d, cs[b])
<1>1. /\ Len(bs) \in Nat /\ Len(cs) = Len(bs) + 1 /\ cs[Len(bs) + 1] = x
      /\ \A i \in 1 .. Len(bs) : cs[i] = bs[i]
  BY OwnLen, OwnAppend
<1>2. \A b \in 1 .. Len(cs) : b = Len(bs) + 1 \/ b \in 1 .. Len(bs)
  BY <1>1
<1> QED BY <1>1, <1>2

LEMMA VisitIsStyled ==
  ASSUME BoxInv, StyleInv, VisitChild
  PROVE  StyleInv'
<1>1. PICK node : node = Head(Head(frames).todo)
  OBVIOUS
<1>2. PICK rest : rest = [frames EXCEPT ![1].todo = Tail(@)]
  OBVIOUS
<1>3. PICK child : child = classify_child(doc, node, Head(frames).style)
  OBVIOUS
<1>4. /\ IsDocument(doc) /\ IsSeq(boxes) /\ GoodFrames(boxes, frames) /\ IsSeq(frames)
      /\ \A b \in 1 .. Len(boxes) : StyledBox(doc, boxes[b])
      /\ \A f \in 1 .. Len(frames) : StyledFrame(doc, frames[f])
  BY DEF BoxInv, StyleInv, StyledPage, Sound, GoodBoxes, GoodFrames
<1>5. frames # <<>> /\ Head(frames).todo # <<>> /\ doc' = doc
  BY DEF VisitChild
<1>6. Head(frames) = frames[1] /\ 1 \in 1 .. Len(frames)
  BY <1>4, <1>5, OwnTail
<1>7. StyledFrame(doc, frames[1])
  BY <1>4, <1>6
<1>8. node \in DOMAIN doc.children /\ GoodStyle(frames[1].style)
  BY <1>1, <1>5, <1>6, <1>7, HeadTailProperties DEF StyledFrame
<1>9. child.is \in {"Leaf", "Container"} => GoodStyle(child.style)
  BY <1>3, <1>4, <1>6, <1>8, ChildIsStyled
<1>10. /\ IsSeq(rest) /\ rest # <<>> /\ \A f \in 1 .. Len(rest) : StyledFrame(doc, rest[f])
       /\ "built" \in DOMAIN rest[1]
  BY <1>2, <1>4, <1>5, <1>6, TopIsTaken
<1>11. \/ child.is = "Skip" /\ frames' = rest /\ boxes' = boxes
       \/ /\ child.is = "Leaf" /\ boxes' = Append(boxes, Box(node, child.kind, child.style, <<>>))
          /\ frames' = add_built(rest, Len(boxes'))
       \/ /\ child.is = "Container" /\ boxes' = boxes
          /\ frames' = <<Frame(node, child.style)>> \o rest
  <2>1. child.is \in {"Skip", "Leaf", "Container"}
    BY <1>3 DEF classify_child, classify_element, Skip, Leaf, Container
  <2> QED BY <1>1, <1>2, <1>3, <2>1 DEF VisitChild
<1>12. CASE child.is = "Skip" /\ frames' = rest /\ boxes' = boxes
  BY <1>4, <1>5, <1>10, <1>12 DEF StyleInv, StyledPage
<1>13. CASE /\ child.is = "Leaf" /\ boxes' = Append(boxes, Box(node, child.kind, child.style, <<>>))
            /\ frames' = add_built(rest, Len(boxes'))
  <2>1. PICK x : x = Box(node, child.kind, child.style, <<>>)
    OBVIOUS
  <2>2. StyledBox(doc, x)
    BY <1>8, <1>9, <1>13, <2>1 DEF Box, StyledBox
  <2>3. \A b \in 1 .. Len(boxes') : StyledBox(doc, boxes'[b])
    BY <1>4, <1>13, <2>1, <2>2, BoxAppended
  <2>4. \A f \in 1 .. Len(frames') : StyledFrame(doc, frames'[f])
    BY <1>10, <1>13, TopHasBuilt
  <2> QED BY <1>4, <1>5, <2>3, <2>4 DEF StyleInv, StyledPage
<1>14. CASE /\ child.is = "Container" /\ boxes' = boxes
            /\ frames' = <<Frame(node, child.style)>> \o rest
  <2>1. PICK x : x = Frame(node, child.style)
    OBVIOUS
  <2>2. StyledFrame(doc, x)
    BY <1>4, <1>8, <1>9, <1>14, <2>1, FrameIsStyled
  <2>4. \A f \in 1 .. Len(frames') : StyledFrame(doc, frames'[f])
    BY <1>10, <1>14, <2>1, <2>2, FrameOnTop
  <2> QED BY <1>4, <1>5, <1>14, <2>4 DEF StyleInv, StyledPage
<1> QED BY <1>11, <1>12, <1>13, <1>14

LEMMA FinishIsStyled ==
  ASSUME BoxInv, StyleInv, FinishBox
  PROVE  StyleInv'
<1>2. PICK frame : frame = finalize_kind(Head(frames), boxes)
  OBVIOUS
<1>3. PICK W : W = wrap_inline_runs(doc, boxes, frame.built, frame.style)
  OBVIOUS
<1>4. PICK x : x = Box(frame.node, frame.kind, frame.style, W.children)
  OBVIOUS
<1>5. /\ frames # <<>> /\ doc' = doc /\ boxes' = Append(W.boxes, x)
      /\ \/ Tail(frames) = <<>> /\ frames' = <<>>
         \/ Tail(frames) # <<>> /\ frames' = add_built(Tail(frames), Len(W.boxes) + 1)
  BY <1>2, <1>3, <1>4 DEF FinishBox
<1>6. /\ IsDocument(doc) /\ IsSeq(boxes) /\ GoodFrames(boxes, frames) /\ IsSeq(frames)
      /\ \A b \in 1 .. Len(boxes) : StyledBox(doc, boxes[b])
      /\ \A f \in 1 .. Len(frames) : StyledFrame(doc, frames[f])
  BY DEF BoxInv, StyleInv, StyledPage, Sound, GoodBoxes, GoodFrames
<1>7. /\ Head(frames) = frames[1] /\ 1 \in 1 .. Len(frames)
      /\ GoodFrame(boxes, frames[1]) /\ StyledFrame(doc, frames[1])
  BY <1>5, <1>6, OwnTail DEF GoodFrames
<1>8. frame.built = frames[1].built /\ frame.kind \in {"Inline", "Block"} /\ GoodStyle(frame.style)
  <2>1. frame.built = frames[1].built /\ frame.kind \in {"Inline", "Block"}
    BY <1>2, <1>7, KindIsFinal
  <2>2. GoodStyle(frames[1].style) /\ GoodStyle([frames[1].style EXCEPT !.display = "Block"])
    BY <1>7, BlockifiedIsGood DEF StyledFrame
  <2>3. frame.style \in {frames[1].style, [frames[1].style EXCEPT !.display = "Block"]}
    BY <1>2, <1>7 DEF finalize_kind, GoodFrame
  <2> QED BY <2>1, <2>2, <2>3
<1>9. IsSeq(W.boxes) /\ \A b \in 1 .. Len(W.boxes) : StyledBox(doc, W.boxes[b])
  <2>1. frame.built \in Seq(1 .. Len(boxes)) /\ IsInjective(frame.built)
    BY <1>7, <1>8 DEF GoodFrame
  <2>2. WrapSound(doc, boxes, frame.built, W)
    BY <1>3, <1>6, <2>1, WrapIsSound
  <2> QED BY <1>3, <1>6, <1>8, <2>1, <2>2, WrapIsStyled DEF WrapSound
<1>10. StyledBox(doc, x)
  BY <1>4, <1>8 DEF StyledBox, Box
<1>11. \A b \in 1 .. Len(boxes') : StyledBox(doc, boxes'[b])
  BY <1>5, <1>9, <1>10, BoxAppended
<1>12. \A f \in 1 .. Len(frames') : StyledFrame(doc, frames'[f])
  <2>1. CASE frames' = <<>>
    BY <2>1, EmptySeq
  <2>2. CASE Tail(frames) # <<>> /\ frames' = add_built(Tail(frames), Len(W.boxes) + 1)
    <3>1. PICK gs : gs = Tail(frames)
      OBVIOUS
    <3>2. /\ IsSeq(gs) /\ gs # <<>> /\ Len(gs) = Len(frames) - 1 /\ Len(frames) \in Nat
          /\ \A i \in 1 .. Len(frames) - 1 : gs[i] = frames[i + 1]
      BY <1>5, <1>6, <2>2, <3>1, OwnTail, OwnLen
    <3>3. \A i \in 1 .. Len(gs) : StyledFrame(doc, gs[i]) /\ GoodFrame(boxes, gs[i])
      BY <1>6, <3>2 DEF GoodFrames
    <3>4. "built" \in DOMAIN gs[1]
      <4>1. 1 \in 1 .. Len(gs)
        BY <3>2, OwnTail
      <4> QED BY <3>3, <4>1 DEF GoodFrame
    <3> QED BY <2>2, <3>1, <3>2, <3>3, <3>4, TopHasBuilt
  <2> QED BY <1>5, <2>1, <2>2
<1> QED BY <1>5, <1>6, <1>11, <1>12 DEF StyleInv, StyledPage

\* Every step of the walk keeps the styles good.
LEMMA StylesStep == BoxInv /\ StyleInv /\ [BuildStep]_boxVars => StyleInv'
<1> SUFFICES ASSUME BoxInv, StyleInv, [BuildStep]_boxVars PROVE StyleInv'
  OBVIOUS
<1>1. CASE BuildNothing
  <2>1. doc' = doc /\ frames' = <<>> /\ boxes' = <<EmptyPage>> /\ Len(<<>>) = 0
    BY <1>1, EmptySeq DEF BuildNothing, Unstarted
  <2>2. StyledBox(doc, EmptyPage)
    BY InitialIsGood DEF EmptyPage, Box, StyledBox
  <2>3. Len(<<EmptyPage>>) = 1 /\ <<EmptyPage>>[1] = EmptyPage
    BY OwnOne
  <2> QED BY <2>1, <2>2, <2>3 DEF StyleInv, StyledPage
<1>2. CASE EnterRoot
  <2>1. PICK x : x = Frame(root_element(doc), computed_or_initial(doc, root_element(doc)))
    OBVIOUS
  <2>2. /\ frames' = <<x>> /\ doc' = doc /\ boxes' = boxes /\ root_element(doc) # 0
        /\ IsDocument(doc)
    BY <1>2, <2>1 DEF EnterRoot, NoBoxes, StyleInv, StyledPage
  <2>3. StyledFrame(doc, x)
    BY <2>1, <2>2, RootIsANode, ComputedIsGood, FrameIsStyled
  <2>4. Len(<<x>>) = 1 /\ <<x>>[1] = x
    BY OwnOne
  <2> QED BY <2>2, <2>3, <2>4 DEF StyleInv, StyledPage
<1>3. CASE VisitChild
  BY <1>3, VisitIsStyled
<1>4. CASE FinishBox
  BY <1>4, FinishIsStyled
<1>5. CASE UNCHANGED boxVars
  BY <1>5 DEF boxVars, StyleInv
<1> QED BY <1>1, <1>2, <1>3, <1>4, <1>5 DEF BuildStep

(***************************************************************************)
(* Steps repeated some number of times.                                    *)
(***************************************************************************)
LEMMA Upwards ==
  ASSUME NEW n \in Nat, NEW G, 0 \in G, \A k \in 1 .. n : k - 1 \in G => k \in G
  PROVE  n \in G /\ \A k \in 0 .. n : k \in G
<1> DEFINE Bad == {k \in 0 .. n : k \notin G}
<1> SUFFICES ASSUME Bad # {} PROVE FALSE
  <2>1. n \in 0 .. n
    OBVIOUS
  <2> QED BY <2>1
<1>1. PICK k \in Bad : \A i \in Bad : k <= i
  <2>1. Bad \in SUBSET Nat
    OBVIOUS
  <2> QED BY <2>1, LeastNatural
<1>2. k # 0 /\ k \in 1 .. n /\ k - 1 \in 0 .. n
  BY <1>1
<1>3. k - 1 \in G
  BY <1>1, <1>2
<1> QED BY <1>1, <1>2, <1>3

Repeats(g, S, b, n, F) ==
  g \in [0 .. n -> S] /\ g[0] = b /\ \A k \in 1 .. n : g[k] = F[k][g[k - 1]]

\* One step more.
LEMMA OnceMore ==
  ASSUME NEW S, NEW b, NEW m \in Nat \ {0}, NEW F, F[m] \in [S -> S],
         NEW f, Repeats(f, S, b, m - 1, F)
  PROVE  \E g : Repeats(g, S, b, m, F)
<1>1. /\ f \in [0 .. m - 1 -> S] /\ f[0] = b
      /\ \A k \in 1 .. m - 1 : f[k] = F[k][f[k - 1]]
  BY DEF Repeats
<1>2. m - 1 \in Nat /\ m - 1 \in 0 .. m - 1
  OBVIOUS
<1>3. PICK v : v = F[m][f[m - 1]]
  OBVIOUS
<1>4. v \in S
  BY <1>1, <1>2, <1>3
<1>5. PICK g : g = [k \in 0 .. m |-> IF k = m THEN v ELSE f[k]]
  OBVIOUS
<1>6. \A k \in 0 .. m : k # m => k \in 0 .. m - 1
  OBVIOUS
<1>7. g \in [0 .. m -> S]
  BY <1>1, <1>4, <1>5, <1>6
<1>8. g[0] = b
  BY <1>1, <1>5
<1>9. ASSUME NEW k \in 1 .. m PROVE g[k] = F[k][g[k - 1]]
  <2>1. k - 1 \in 0 .. m - 1 /\ k - 1 # m /\ k \in 0 .. m /\ k - 1 \in 0 .. m
    OBVIOUS
  <2>2. k # m => k \in 1 .. m - 1
    OBVIOUS
  <2>3. g[k - 1] = f[k - 1]
    BY <1>5, <2>1
  <2>4. g[k] = IF k = m THEN v ELSE f[k]
    BY <1>5, <2>1
  <2> QED BY <1>1, <1>3, <2>2, <2>3, <2>4
<1> QED BY <1>7, <1>8, <1>9 DEF Repeats

LEMMA CanRepeat ==
  ASSUME NEW S, NEW b \in S, NEW n \in Nat, NEW F \in [1 .. n -> [S -> S]]
  PROVE  \E g : Repeats(g, S, b, n, F)
<1>1. PICK G : G = {m \in 0 .. n : \E g : Repeats(g, S, b, m, F)}
  OBVIOUS
<1>2. 0 \in G
  <2>1. PICK g : g = [k \in 0 .. 0 |-> b]
    OBVIOUS
  <2>2. Repeats(g, S, b, 0, F)
    BY <2>1 DEF Repeats
  <2> QED BY <1>1, <2>2
<1>3. ASSUME NEW m \in 1 .. n, m - 1 \in G PROVE m \in G
  <2>1. PICK f : Repeats(f, S, b, m - 1, F)
    BY <1>1, <1>3
  <2>2. m \in Nat \ {0} /\ F[m] \in [S -> S]
    OBVIOUS
  <2>3. \E g : Repeats(g, S, b, m, F)
    BY ONLY <2>1, <2>2, OnceMore
  <2> QED BY <1>1, <2>3
<1>4. n \in G
  BY ONLY <1>2, <1>3, n \in Nat, Upwards
<1> QED BY <1>1, <1>4

\* A set of numbers in a range has a greatest and a least one.
LEMMA Extremes ==
  ASSUME NEW lo \in Int, NEW hi \in Int, NEW T, T \subseteq lo .. hi, T # {}
  PROVE  Max(T) \in T /\ Min(T) \in T
<1>1. \E x \in T : \A y \in T : x <= y
  <2>1. PICK D : D = {x - lo : x \in T}
    OBVIOUS
  <2>2. D \in SUBSET Nat /\ D # {}
    <3>1. \A x \in T : x - lo \in Nat
      OBVIOUS
    <3> QED BY <2>1, <3>1
  <2>3. PICK d \in D : \A e \in D : d <= e
    BY <2>2, LeastNatural
  <2>4. PICK x \in T : d = x - lo
    BY <2>1
  <2>5. \A y \in T : y - lo \in D
    BY <2>1
  <2>6. \A y \in T : x - lo <= y - lo
    BY <2>3, <2>4, <2>5
  <2>7. \A y \in T : x <= y
    BY <2>6
  <2> QED BY <2>7
<1>2. \E x \in T : \A y \in T : x >= y
  <2>1. PICK D : D = {hi - x : x \in T}
    OBVIOUS
  <2>2. D \in SUBSET Nat /\ D # {}
    <3>1. \A x \in T : hi - x \in Nat
      OBVIOUS
    <3> QED BY <2>1, <3>1
  <2>3. PICK d \in D : \A e \in D : d <= e
    BY <2>2, LeastNatural
  <2>4. PICK x \in T : d = hi - x
    BY <2>1
  <2>5. \A y \in T : hi - y \in D
    BY <2>1
  <2>6. \A y \in T : hi - x <= hi - y
    BY <2>3, <2>4, <2>5
  <2>7. \A y \in T : x >= y
    BY <2>6
  <2> QED BY <2>7
<1> QED BY <1>1, <1>2 DEF Max, Min

\* The members of a set of positions in order.
LEMMA InOrder ==
  ASSUME NEW n \in Nat, NEW S, \A i \in S : i \in 1 .. n, NEW s, s = in_order(S)
  PROVE  /\ IsSeq(s) /\ Len(s) = Cardinality(S) /\ \A k \in 1 .. Len(s) : s[k] \in S
         /\ \A j, k \in 1 .. Len(s) : j < k => s[j] < s[k]
<1>1. PICK m : m = Cardinality(S)
  OBVIOUS
<1>2. m \in Nat
  BY <1>1, RankEnds
<1>3. s = [k \in 1 .. m |-> nth(S, k)]
  BY <1>1 DEF in_order
<1>4. IsSeq(s) /\ Len(s) = m
  <2>1. s = [k \in 1 .. m |-> s[k]]
    BY <1>3
  <2> QED BY <1>2, <2>1, OwnFunction
<1>5. \A k \in 1 .. m : s[k] \in S /\ Rank(S, s[k]) = k - 1
  <2> TAKE k \in 1 .. m
  <2>1. k \in 1 .. Cardinality(S)
    BY <1>1
  <2>2. nth(S, k) \in S /\ Rank(S, nth(S, k)) = k - 1
    BY <2>1, NthIsMember
  <2> QED BY <1>3, <2>2
<1>6. ASSUME NEW j \in 1 .. m, NEW k \in 1 .. m, j < k PROVE s[j] < s[k]
  <2>1. s[j] \in Int /\ s[k] \in Int
    BY <1>5
  <2>2. s[k] <= s[j] => Rank(S, s[k]) <= Rank(S, s[j])
    BY <2>1, RankGrows
  <2> QED BY <1>5, <1>6, <2>1, <2>2
<1> QED BY <1>1, <1>4, <1>5, <1>6

\* Sequences one after the other are a sequence.
Flattening(h, ss) == h = [i \in 1 .. Len(ss) |-> IF i = 1 THEN ss[i] ELSE h[i - 1] \o ss[i]]
LEMMA FlatIsSeq ==
  ASSUME NEW ss, IsSeq(ss), \A i \in 1 .. Len(ss) : IsSeq(ss[i])
  PROVE  IsSeq(FlattenSeq(ss))
<1>1. PICK n : n = Len(ss) /\ n \in Nat
  BY OwnLen
<1>2. CASE n = 0
  BY <1>1, <1>2 DEF FlattenSeq
<1>3. CASE n # 0
  <2>1. PICK U : U = UNION {ToSet(ss[i]) : i \in 1 .. n}
    OBVIOUS
  <2>2. \A i \in 1 .. n : ss[i] \in Seq(U)
    <3> TAKE i \in 1 .. n
    <3>1. ToSet(ss[i]) \subseteq U
      BY <2>1
    <3> QED BY <1>1, <3>1, OwnLen
  <2>3. PICK F : F = [k \in 1 .. n - 1 |-> [s \in Seq(U) |-> s \o ss[k + 1]]]
    OBVIOUS
  <2>4. F \in [1 .. n - 1 -> [Seq(U) -> Seq(U)]]
    <3>1. \A k \in 1 .. n - 1, s \in Seq(U) : s \o ss[k + 1] \in Seq(U)
      <4> TAKE k \in 1 .. n - 1, s \in Seq(U)
      <4>1. k + 1 \in 1 .. n
        BY <1>1
      <4> QED BY <2>2, <4>1, ConcatProperties
    <3> QED BY <2>3, <3>1
  <2>5. ss[1] \in Seq(U) /\ n - 1 \in Nat
    BY <1>1, <1>3, <2>2
  <2>6. PICK g \in [0 .. n - 1 -> Seq(U)] : g[0] = ss[1] /\ \A k \in 1 .. n - 1 : g[k] = F[k][g[k - 1]]
    <3>1. PICK g : Repeats(g, Seq(U), ss[1], n - 1, F)
      BY ONLY <2>4, <2>5, CanRepeat
    <3> QED BY <3>1 DEF Repeats
  <2>7. PICK f : f = [i \in 1 .. n |-> g[i - 1]]
    OBVIOUS
  <2>8. \A i \in 1 .. n : f[i] = IF i = 1 THEN ss[i] ELSE f[i - 1] \o ss[i]
    <3> TAKE i \in 1 .. n
    <3>1. CASE i = 1
      BY <2>5, <2>6, <2>7, <3>1
    <3>2. CASE i # 1
      <4>1. PICK k : k = i - 1
        OBVIOUS
      <4>2. k \in 1 .. n - 1 /\ k \in 1 .. n /\ k + 1 = i /\ k - 1 \in 0 .. n - 1
        BY <1>1, <3>2, <4>1
      <4>3. f[i] = g[k] /\ f[k] = g[k - 1]
        BY <2>7, <4>1, <4>2
      <4>4. g[k] = g[k - 1] \o ss[k + 1]
        BY <2>3, <2>6, <4>2
      <4> QED BY <3>2, <4>1, <4>2, <4>3, <4>4
    <3> QED BY <3>1, <3>2
  <2>9. Flattening(f, ss)
    <3>1. f = [i \in 1 .. n |-> f[i]]
      BY <2>7
    <3> QED BY <1>1, <2>8, <3>1 DEF Flattening
  <2>10. PICK h : h = CHOOSE x : Flattening(x, ss)
    OBVIOUS
  <2>11. Flattening(h, ss)
    BY <2>9, <2>10, Zenon
  <2>12. FlattenSeq(ss) = h[n]
    <3>1. h = CHOOSE x : x = [i \in 1 .. Len(ss) |-> IF i = 1 THEN ss[i] ELSE x[i - 1] \o ss[i]]
      BY <2>10, Zenon DEF Flattening
    <3> QED BY <1>1, <1>3, <3>1 DEF FlattenSeq
  <2>13. \A k \in 1 .. n : h[k] = IF k = 1 THEN ss[k] ELSE h[k - 1] \o ss[k]
    BY <1>1, <2>11 DEF Flattening
  <2>14. PICK G : G = {k \in 0 .. n - 1 : h[k + 1] \in Seq(U)}
    OBVIOUS
  <2>15. 0 \in G
    BY <2>5, <2>13, <2>14, <1>1
  <2>16. \A k \in 1 .. n - 1 : k - 1 \in G => k \in G
    <3> TAKE k \in 1 .. n - 1
    <3> HAVE k - 1 \in G
    <3>1. k + 1 \in 1 .. n /\ k + 1 # 1 /\ k + 1 - 1 = k /\ k - 1 + 1 = k
      BY <1>1
    <3>2. h[k] \in Seq(U)
      BY <2>14, <3>1
    <3>3. h[k + 1] = h[k] \o ss[k + 1]
      <4>1. PICK j : j = k + 1
        OBVIOUS
      <4>2. j \in 1 .. n /\ j # 1 /\ j - 1 = k
        BY <3>1, <4>1
      <4> QED BY <2>13, <4>1, <4>2
    <3>4. h[k + 1] \in Seq(U)
      BY <2>2, <3>1, <3>2, <3>3, ConcatProperties
    <3> QED BY <2>14, <3>1, <3>4
  <2>17. n - 1 \in G
    BY ONLY <2>5, <2>15, <2>16, Upwards
  <2>18. h[n] \in Seq(U)
    BY <1>1, <2>14, <2>17
  <2> QED BY <2>12, <2>18, OwnSeq
<1> QED BY <1>2, <1>3

(***************************************************************************)
(* Margins.                                                                *)
(***************************************************************************)
BoxIds == 1 .. Len(boxes)

\* The boxes once the walk is done.
BoxesDone ==
  /\ IsSeq(boxes)
  /\ \A b \in BoxIds : GoodBox(boxes, boxes[b]) /\ StyledBox(doc, boxes[b])

GoodMemo(known) == DOMAIN known = BoxIds /\ \A id \in BoxIds : MaybeAu(known[id])

LEMMA MarginsCollapse ==
  ASSUME NEW T, T \subseteq Au
  PROVE  collapse_margin_set(T) \in Au
<1>1. PICK U : U = T \cup {0}
  OBVIOUS
<1>2. U \subseteq -MaxAu - 1 .. MaxAu /\ U # {} /\ -MaxAu - 1 \in Int /\ MaxAu \in Int /\ U \subseteq Au
  BY <1>1, InRange, WidthAssumption DEF Au
<1>3. Max(U) \in U /\ Min(U) \in U
  BY ONLY <1>2, Extremes
<1>4. Max(U) \in Au /\ Min(U) \in Au
  BY <1>2, <1>3
<1>5. add(Max(U), Min(U)) \in Au
  BY ONLY <1>4, InRange
<1> QED BY <1>1, <1>5 DEF collapse_margin_set

\* The first or last child of a box is one.
LEMMA EdgeIsABox ==
  ASSUME BoxesDone, NEW id \in BoxIds, NEW side, edge_block_child(id, side) # 0
  PROVE  edge_block_child(id, side) \in BoxIds
<1>1. PICK c : c = boxes[id].children
  OBVIOUS
<1>2. c \in Seq(BoxIds)
  BY <1>1 DEF BoxesDone, GoodBox, BoxIds
<1>3. c # <<>> => c[1] \in BoxIds /\ c[Len(c)] \in BoxIds
  <2> SUFFICES ASSUME c # <<>> PROVE c[1] \in BoxIds /\ c[Len(c)] \in BoxIds
    OBVIOUS
  <2>1. 1 \in 1 .. Len(c) /\ Len(c) \in 1 .. Len(c)
    BY <1>2, EmptySeq
  <2> QED BY <1>2, <2>1, ElementOfSeq
<1> QED BY <1>1, <1>3 DEF edge_block_child

Link      == [id : BoxIds, margin : Au]
LinkState == {s \in [chain : Seq(Link), eligible : BOOLEAN, width : Extent] : s.chain # <<>>}

LEMMA LinkIsGood ==
  ASSUME BoxesDone, NEW id \in BoxIds, NEW side \in 1 .. 2, NEW model, GoodModel(model),
         NEW chain \in Seq(Link)
  PROVE  linked(side, id, model, chain) \in LinkState
<1>1. model.margins[side] \in Au /\ model.content_width \in Extent
  BY DEF GoodModel
<1>2. PICK x : x = [id |-> id, margin |-> model.margins[side]]
  OBVIOUS
<1>3. x \in Link
  BY <1>1, <1>2 DEF Link
<1>4. Append(chain, x) \in Seq(Link) /\ Append(chain, x) # <<>>
  BY <1>3, AppendProperties
<1>5. PICK e : e = margin_passes(side, boxes[id].style, model)
  OBVIOUS
<1>6. e \in BOOLEAN
  BY <1>5 DEF margin_passes, margin_passes_top, margin_passes_bottom
<1>7. linked(side, id, model, chain)
        = [chain |-> Append(chain, x), eligible |-> e, width |-> model.content_width]
  BY <1>2, <1>5 DEF linked
<1> QED BY <1>1, <1>4, <1>6, <1>7 DEF LinkState

LEMMA NextLinkIsGood ==
  ASSUME BoxesDone, NEW side \in 1 .. 2, NEW known, NEW s \in LinkState
  PROVE  next_link(side, known, s) \in LinkState
<1>1. s.chain \in Seq(Link) /\ s.chain # <<>> /\ s.width \in Extent
  BY DEF LinkState
<1>2. PICK last : last = s.chain[Len(s.chain)].id
  OBVIOUS
<1>3. last \in BoxIds
  <2>1. Len(s.chain) \in 1 .. Len(s.chain)
    BY <1>1, EmptySeq
  <2>2. s.chain[Len(s.chain)] \in Link
    BY <1>1, <2>1, ElementOfSeq
  <2> QED BY <1>2, <2>2 DEF Link
<1>4. PICK child : child = edge_block_child(last, side)
  OBVIOUS
<1>5. PICK model : model = resolve_box_model(boxes[child].style, s.width, None)
  OBVIOUS
<1>6. next_link(side, known, s) \in {s, linked(side, child, model, s.chain)}
      /\ (child = 0 => next_link(side, known, s) = s)
  BY <1>2, <1>4, <1>5 DEF next_link
<1>7. CASE child = 0
  BY <1>6, <1>7
<1>8. CASE child # 0
  <2>1. child \in BoxIds
    BY <1>3, <1>4, <1>8, EdgeIsABox
  <2>2. GoodStyle(boxes[child].style) /\ MaybeExtent(None)
    BY <2>1 DEF BoxesDone, StyledBox, MaybeExtent
  <2>3. GoodModel(model)
    BY <1>1, <1>5, <2>2, ModelIsGood
  <2>4. linked(side, child, model, s.chain) \in LinkState
    BY <1>1, <2>1, <2>3, LinkIsGood
  <2> QED BY <1>6, <2>4
<1> QED BY <1>7, <1>8

Linking(h, side, id, model, known) ==
  h = [k \in 0 .. Len(boxes) |-> IF k = 0 THEN linked(side, id, model, <<>>)
                                 ELSE next_link(side, known, h[k - 1])]

LEMMA ChainIsGood ==
  ASSUME BoxesDone, NEW id \in BoxIds, NEW side \in 1 .. 2, NEW model, GoodModel(model), NEW known
  PROVE  margin_chain(side, id, model, known) \in Seq(Link)
<1>1. PICK n : n = Len(boxes) /\ n \in Nat
  BY OwnLen DEF BoxesDone
<1>2. PICK b : b = linked(side, id, model, <<>>)
  OBVIOUS
<1>3. b \in LinkState
  <2>1. <<>> \in Seq(Link)
    OBVIOUS
  <2> QED BY <1>2, <2>1, LinkIsGood
<1>4. \A s \in LinkState : next_link(side, known, s) \in LinkState
  BY NextLinkIsGood
<1>5. PICK F : F = [k \in 1 .. n |-> [s \in LinkState |-> next_link(side, known, s)]]
  OBVIOUS
<1>6. F \in [1 .. n -> [LinkState -> LinkState]]
  BY <1>4, <1>5
<1>7. PICK g : Repeats(g, LinkState, b, n, F)
  BY ONLY <1>1, <1>3, <1>6, CanRepeat
<1>8. /\ g \in [0 .. n -> LinkState] /\ g[0] = b
      /\ \A k \in 1 .. n : g[k] = next_link(side, known, g[k - 1])
  <2>1. g \in [0 .. n -> LinkState] /\ g[0] = b /\ \A k \in 1 .. n : g[k] = F[k][g[k - 1]]
    BY <1>7 DEF Repeats
  <2>2. \A k \in 1 .. n : k - 1 \in 0 .. n
    BY <1>1
  <2> QED BY <1>5, <2>1, <2>2
<1>9. Linking(g, side, id, model, known)
  <2>1. g = [k \in 0 .. n |-> g[k]]
    BY <1>8
  <2>2. \A k \in 0 .. n : g[k] = IF k = 0 THEN b ELSE next_link(side, known, g[k - 1])
    <3> TAKE k \in 0 .. n
    <3>1. k # 0 => k \in 1 .. n
      OBVIOUS
    <3> QED BY <1>8, <3>1
  <2> QED BY <1>1, <1>2, <2>1, <2>2 DEF Linking
<1>10. PICK h : h = CHOOSE x : Linking(x, side, id, model, known)
  OBVIOUS
<1>11. Linking(h, side, id, model, known)
  BY <1>9, <1>10, Zenon
<1>12. margin_chain(side, id, model, known) = h[n].chain
  BY <1>1, <1>10, Zenon DEF margin_chain, Linking
<1>13. \A k \in 0 .. n : h[k] = IF k = 0 THEN b ELSE next_link(side, known, h[k - 1])
  BY <1>1, <1>2, <1>11 DEF Linking
<1>14. PICK G : G = {k \in 0 .. n : h[k] \in LinkState}
  OBVIOUS
<1>15. 0 \in G
  BY <1>1, <1>3, <1>13, <1>14
<1>16. \A k \in 1 .. n : k - 1 \in G => k \in G
  <2> TAKE k \in 1 .. n
  <2>1. k \in 0 .. n /\ k # 0
    BY <1>1
  <2> QED BY <1>4, <1>13, <1>14, <2>1
<1>17. n \in G
  BY ONLY <1>1, <1>15, <1>16, Upwards
<1>18. h[n] \in LinkState
  BY <1>14, <1>17
<1> QED BY <1>12, <1>18 DEF LinkState

\* What is remembered of margins stays in the range.
LEMMA MarginIsRemembered ==
  ASSUME BoxesDone, NEW id \in BoxIds, NEW side \in 1 .. 2, NEW model, GoodModel(model),
         NEW known, GoodMemo(known), NEW m, m = effective_margin(side, id, model, known)
  PROVE  GoodMemo(m)
<1>1. PICK chain : chain = margin_chain(side, id, model, known)
  OBVIOUS
<1>2. chain \in Seq(Link) /\ DOMAIN chain = 1 .. Len(chain) /\ Len(chain) \in Nat
  BY <1>1, ChainIsGood, LenProperties
<1>3. \A i \in DOMAIN chain : collapse_margin_set(suffix_margins(chain, i)) \in Au
  <2> TAKE i \in DOMAIN chain
  <2>1. \A k \in i .. Len(chain) : chain[k].margin \in Au
    <3> TAKE k \in i .. Len(chain)
    <3>1. chain[k] \in Link
      BY <1>2, ElementOfSeq
    <3> QED BY <3>1 DEF Link
  <2>2. suffix_margins(chain, i) \subseteq Au
    BY <2>1 DEF suffix_margins
  <2> QED BY <2>2, MarginsCollapse
<1>4. \A At : At \subseteq DOMAIN chain /\ At # {} => (CHOOSE i \in At : TRUE) \in DOMAIN chain
  OBVIOUS
<1>5. ASSUME NEW x \in BoxIds
      PROVE  MaybeAu(memoize_suffix_collapse(chain, known)[x])
  <2>1. PICK At : At = {i \in DOMAIN chain : chain[i].id = x}
    OBVIOUS
  <2>2. PICK i : i = CHOOSE j \in At : TRUE
    OBVIOUS
  <2>3. memoize_suffix_collapse(chain, known)[x]
          = IF At = {} THEN known[x] ELSE Some(collapse_margin_set(suffix_margins(chain, i)))
    BY <2>1, <2>2 DEF memoize_suffix_collapse, GoodMemo
  <2>4. At # {} => collapse_margin_set(suffix_margins(chain, i)) \in Au
    BY <1>3, <1>4, <2>1, <2>2
  <2> QED BY <2>3, <2>4 DEF GoodMemo, MaybeAu, Some
<1>6. DOMAIN memoize_suffix_collapse(chain, known) = BoxIds
  BY DEF memoize_suffix_collapse, GoodMemo
<1>7. m \in {known, memoize_suffix_collapse(chain, known)}
  BY <1>1 DEF effective_margin
<1> QED BY <1>5, <1>6, <1>7 DEF GoodMemo

(***************************************************************************)
(* Where a block is.                                                       *)
(***************************************************************************)
IsPoint(p) == p.x \in Au /\ p.y \in Au

OpenKeys == {"id", "frag_start", "origin", "model", "content_origin", "cb_width", "cb_height",
             "first_child_collapse_eligible", "bottom_collapse_eligible", "next_child",
             "running_content_bottom", "prev_margin_bottom", "children",
             "effective_margin_bottom"}

\* A block that is being laid out.
GoodOpen(f) ==
  /\ DOMAIN f = OpenKeys /\ f.id \in BoxIds /\ GoodModel(f.model)
  /\ IsPoint(f.origin) /\ IsPoint(f.content_origin)
  /\ f.cb_width \in Extent /\ MaybeExtent(f.cb_height)
  /\ f.next_child \in Nat \ {0} /\ f.running_content_bottom \in Au
  /\ MaybeAu(f.prev_margin_bottom) /\ f.effective_margin_bottom \in Au

LEMMA ContentIsAPoint ==
  ASSUME NEW p, IsPoint(p), NEW m, GoodModel(m)
  PROVE  IsPoint(content_origin_of(p, m))
<1>1. \A a \in Axes : m.padding[a][1] \in Au /\ m.border[a][1] \in Au
  <2> TAKE a \in Axes
  <2>1. 1 \in 1 .. 2 /\ m.padding[a][1] \in Extent /\ m.border[a][1] \in Extent
    BY DEF GoodModel
  <2> QED BY <2>1, InRange
<1>2. add(p.x, m.padding.x[1]) \in Au /\ add(p.y, m.padding.y[1]) \in Au
  BY <1>1, InRange DEF Axes, IsPoint
<1>3. /\ add(add(p.x, m.padding.x[1]), m.border.x[1]) \in Au
      /\ add(add(p.y, m.padding.y[1]), m.border.y[1]) \in Au
  BY <1>1, <1>2, InRange DEF Axes
<1> QED BY <1>3 DEF content_origin_of, IsPoint

\* A block as it is entered.
LEMMA EnteredIsGood ==
  ASSUME NEW id \in BoxIds, NEW start, NEW p, IsPoint(p), NEW m, GoodModel(m),
         NEW h, MaybeExtent(h), NEW w \in Extent, NEW passes, NEW bottom \in Au,
         NEW f, f = LayoutFrame(id, start, p, m, h, w, passes, bottom)
  PROVE  GoodOpen(f)
<1>1. /\ DOMAIN f = OpenKeys /\ f.id = id /\ f.model = m /\ f.origin = p
      /\ f.content_origin = content_origin_of(p, m) /\ f.cb_width = w /\ f.cb_height = h
      /\ f.next_child = 1 /\ f.running_content_bottom = 0 /\ f.prev_margin_bottom = None
      /\ f.effective_margin_bottom = bottom
  BY DEF LayoutFrame, OpenKeys
<1>2. IsPoint(f.content_origin)
  BY <1>1, ContentIsAPoint
<1> QED BY <1>1, <1>2, InRange DEF GoodOpen, MaybeAu

LEMMA GapIsInRange ==
  ASSUME NEW f, GoodOpen(f), NEW top \in Au
  PROVE  gap_before(f, top) \in Au
<1>1. f.prev_margin_bottom # None => collapse_margins(f.prev_margin_bottom[1], top) \in Au
  <2> SUFFICES ASSUME f.prev_margin_bottom # None
               PROVE  collapse_margins(f.prev_margin_bottom[1], top) \in Au
    OBVIOUS
  <2>1. {f.prev_margin_bottom[1], top} \subseteq Au
    BY DEF GoodOpen, MaybeAu
  <2> QED BY <2>1, MarginsCollapse DEF collapse_margins
<1> QED BY <1>1, InRange DEF gap_before

\* What place_child answers.
Placed(at) ==
  /\ GoodModel(at.model) /\ GoodMemo(at.memo[1]) /\ GoodMemo(at.memo[2])
  /\ at.bottom \in Au /\ IsPoint(at.origin)
  /\ at.cb_width \in Extent /\ MaybeExtent(at.cb_height)

LEMMA ChildIsPlaced ==
  ASSUME BoxesDone, NEW id \in BoxIds, NEW f, GoodOpen(f), GoodMemo(memo[1]), GoodMemo(memo[2])
  PROVE  Placed(place_child(id, f))
<1>1. GoodModel(f.model) /\ f.model.content_width \in Extent /\ MaybeExtent(f.model.known_height)
  BY DEF GoodOpen, GoodModel
<1>2. PICK m : m = resolve_box_model(boxes[id].style, f.model.content_width, f.model.known_height)
  OBVIOUS
<1>3. GoodModel(m)
  <2>1. GoodStyle(boxes[id].style)
    BY DEF BoxesDone, StyledBox
  <2> QED BY <1>1, <1>2, <2>1, ModelIsGood
<1>4. PICK t : t = effective_margin_top(id, m, memo[1])
  OBVIOUS
<1>5. PICK b : b = effective_margin_bottom(id, m, memo[2])
  OBVIOUS
<1>6. GoodMemo(t) /\ GoodMemo(b)
  <2>1. 1 \in 1 .. 2 /\ 2 \in 1 .. 2
    OBVIOUS
  <2>2. t = effective_margin(1, id, m, memo[1]) /\ b = effective_margin(2, id, m, memo[2])
    BY <1>4, <1>5 DEF effective_margin_top, effective_margin_bottom
  <2> QED BY <1>3, <2>1, <2>2, MarginIsRemembered
<1>7. PICK top : top = unwrap_or(t[id], m.margins[1])
  OBVIOUS
<1>8. PICK bottom : bottom = unwrap_or(b[id], m.margins[2])
  OBVIOUS
<1>9. top \in Au /\ bottom \in Au
  <2>1. m.margins[1] \in Au /\ m.margins[2] \in Au
    BY <1>3 DEF GoodModel
  <2>2. MaybeAu(t[id]) /\ MaybeAu(b[id])
    BY <1>6 DEF GoodMemo
  <2> QED BY <1>7, <1>8, <2>1, <2>2 DEF unwrap_or, MaybeAu
<1>10. PICK x : x = add(f.content_origin.x, m.margin_left)
  OBVIOUS
<1>11. PICK y : y = add(add(f.content_origin.y, f.running_content_bottom), gap_before(f, top))
  OBVIOUS
<1>12. x \in Au /\ y \in Au
  <2>1. /\ f.content_origin.x \in Au /\ f.content_origin.y \in Au
        /\ f.running_content_bottom \in Au /\ m.margin_left \in Au
    BY <1>3 DEF GoodOpen, IsPoint, GoodModel
  <2>2. gap_before(f, top) \in Au
    BY <1>9, GapIsInRange
  <2>3. add(f.content_origin.y, f.running_content_bottom) \in Au
    BY <2>1, InRange
  <2> QED BY <1>10, <1>11, <2>1, <2>2, <2>3, InRange
<1>13. PICK at : at = place_child(id, f)
  OBVIOUS
<1>14. at = place_child_at(id, f, m, <<t, b>>)
  BY <1>2, <1>4, <1>5, <1>13 DEF place_child, place_child_of
<1>15. /\ at.model = m /\ at.memo = <<t, b>> /\ at.bottom = bottom
       /\ at.origin = [x |-> x, y |-> y]
       /\ at.cb_width = f.model.content_width /\ at.cb_height = f.model.known_height
  BY <1>7, <1>8, <1>10, <1>11, <1>14 DEF place_child_at
<1>16. at.memo[1] = t /\ at.memo[2] = b /\ IsPoint(at.origin)
  BY <1>12, <1>15 DEF IsPoint
<1> QED BY <1>1, <1>3, <1>6, <1>9, <1>13, <1>15, <1>16 DEF Placed

(***************************************************************************)
(* Fragments.                                                              *)
(***************************************************************************)
FragmentKeys == {"node", "kind", "of", "border_box", "padding_box", "content_box", "children",
                 "runs"}
Nests(f) ==
  /\ DOMAIN f = FragmentKeys
  /\ \A a \in Axes : Fits(f.padding_box[a], f.border_box[a]) /\ Fits(f.content_box[a], f.padding_box[a])
AllNest(all) == IsSeq(all) /\ \A i \in 1 .. Len(all) : Nests(all[i])

LEMMA BlockNests ==
  ASSUME NEW id, NEW p, IsPoint(p), NEW m, GoodModel(m), NEW height \in Au, NEW children,
         NEW f, f = block_fragment(id, p, m, height, children)
  PROVE  Nests(f) /\ f.of = id /\ f.border_box.y.size \in Au
<1>1. PICK w : w = [a \in Axes |-> IF a = "x" THEN m.content_width ELSE height]
  OBVIOUS
<1>2. PICK size : size = [a \in Axes |->
        add(add(add(add(w[a], m.padding[a][1]), m.padding[a][2]), m.border[a][1]), m.border[a][2])]
  OBVIOUS
<1>3. PICK bb : bb = [a \in Axes |-> [origin |-> p[a], size |-> size[a]]]
  OBVIOUS
<1>4. PICK pb : pb = [a \in Axes |-> inset(bb[a], m.border[a])]
  OBVIOUS
<1>5. PICK cb : cb = [a \in Axes |-> inset(pb[a], m.padding[a])]
  OBVIOUS
<1>6. /\ DOMAIN f = FragmentKeys /\ f.of = id
      /\ f.border_box = bb /\ f.padding_box = pb /\ f.content_box = cb
  <2>1. bb = [a \in Axes |-> [origin |-> p[a],
                 size |-> add(add(add(add(IF a = "x" THEN m.content_width ELSE height,
                   m.padding[a][1]), m.padding[a][2]), m.border[a][1]), m.border[a][2])]]
    BY <1>1, <1>2, <1>3
  <2> QED BY <1>4, <1>5, <2>1 DEF block_fragment, Fragment, FragmentKeys
<1>7. ASSUME NEW a \in Axes
      PROVE  /\ bb[a] \in Rect /\ Fits(pb[a], bb[a]) /\ Fits(cb[a], pb[a])
             /\ bb[a].size \in Au
  <2>1. /\ m.padding[a][1] \in Extent /\ m.padding[a][2] \in Extent
        /\ m.border[a][1] \in Extent /\ m.border[a][2] \in Extent
    BY DEF GoodModel
  <2>2. p[a] \in Au /\ w[a] \in Au
    <3>1. m.content_width \in Au
      BY InRange DEF GoodModel
    <3> QED BY <1>1, <3>1 DEF IsPoint, Axes
  <2>3. size[a] \in Au
    <3>1. /\ m.padding[a][1] \in Au /\ m.padding[a][2] \in Au
          /\ m.border[a][1] \in Au /\ m.border[a][2] \in Au
      BY <2>1, InRange
    <3>2. add(w[a], m.padding[a][1]) \in Au
      BY <2>2, <3>1, InRange
    <3>3. add(add(w[a], m.padding[a][1]), m.padding[a][2]) \in Au
      BY <3>1, <3>2, InRange
    <3>4. add(add(add(w[a], m.padding[a][1]), m.padding[a][2]), m.border[a][1]) \in Au
      BY <3>1, <3>3, InRange
    <3>5. add(add(add(add(w[a], m.padding[a][1]), m.padding[a][2]), m.border[a][1]), m.border[a][2])
            \in Au
      BY <3>1, <3>4, InRange
    <3> QED BY <1>2, <3>5
  <2>4. bb[a] \in Rect /\ bb[a].size \in Au
    BY <1>3, <2>2, <2>3 DEF Rect
  <2>5. Fits(pb[a], bb[a])
    BY <1>4, <2>1, <2>4, InsetFits
  <2>6. pb[a] \in Rect
    BY <2>5 DEF Fits
  <2>7. Fits(cb[a], pb[a])
    BY <1>5, <2>1, <2>6, InsetFits
  <2> QED BY <2>4, <2>5, <2>7
<1>8. f.border_box.y.size \in Au
  BY <1>6, <1>7 DEF Axes
<1> QED BY <1>6, <1>7, <1>8 DEF Nests

\* How far a relative box moves.
LEMMA OffsetIsInRange ==
  ASSUME NEW s, GoodStyle(s), NEW w \in Extent, NEW h, MaybeExtent(h)
  PROVE  \A a \in Axes : resolve_offset(s, w, h)[a] \in Int
<1>1. /\ IsLength(s.offset.x[1]) /\ IsLength(s.offset.x[2])
      /\ IsLength(s.offset.y[1]) /\ IsLength(s.offset.y[2])
  BY DEF GoodStyle, AllAround, Axes
<1>2. w \in Int /\ 0 \in Int /\ 0 \in Au
  BY InRange
<1>3. ASSUME NEW l, IsLength(l) PROVE resolve_len_against_height(l, h) \in Au
  <2>1. h # None => h[1] \in Int
    BY InRange DEF MaybeExtent
  <2>2. l.unit = "Percent" /\ h # None => mul_by_f32(h[1], l.n) \in Au
    BY <1>3, <2>1, PartOf DEF IsLength
  <2>3. resolve_len_zero(l, 0) \in Au
    BY <1>2, <1>3, LengthResolves
  <2> QED BY <1>2, <2>2, <2>3 DEF resolve_len_against_height
<1>4. resolve_len_zero(s.offset.x[1], w) \in Au /\ resolve_len_zero(s.offset.x[2], w) \in Au
  BY <1>1, <1>2, LengthResolves
<1>5. resolve_len_against_height(s.offset.y[1], h) \in Au /\ resolve_len_against_height(s.offset.y[2], h) \in Au
  BY <1>1, <1>3
<1>6. /\ saturating_sub(0, resolve_len_zero(s.offset.x[2], w)) \in Au
      /\ saturating_sub(0, resolve_len_against_height(s.offset.y[2], h)) \in Au
  BY <1>2, <1>4, <1>5, InRange
<1>7. PICK by : by = resolve_offset(s, w, h)
  OBVIOUS
<1>8. by.x \in Au /\ by.y \in Au
  <2>1. /\ by.x \in {resolve_len_zero(s.offset.x[1], w),
                     saturating_sub(0, resolve_len_zero(s.offset.x[2], w))}
        /\ by.y \in {resolve_len_against_height(s.offset.y[1], h),
                     saturating_sub(0, resolve_len_against_height(s.offset.y[2], h))}
    BY <1>7 DEF resolve_offset
  <2> QED BY <1>4, <1>5, <1>6, <2>1
<1>9. by.x \in Int /\ by.y \in Int
  BY <1>8, InRange
<1> QED BY <1>7, <1>9 DEF Axes

\* A fragment that moves still nests.
LEMMA ShiftedNests ==
  ASSUME NEW f, Nests(f), NEW by, \A a \in Axes : by[a] \in Int
  PROVE  Nests(shift_fragment(f, by))
<1>1. PICK g : g = shift_fragment(f, by)
  OBVIOUS
<1>2. /\ DOMAIN g = FragmentKeys
      /\ g.border_box = shift_rect(f.border_box, by) /\ g.padding_box = shift_rect(f.padding_box, by)
      /\ g.content_box = shift_rect(f.content_box, by)
  BY <1>1 DEF shift_fragment, Nests, FragmentKeys
<1>3. \A r, a : a \in Axes => shift_rect(r, by)[a] = Moved(r[a], by[a])
  BY DEF shift_rect, Moved
<1>4. ASSUME NEW a \in Axes
      PROVE  /\ Fits(g.padding_box[a], g.border_box[a])
             /\ Fits(g.content_box[a], g.padding_box[a])
  <2>1. /\ Fits(f.padding_box[a], f.border_box[a]) /\ Fits(f.content_box[a], f.padding_box[a])
        /\ by[a] \in Int
    BY DEF Nests
  <2>2. /\ Fits(Moved(f.padding_box[a], by[a]), Moved(f.border_box[a], by[a]))
        /\ Fits(Moved(f.content_box[a], by[a]), Moved(f.padding_box[a], by[a]))
    BY <2>1, MovedFits
  <2> QED BY <1>2, <1>3, <2>2
<1> QED BY <1>1, <1>2, <1>4 DEF Nests

LEMMA NestAppended ==
  ASSUME NEW all, AllNest(all), NEW f, Nests(f), NEW s, s = Append(all, f)
  PROVE  AllNest(s)
<1>1. IsSeq(all) /\ \A i \in 1 .. Len(all) : Nests(all[i])
  BY DEF AllNest
<1>2. /\ Len(all) \in Nat /\ Len(s) = Len(all) + 1 /\ s[Len(all) + 1] = f
      /\ \A i \in 1 .. Len(all) : s[i] = all[i]
  BY <1>1, OwnLen, OwnAppend
<1>3. IsSeq(s)
  BY <1>1, OwnAppend
<1>4. \A i \in 1 .. Len(s) : i = Len(all) + 1 \/ i \in 1 .. Len(all)
  BY <1>2
<1> QED BY <1>1, <1>2, <1>3, <1>4 DEF AllNest

LEMMA PushedNest ==
  ASSUME BoxesDone, NEW all, AllNest(all), NEW f, Nests(f), f.of \in BoxIds,
         NEW start, NEW w \in Extent, NEW h, MaybeExtent(h)
  PROVE  AllNest(push_block(all, f, start, w, h))
<1>1. PICK s : s = Append(all, f)
  OBVIOUS
<1>2. IsSeq(s) /\ Len(s) \in Nat /\ \A i \in 1 .. Len(s) : Nests(s[i])
  <2>1. AllNest(s)
    BY ONLY <1>1, AllNest(all), Nests(f), NestAppended
  <2> QED BY <2>1, OwnLen DEF AllNest
<1>3. PICK by : by = resolve_offset(boxes[f.of].style, w, h)
  OBVIOUS
<1>4. \A a \in Axes : by[a] \in Int
  <2>1. GoodStyle(boxes[f.of].style)
    BY DEF BoxesDone, StyledBox
  <2> QED BY <1>3, <2>1, OffsetIsInRange
<1>5. PICK t : t = shift_from(s, start, by)
  OBVIOUS
<1>6. /\ t = [i \in 1 .. Len(s) |-> IF i > start THEN shift_fragment(s[i], by) ELSE s[i]]
  <2>1. DOMAIN s = 1 .. Len(s)
    BY <1>2, OwnLen
  <2> QED BY <1>5, <2>1 DEF shift_from
<1>7. IsSeq(t) /\ Len(t) = Len(s)
  <2>1. t = [i \in 1 .. Len(s) |-> t[i]]
    BY <1>6
  <2> QED BY <1>2, <2>1, OwnFunction
<1>8. \A i \in 1 .. Len(t) : Nests(t[i])
  BY <1>2, <1>4, <1>6, <1>7, ShiftedNests
<1>9. push_block(all, f, start, w, h) \in {s, t}
  BY <1>1, <1>3, <1>5 DEF push_block
<1> QED BY <1>2, <1>7, <1>8, <1>9 DEF AllNest

(***************************************************************************)
(* Inline content, from its pieces to its lines.                           *)
(***************************************************************************)
LEMMA EmptyIsSeq == IsSeq(<<>>) /\ Len(<<>>) = 0
<1>1. <<>> \in Seq({})
  OBVIOUS
<1> QED BY <1>1, OwnSeq

LEMMA ProcessedIsSeq ==
  ASSUME NEW text, IsSeq(text), NEW mode, NEW suppress
  PROVE  IsSeq(process(text, mode, suppress).text)
<1>1. Len(text) \in Nat /\ DOMAIN text = 1 .. Len(text)
  BY OwnLen
<1>2. ASSUME NEW Dropped PROVE IsSeq(CollapseRuns(text, Dropped))
  <2>1. PICK Spaces : Spaces = RunStarts(text) \ Dropped
    OBVIOUS
  <2>2. PICK S : S = {i \in DOMAIN text : ~ is_collapsible(text[i])} \cup Spaces
    OBVIOUS
  <2>3. \A i \in S : i \in 1 .. Len(text)
    BY <1>1, <2>1, <2>2 DEF RunStarts
  <2>4. PICK kept : kept = in_order(S)
    OBVIOUS
  <2>5. IsSeq(kept)
    BY ONLY <1>1, <2>3, <2>4, InOrder
  <2>6. DOMAIN kept = 1 .. Len(kept) /\ Len(kept) \in Nat
    BY <2>5, OwnLen
  <2>7. PICK t : t = CollapseRuns(text, Dropped)
    OBVIOUS
  <2>8. t = [k \in DOMAIN kept |-> IF kept[k] \in Spaces THEN "sp" ELSE text[kept[k]]]
    BY <2>1, <2>2, <2>4, <2>7 DEF CollapseRuns
  <2>9. t = [k \in 1 .. Len(kept) |-> t[k]]
    BY <2>6, <2>8
  <2> QED BY ONLY <2>6, <2>7, <2>9, OwnFunction
<1>3. IsSeq(normalize_segment_breaks(text))
  <2>1. PICK S : S = {i \in DOMAIN text : ~ (text[i] = "lf" /\ i > 1 /\ text[i - 1] = "cr")}
    OBVIOUS
  <2>2. \A i \in S : i \in 1 .. Len(text)
    BY <1>1, <2>1
  <2>3. PICK kept : kept = in_order(S)
    OBVIOUS
  <2>4. IsSeq(kept)
    BY ONLY <1>1, <2>2, <2>3, InOrder
  <2>5. DOMAIN kept = 1 .. Len(kept) /\ Len(kept) \in Nat
    BY <2>4, OwnLen
  <2>6. PICK t : t = normalize_segment_breaks(text)
    OBVIOUS
  <2>7. t = [k \in DOMAIN kept |-> IF text[kept[k]] = "cr" THEN "lf" ELSE text[kept[k]]]
    BY <2>1, <2>3, <2>6 DEF normalize_segment_breaks
  <2>8. t = [k \in 1 .. Len(kept) |-> t[k]]
    BY <2>5, <2>7
  <2> QED BY ONLY <2>5, <2>6, <2>8, OwnFunction
<1> QED BY <1>2, <1>3 DEF process, process_normal

GoodItems(items) == IsSeq(items) /\ \A i \in 1 .. Len(items) : IsSeq(item_text(items[i]))
GoodWalk(s) == s.stack \in Seq(BoxIds) /\ GoodItems(s.pieces) /\ DOMAIN s = {"stack", "pieces", "suppress"}

LEMMA ItemAppended ==
  ASSUME NEW items, GoodItems(items), NEW x, IsSeq(item_text(x)), NEW t, t = Append(items, x)
  PROVE  GoodItems(t)
<1>1. IsSeq(items) /\ \A i \in 1 .. Len(items) : IsSeq(item_text(items[i]))
  BY DEF GoodItems
<1>2. /\ Len(items) \in Nat /\ Len(t) = Len(items) + 1 /\ t[Len(items) + 1] = x
      /\ \A i \in 1 .. Len(items) : t[i] = items[i]
  BY <1>1, OwnLen, OwnAppend
<1>3. IsSeq(t)
  BY <1>1, OwnAppend
<1>4. \A i \in 1 .. Len(t) : i = Len(items) + 1 \/ i \in 1 .. Len(items)
  BY <1>2
<1> QED BY <1>1, <1>2, <1>3, <1>4 DEF GoodItems

LEMMA BoxIsTaken ==
  ASSUME BoxesDone, IsDocument(doc), NEW s, GoodWalk(s)
  PROVE  GoodWalk(take_box(doc, boxes, s))
<1>1. PICK t : t = take_box(doc, boxes, s)
  OBVIOUS
<1>2. CASE s.stack = <<>>
  BY <1>2 DEF take_box
<1>3. CASE s.stack # <<>>
  <2>1. PICK b : b = Head(s.stack)
    OBVIOUS
  <2>2. b \in BoxIds /\ Tail(s.stack) \in Seq(BoxIds)
    BY <1>3, <2>1, HeadTailProperties DEF GoodWalk
  <2>3. PICK box : box = boxes[b]
    OBVIOUS
  <2>4. box.children \in Seq(BoxIds) /\ (box.kind = "InlineText" => box.node \in DOMAIN doc.children)
    BY <2>2, <2>3 DEF BoxesDone, GoodBox, StyledBox, BoxIds
  <2>5. PICK rest : rest = [s EXCEPT !.stack = Tail(@)]
    OBVIOUS
  <2>6. /\ rest.stack = Tail(s.stack) /\ rest.pieces = s.pieces
        /\ DOMAIN rest = {"stack", "pieces", "suppress"}
    BY <2>5 DEF GoodWalk
  <2>7. PICK done : done = process(text_of(doc, box.node), box.style.text.white_space, s.suppress)
    OBVIOUS
  <2>8. box.kind = "InlineText" => IsSeq(item_text(Text(done.text, box.style, box.node)))
    <3> SUFFICES ASSUME box.kind = "InlineText" PROVE IsSeq(done.text)
      BY DEF item_text, IsText, Text
    <3>1. IsSeq(doc.text[box.node])
      BY <2>4, OwnSeq DEF IsDocument
    <3>2. IsSeq(<<>>)
      BY EmptyIsSeq
    <3>3. IsSeq(text_of(doc, box.node))
      BY <3>1, <3>2 DEF text_of
    <3> QED BY <2>7, <3>3, ProcessedIsSeq
  <2>9. IsSeq(item_text(Break))
    BY OwnOne DEF item_text, IsText, Break
  <2>10. t = (CASE box.kind = "InlineText" ->
                    [rest EXCEPT !.suppress = done.suppress_next_space,
                                 !.pieces = Append(@, Text(done.text, box.style, box.node))]
                [] box.kind = "LineBreak" ->
                    [rest EXCEPT !.suppress = TRUE, !.pieces = Append(@, Break)]
                [] box.kind = "Inline"    -> [rest EXCEPT !.stack = box.children \o @]
                [] OTHER                  -> rest)
    BY <1>1, <1>3, <2>1, <2>3, <2>5, <2>7 DEF take_box
  <2>11. CASE box.kind = "InlineText"
    <3>1. /\ t.stack = rest.stack /\ t.pieces = Append(s.pieces, Text(done.text, box.style, box.node))
          /\ DOMAIN t = DOMAIN rest
      BY <2>6, <2>10, <2>11
    <3>2. GoodItems(t.pieces)
      BY <2>8, <2>11, <3>1, ItemAppended DEF GoodWalk
    <3> QED BY <1>1, <2>2, <2>6, <3>1, <3>2 DEF GoodWalk
  <2>12. CASE box.kind = "LineBreak"
    <3>1. /\ t.stack = rest.stack /\ t.pieces = Append(s.pieces, Break)
          /\ DOMAIN t = DOMAIN rest
      BY <2>6, <2>10, <2>12
    <3>2. GoodItems(t.pieces)
      BY <2>9, <3>1, ItemAppended DEF GoodWalk
    <3> QED BY <1>1, <2>2, <2>6, <3>1, <3>2 DEF GoodWalk
  <2>13. CASE box.kind = "Inline"
    <3>1. /\ t.stack = box.children \o rest.stack /\ t.pieces = s.pieces /\ DOMAIN t = DOMAIN rest
      BY <2>6, <2>10, <2>13
    <3>2. t.stack \in Seq(BoxIds)
      BY <2>2, <2>4, <2>6, <3>1, ConcatProperties
    <3> QED BY <1>1, <2>6, <3>1, <3>2 DEF GoodWalk
  <2>14. CASE box.kind \notin {"InlineText", "LineBreak", "Inline"}
    <3>1. t = rest
      BY <2>10, <2>14
    <3> QED BY <1>1, <2>2, <2>6, <3>1 DEF GoodWalk
  <2> QED BY <2>11, <2>12, <2>13, <2>14
<1> QED BY <1>2, <1>3

\* The walk over the boxes of a block's inline content, and that there is one.
WalkStart(children) == [stack |-> children, pieces |-> <<>>, suppress |-> TRUE]
Walking(w, n, children) ==
  w = [k \in 0 .. n |-> IF k = 0 THEN WalkStart(children) ELSE take_box(doc, boxes, w[k - 1])]

LEMMA WalkExists ==
  ASSUME NEW n \in Nat, NEW children
  PROVE  \E w : Walking(w, n, children)
<1>1. PICK G : G = {m \in 0 .. n : \E w : Walking(w, m, children)}
  OBVIOUS
<1>2. 0 \in G
  <2>1. PICK w : w = [k \in 0 .. 0 |-> WalkStart(children)]
    OBVIOUS
  <2>2. \A k \in 0 .. 0 : k = 0
    OBVIOUS
  <2>3. Walking(w, 0, children)
    BY <2>1, <2>2 DEF Walking
  <2> QED BY <1>1, <2>3
<1>3. ASSUME NEW m \in 1 .. n, m - 1 \in G PROVE m \in G
  <2>1. PICK w : Walking(w, m - 1, children)
    BY <1>1, <1>3
  <2>2. PICK v : v = take_box(doc, boxes, w[m - 1])
    OBVIOUS
  <2>3. PICK g : g = [k \in 0 .. m |-> IF k = m THEN v ELSE w[k]]
    OBVIOUS
  <2>4. \A k \in 0 .. m - 1 : w[k] = IF k = 0 THEN WalkStart(children) ELSE take_box(doc, boxes, w[k - 1])
    BY <2>1 DEF Walking
  <2>5. ASSUME NEW k \in 0 .. m
        PROVE  g[k] = IF k = 0 THEN WalkStart(children) ELSE take_box(doc, boxes, g[k - 1])
    <3>1. k = m => k # 0
      OBVIOUS
    <3>2. k # m => k \in 0 .. m - 1
      OBVIOUS
    <3>3. k # 0 => k - 1 \in 0 .. m /\ k - 1 # m
      OBVIOUS
    <3>4. k # 0 => g[k - 1] = w[k - 1]
      BY <2>3, <3>3
    <3>5. g[k] = IF k = m THEN v ELSE w[k]
      BY <2>3
    <3> QED BY <2>2, <2>4, <3>1, <3>2, <3>4, <3>5
  <2>6. Walking(g, m, children)
    <3>1. g = [k \in 0 .. m |-> g[k]]
      BY <2>3
    <3> QED BY <2>5, <3>1 DEF Walking
  <2> QED BY <1>1, <2>6
<1>4. n \in G
  BY ONLY <1>2, <1>3, n \in Nat, Upwards
<1> QED BY <1>1, <1>4

LEMMA PiecesAreGood ==
  ASSUME BoxesDone, IsDocument(doc), NEW id \in BoxIds
  PROVE  GoodItems(collect_pieces(doc, boxes, boxes[id].children))
<1>1. PICK n : n = Len(boxes)
  OBVIOUS
<1>2. n \in Nat
  BY <1>1, OwnLen DEF BoxesDone
<1>3. PICK cs : cs = boxes[id].children
  OBVIOUS
<1>4. cs \in Seq(BoxIds)
  BY <1>3 DEF BoxesDone, GoodBox, BoxIds
<1>5. PICK h : h = CHOOSE w : Walking(w, n, cs)
  OBVIOUS
<1>6. Walking(h, n, cs)
  <2>1. \E w : Walking(w, n, cs)
    BY <1>2, WalkExists
  <2> QED BY <1>5, <2>1, Zenon
<1>7. collect_pieces(doc, boxes, cs) = h[n].pieces
  BY <1>1, <1>5, Zenon DEF collect_pieces, Walking, WalkStart
<1>8. PICK G : G = {k \in 0 .. n : GoodWalk(h[k])}
  OBVIOUS
<1>9. \A k \in 0 .. n : h[k] = IF k = 0 THEN WalkStart(cs) ELSE take_box(doc, boxes, h[k - 1])
  BY <1>6 DEF Walking
<1>10. 0 \in G
  <2>1. IsSeq(<<>>) /\ Len(<<>>) = 0
    BY EmptyIsSeq
  <2>2. GoodItems(<<>>)
    BY <2>1 DEF GoodItems
  <2>3. GoodWalk(WalkStart(cs))
    BY <1>4, <2>2 DEF GoodWalk, WalkStart
  <2> QED BY <1>2, <1>8, <1>9, <2>3
<1>11. \A k \in 1 .. n : k - 1 \in G => k \in G
  <2> TAKE k \in 1 .. n
  <2>1. k \in 0 .. n /\ k # 0
    BY <1>2
  <2>2. h[k] = take_box(doc, boxes, h[k - 1])
    BY <1>9, <2>1
  <2> QED BY <1>8, <2>1, <2>2, BoxIsTaken
<1>12. n \in G
  BY ONLY <1>2, <1>10, <1>11, Upwards
<1> QED BY <1>3, <1>7, <1>8, <1>12 DEF GoodWalk

\* Part of a sequence.
Part(s, a, b) == SubSeq(s, a, b)
IsPart(t, s, a, b) ==
  /\ IsSeq(t) /\ Len(t) = b - a + 1
  /\ \A k \in 1 .. Len(t) : \E i \in 1 .. Len(s) : i = a + k - 1 /\ t[k] = s[i]
LEMMA OwnPart ==
  ASSUME NEW s, IsSeq(s), NEW a \in Nat \ {0}, NEW b \in 0 .. Len(s), a <= b + 1,
         NEW t, t = Part(s, a, b)
  PROVE  IsPart(t, s, a, b)
<1>1. Len(s) \in Nat /\ b - a + 1 \in Nat
  BY OwnLen
<1>2. t = [k \in 1 .. b - a + 1 |-> s[a + k - 1]]
  BY <1>1 DEF Part
<1>3. IsSeq(t) /\ Len(t) = b - a + 1
  <2>1. t = [k \in 1 .. b - a + 1 |-> t[k]]
    BY <1>2
  <2> QED BY ONLY <1>1, <2>1, OwnFunction
<1>4. \A k \in 1 .. b - a + 1 : a + k - 1 \in 1 .. Len(s)
  BY <1>1
<1> QED BY <1>2, <1>3, <1>4 DEF IsPart

LEMMA TextIsSeq ==
  ASSUME NEW items, GoodItems(items)
  PROVE  IsSeq(concatenate(items).text)
<1>1. IsSeq(items) /\ Len(items) \in Nat /\ DOMAIN items = 1 .. Len(items)
  BY OwnLen DEF GoodItems
<1>2. PICK ss : ss = [i \in DOMAIN items |-> item_text(items[i])]
  OBVIOUS
<1>3. IsSeq(ss) /\ Len(ss) = Len(items)
  <2>1. ss = [i \in 1 .. Len(items) |-> ss[i]]
    BY <1>1, <1>2
  <2> QED BY ONLY <1>1, <2>1, OwnFunction
<1>4. \A i \in 1 .. Len(ss) : IsSeq(ss[i])
  BY <1>1, <1>2, <1>3 DEF GoodItems
<1>5. IsSeq(FlattenSeq(ss))
  BY ONLY <1>3, <1>4, FlatIsSeq
<1>6. concatenate(items).text = FlattenSeq(ss)
  BY <1>2 DEF concatenate
<1> QED BY <1>5, <1>6

\* Lines of offsets.
Offsets(lines) == IsSeq(lines) /\ \A l \in 1 .. Len(lines) : IsSeq(lines[l])

\* The lines that start at some offsets of a text.
LinesFrom(starts, n) ==
  LET ends == [l \in DOMAIN starts |-> IF l < Len(starts) THEN starts[l + 1] - 1 ELSE n]
  IN  [l \in DOMAIN starts |-> [k \in 1 .. ends[l] - starts[l] + 1 |-> starts[l] + k - 1]]

LEMMA LinesAreOffsets ==
  ASSUME NEW n \in Nat, NEW S, \A i \in S : i \in 1 .. n + 1,
         NEW lines, lines = LinesFrom(in_order(S), n)
  PROVE  Offsets(lines)
<1>1. PICK starts : starts = in_order(S)
  OBVIOUS
<1>2. PICK m : m = n + 1 /\ m \in Nat
  OBVIOUS
<1>3. \A i \in S : i \in 1 .. m
  BY <1>2
<1>4. /\ IsSeq(starts) /\ \A k \in 1 .. Len(starts) : starts[k] \in S
      /\ \A j, k \in 1 .. Len(starts) : j < k => starts[j] < starts[k]
  BY ONLY <1>1, <1>2, <1>3, InOrder
<1>5. DOMAIN starts = 1 .. Len(starts) /\ Len(starts) \in Nat
  BY <1>4, OwnLen
<1>6. PICK ends : ends = [l \in DOMAIN starts |-> IF l < Len(starts) THEN starts[l + 1] - 1 ELSE n]
  OBVIOUS
<1>7. \A l \in 1 .. Len(starts) : starts[l] \in 1 .. n + 1
  BY <1>4
<1>8. ASSUME NEW l \in 1 .. Len(starts) PROVE ends[l] - starts[l] + 1 \in Nat
  <2>1. CASE l < Len(starts)
    <3>1. l + 1 \in 1 .. Len(starts) /\ l < l + 1
      BY <1>5, <2>1
    <3>2. starts[l] < starts[l + 1] /\ starts[l + 1] \in Int /\ starts[l] \in Int
      BY <1>4, <1>7, <3>1
    <3>3. ends[l] = starts[l + 1] - 1
      BY <1>5, <1>6, <2>1
    <3> QED BY <3>2, <3>3
  <2>2. CASE ~ (l < Len(starts))
    <3>1. ends[l] = n
      BY <1>5, <1>6, <2>2
    <3> QED BY <1>7, <3>1
  <2> QED BY <2>1, <2>2
<1>9. lines = [l \in DOMAIN starts |-> [k \in 1 .. ends[l] - starts[l] + 1 |-> starts[l] + k - 1]]
  BY <1>1, <1>6 DEF LinesFrom
<1>10. IsSeq(lines) /\ Len(lines) = Len(starts)
  <2>1. lines = [l \in 1 .. Len(starts) |-> lines[l]]
    BY <1>5, <1>9
  <2> QED BY ONLY <1>5, <2>1, OwnFunction
<1>11. ASSUME NEW l \in 1 .. Len(lines) PROVE IsSeq(lines[l])
  <2>1. PICK m2 : m2 = ends[l] - starts[l] + 1 /\ m2 \in Nat
    BY <1>8, <1>10
  <2>2. PICK line : line = lines[l]
    OBVIOUS
  <2>3. line = [k \in 1 .. m2 |-> starts[l] + k - 1]
    BY <1>5, <1>9, <1>10, <2>1, <2>2
  <2>4. line = [k \in 1 .. m2 |-> line[k]]
    BY <2>3
  <2> QED BY ONLY <2>1, <2>2, <2>4, OwnFunction
<1> QED BY <1>10, <1>11 DEF Offsets

LEMMA TurnedAreOffsets ==
  ASSUME NEW lines, Offsets(lines), NEW turned, turned = [l \in DOMAIN lines |-> Reverse(lines[l])]
  PROVE  Offsets(turned)
<1>1. /\ IsSeq(lines) /\ Len(lines) \in Nat /\ DOMAIN lines = 1 .. Len(lines)
      /\ \A l \in 1 .. Len(lines) : IsSeq(lines[l])
  BY OwnLen DEF Offsets
<1>2. IsSeq(turned) /\ Len(turned) = Len(lines)
  <2>1. turned = [l \in 1 .. Len(lines) |-> turned[l]]
    BY <1>1
  <2> QED BY ONLY <1>1, <2>1, OwnFunction
<1>3. ASSUME NEW l \in 1 .. Len(turned) PROVE IsSeq(turned[l])
  <2>1. PICK line : line = lines[l]
    OBVIOUS
  <2>2. Len(line) \in Nat
    BY <1>1, <1>2, <2>1, OwnLen
  <2>3. PICK r : r = Reverse(line)
    OBVIOUS
  <2>4. turned[l] = r
    BY <1>1, <1>2, <2>1, <2>3
  <2>5. r = [i \in 1 .. Len(line) |-> r[i]]
    BY <2>3 DEF Reverse
  <2> QED BY ONLY <2>2, <2>4, <2>5, OwnFunction
<1> QED BY <1>2, <1>3 DEF Offsets

\* However the shaper breaks a text.
LEMMA ShapedAreOffsets ==
  ASSUME NEW items, NEW text, IsSeq(text), NEW spans, NEW lines \in shaped_lines(items, text, spans)
  PROVE  Offsets(lines)
<1>1. Len(text) \in Nat /\ DOMAIN text = 1 .. Len(text)
  BY OwnLen
<1>2. ASSUME NEW B, B \subseteq 1 .. Len(text)
      PROVE  Offsets(LinesFrom(in_order({1} \cup {i + 1 : i \in B}), Len(text)))
  <2>1. PICK S : S = {1} \cup {i + 1 : i \in B}
    OBVIOUS
  <2>2. \A i \in S : i \in 1 .. Len(text) + 1
    BY <1>1, <1>2, <2>1
  <2>3. PICK ls : ls = LinesFrom(in_order(S), Len(text))
    OBVIOUS
  <2>4. Offsets(ls)
    BY ONLY <1>1, <2>2, <2>3, LinesAreOffsets
  <2> QED BY <2>1, <2>3, <2>4
<1> DEFINE Forced == {i \in DOMAIN text : text[i] = "lf"}
           Optional == {i \in 1 .. Len(text) - 1 :
                     /\ text[i] = "sp" /\ span_item(spans, i) # 0
                     /\ wrap_mode(items[span_item(spans, i)].style) = "Wrap"}
           Ltr == {LinesFrom(in_order({1} \cup {i + 1 : i \in Forced \cup O}), Len(text)) :
                          O \in SUBSET Optional}
           T == {[l \in DOMAIN ls |-> Reverse(ls[l])] : ls \in Ltr}
<1>3. shaped_lines(items, text, spans) = Ltr \cup (IF doc.rtl THEN T ELSE {})
  BY Zenon DEF shaped_lines, LinesFrom
<1>4. ASSUME NEW O \in SUBSET Optional PROVE Forced \cup O \subseteq 1 .. Len(text)
  <2>1. Forced \subseteq 1 .. Len(text) /\ Optional \subseteq 1 .. Len(text)
    BY <1>1
  <2> QED BY <2>1
<1> HIDE DEF Forced, Optional
<1>7. \A ls \in Ltr : Offsets(ls)
  BY <1>2, <1>4
<1> HIDE DEF Ltr
<1>9. \A ls \in T : Offsets(ls)
  BY <1>7, TurnedAreOffsets
<1> HIDE DEF T
<1> QED BY <1>3, <1>7, <1>9

(***************************************************************************)
(* Clusters and runs.                                                      *)
(***************************************************************************)
GoodClusters(cs) ==
  IsSeq(cs) /\ \A k \in 1 .. Len(cs) : cs[k].advance \in Nat /\ IsSeq(cs[k].glyphs)

LEMMA ClustersAreGood ==
  ASSUME NEW offsets, IsSeq(offsets), NEW items, NEW text, NEW spans,
         NEW cs, cs = line_clusters(offsets, items, text, spans)
  PROVE  GoodClusters(cs)
<1>1. Len(offsets) \in Nat /\ DOMAIN offsets = 1 .. Len(offsets)
  BY OwnLen
<1>2. \A k \in 1 .. Len(offsets) :
        /\ cs[k].advance \in {0, Advance}
        /\ cs[k].glyphs \in {<<>>, <<text[offsets[k]]>>}
  BY <1>1 DEF line_clusters
<1>3. IsSeq(cs) /\ Len(cs) = Len(offsets)
  <2>1. DOMAIN cs = 1 .. Len(offsets) /\ cs = [k \in DOMAIN cs |-> cs[k]]
    BY <1>1 DEF line_clusters
  <2>2. cs = [k \in 1 .. Len(offsets) |-> cs[k]]
    BY <2>1
  <2> QED BY ONLY <1>1, <2>2, OwnFunction
<1>4. \A x : IsSeq(<<x>>)
  BY OwnOne
<1> QED BY <1>2, <1>3, <1>4, EmptyIsSeq, AdvanceAssumption DEF GoodClusters

LEMMA TrimmedAreGood ==
  ASSUME NEW cs, GoodClusters(cs), NEW items, NEW text, NEW spans,
         NEW t, t = trim_trailing_spaces(cs, items, text, spans)
  PROVE  GoodClusters(t)
<1>1. IsSeq(cs) /\ Len(cs) \in Nat /\ DOMAIN cs = 1 .. Len(cs)
  BY OwnLen DEF GoodClusters
<1>2. PICK Kept : Kept = {k \in DOMAIN cs :
                 ~ (\/ cs[k].glyphs = <<>> /\ cs[k].advance <= 0
                    \/ is_collapsible_space(cs[k].text_start, items, text, spans))}
  OBVIOUS
<1>3. PICK m : m = IF Kept = {} THEN 0 ELSE Max(Kept)
  OBVIOUS
<1>4. m \in 0 .. Len(cs)
  <2>1. Kept \subseteq 1 .. Len(cs) /\ 1 \in Int /\ Len(cs) \in Int
    BY <1>1, <1>2
  <2>2. Kept # {} => Max(Kept) \in Kept
    BY ONLY <2>1, Extremes
  <2> QED BY <1>1, <1>3, <2>1, <2>2
<1>5. t = Part(cs, 1, m)
  BY <1>2, <1>3 DEF Part, trim_trailing_spaces
<1>6. /\ IsSeq(t) /\ \A k \in 1 .. Len(t) : \E i \in 1 .. Len(cs) : t[k] = cs[i]
  <2>1. 1 \in Nat \ {0} /\ 1 <= m + 1
    BY <1>4
  <2>2. IsPart(t, cs, 1, m)
    BY ONLY <1>1, <1>4, <1>5, <2>1, OwnPart
  <2> QED BY <2>2 DEF IsPart
<1> QED BY <1>6 DEF GoodClusters

\* Where the pen is after each cluster.
Penning(p, cs, x) ==
  p = [k \in 0 .. Len(cs) |-> IF k = 0 THEN x ELSE saturating_add(p[k - 1], cs[k].advance)]
Pen(cs, x) == CHOOSE p : Penning(p, cs, x)

LEMMA PenIsThere ==
  ASSUME NEW cs, GoodClusters(cs), NEW x \in Au
  PROVE  Penning(Pen(cs, x), cs, x)
<1>1. PICK n : n = Len(cs)
  OBVIOUS
<1>2. n \in Nat /\ \A k \in 1 .. n : cs[k].advance \in Int
  BY <1>1, OwnLen DEF GoodClusters
<1>3. PICK F : F = [k \in 1 .. n |-> [y \in Au |-> saturating_add(y, cs[k].advance)]]
  OBVIOUS
<1>4. F \in [1 .. n -> [Au -> Au]]
  <2>1. \A k \in 1 .. n, y \in Au : saturating_add(y, cs[k].advance) \in Au
    BY <1>2, Saturates
  <2> QED BY <1>3, <2>1
<1>5. PICK g : Repeats(g, Au, x, n, F)
  BY ONLY <1>2, <1>4, x \in Au, CanRepeat
<1>6. g \in [0 .. n -> Au] /\ g[0] = x /\ \A k \in 1 .. n : g[k] = F[k][g[k - 1]]
  BY <1>5 DEF Repeats
<1>7. ASSUME NEW k \in 0 .. n
      PROVE  g[k] = IF k = 0 THEN x ELSE saturating_add(g[k - 1], cs[k].advance)
  <2>1. CASE k = 0
    BY <1>6, <2>1
  <2>2. CASE k # 0
    <3>1. k \in 1 .. n /\ k - 1 \in 0 .. n
      BY <1>2, <2>2
    <3>2. g[k - 1] \in Au /\ g[k] = F[k][g[k - 1]]
      BY <1>6, <3>1
    <3> QED BY <1>3, <2>2, <3>1, <3>2
  <2> QED BY <2>1, <2>2
<1>8. Penning(g, cs, x)
  <2>1. g = [k \in 0 .. n |-> g[k]]
    BY <1>6
  <2> QED BY <1>1, <1>7, <2>1 DEF Penning
<1> QED BY <1>8, Zenon DEF Pen

\* It never goes back.
Upward(p, n) ==
  /\ \A k \in 0 .. n : p[k] \in Au
  /\ \A j, k \in 0 .. n : j <= k => p[j] <= p[k]

LEMMA PenGoesUp ==
  ASSUME NEW cs, GoodClusters(cs), NEW x \in Au, NEW p, Penning(p, cs, x)
  PROVE  Upward(p, Len(cs))
<1>1. PICK n : n = Len(cs)
  OBVIOUS
<1>2. n \in Nat /\ \A k \in 1 .. n : cs[k].advance \in Nat
  BY <1>1, OwnLen DEF GoodClusters
<1>3. \A k \in 0 .. n : p[k] = IF k = 0 THEN x ELSE saturating_add(p[k - 1], cs[k].advance)
  BY <1>1 DEF Penning
<1>4. \A y \in Au, a \in Nat : saturating_add(y, a) \in Au /\ y <= saturating_add(y, a)
  <2> TAKE y \in Au, a \in Nat
  <2>1. y \in Int /\ y <= MaxAu /\ y >= -MaxAu - 1
    BY WidthAssumption DEF Au
  <2>2. saturating_add(y, a) \in Au
    BY <2>1, Saturates
  <2>3. y <= saturating_add(y, a)
    BY <2>1, WidthAssumption DEF saturating_add, clamp
  <2> QED BY <2>2, <2>3
<1>5. \A k \in 1 .. n : k \in 0 .. n /\ k - 1 \in 0 .. n /\ k # 0
  BY <1>2
<1>6. \A k \in 0 .. n : p[k] \in Au
  <2>1. PICK G : G = {k \in 0 .. n : p[k] \in Au}
    OBVIOUS
  <2>2. 0 \in G
    BY <1>2, <1>3, <2>1
  <2>3. \A k \in 1 .. n : k - 1 \in G => k \in G
    BY <1>2, <1>3, <1>4, <1>5, <2>1
  <2>4. \A k \in 0 .. n : k \in G
    BY ONLY <1>2, <2>2, <2>3, Upwards
  <2> QED BY <2>1, <2>4
<1>7. ASSUME NEW k \in 1 .. n PROVE p[k - 1] <= p[k]
  BY <1>2, <1>3, <1>4, <1>5, <1>6
<1>8. ASSUME NEW j \in 0 .. n PROVE \A k \in 0 .. n : j <= k => p[j] <= p[k]
  <2>1. PICK G : G = {k \in 0 .. n : j <= k => p[j] <= p[k]}
    OBVIOUS
  <2>2. \A k \in 0 .. n : p[k] \in Int
    BY <1>6, Saturates
  <2>3. 0 \in G
    <3>1. j <= 0 => j = 0
      OBVIOUS
    <3> QED BY <1>2, <2>1, <2>2, <3>1
  <2>4. \A k \in 1 .. n : k - 1 \in G => k \in G
    <3> TAKE k \in 1 .. n
    <3> HAVE k - 1 \in G
    <3>1. k \in 0 .. n /\ k - 1 \in 0 .. n /\ p[k - 1] <= p[k]
      BY <1>5, <1>7
    <3>2. j <= k - 1 => p[j] <= p[k - 1]
      BY <2>1
    <3>3. j <= k => j <= k - 1 \/ j = k
      OBVIOUS
    <3> QED BY <2>1, <2>2, <3>1, <3>2, <3>3
  <2>5. \A k \in 0 .. n : k \in G
    BY ONLY <1>2, <2>3, <2>4, Upwards
  <2> QED BY <2>1, <2>5
<1> QED BY <1>1, <1>6, <1>8 DEF Upward

RunKeys == {"item", "x", "glyphs"}
GoodRuns(rs) ==
  /\ IsSeq(rs)
  /\ \A k \in 1 .. Len(rs) : DOMAIN rs[k] = RunKeys /\ rs[k].x \in Au /\ IsSeq(rs[k].glyphs)
  /\ \A j, k \in 1 .. Len(rs) : j <= k => rs[j].x <= rs[k].x

\* The runs that start at some clusters.
StopOf(cs, starts, r) == IF r < Len(starts) THEN starts[r + 1] - 1 ELSE Len(cs)
RunOf(cs, starts, pen, r) ==
  [item |-> cs[starts[r]].item, x |-> pen[starts[r] - 1],
   glyphs |-> FlattenSeq([k \in 1 .. StopOf(cs, starts, r) - starts[r] + 1 |->
                             cs[starts[r] + k - 1].glyphs])]
RunStartsOf(cs) == {k \in 1 .. Len(cs) : k = 1 \/ run_key(cs[k - 1]) # run_key(cs[k])}
DrawnRuns(cs, starts, pen) == {r \in DOMAIN starts : RunOf(cs, starts, pen, r).glyphs # <<>>}
RunsBy(cs, starts, pen) ==
  [k \in DOMAIN in_order(DrawnRuns(cs, starts, pen)) |->
     RunOf(cs, starts, pen, in_order(DrawnRuns(cs, starts, pen))[k])]

LEMMA RunsAreBuilt ==
  ASSUME NEW cs, NEW x
  PROVE  build_runs(cs, x) = RunsBy(cs, in_order(RunStartsOf(cs)), Pen(cs, x))
BY Zenon DEF build_runs, RunsBy, RunStartsOf, DrawnRuns, RunOf, StopOf, Pen, Penning

LEMMA RunIsGood ==
  ASSUME NEW cs, GoodClusters(cs), NEW pen, Upward(pen, Len(cs)),
         NEW starts, starts = in_order(RunStartsOf(cs)), NEW r \in 1 .. Len(starts),
         NEW run, run = RunOf(cs, starts, pen, r)
  PROVE  /\ DOMAIN run = RunKeys /\ run.x \in Au /\ IsSeq(run.glyphs)
         /\ run.x = pen[starts[r] - 1] /\ starts[r] \in 1 .. Len(cs)
<1>1. PICK n : n = Len(cs)
  OBVIOUS
<1>2. n \in Nat /\ \A k \in 1 .. n : IsSeq(cs[k].glyphs)
  BY <1>1, OwnLen DEF GoodClusters
<1>3. PICK S : S = RunStartsOf(cs)
  OBVIOUS
<1>4. \A k \in S : k \in 1 .. n
  BY <1>1, <1>3 DEF RunStartsOf
<1>5. /\ IsSeq(starts) /\ \A k \in 1 .. Len(starts) : starts[k] \in S
      /\ \A j, k \in 1 .. Len(starts) : j < k => starts[j] < starts[k]
  <2>1. starts = in_order(S)
    BY <1>3
  <2> QED BY ONLY <1>2, <1>4, <2>1, InOrder
<1>6. Len(starts) \in Nat /\ \A k \in 1 .. Len(starts) : starts[k] \in 1 .. n
  BY <1>4, <1>5, OwnLen
<1>7. PICK stop : stop = StopOf(cs, starts, r)
  OBVIOUS
<1>8. stop \in starts[r] .. n
  <2>1. CASE r < Len(starts)
    <3>1. r + 1 \in 1 .. Len(starts) /\ r < r + 1
      BY <1>6, <2>1
    <3>2. starts[r] < starts[r + 1] /\ starts[r] \in 1 .. n /\ starts[r + 1] \in 1 .. n
      BY <1>5, <1>6, <3>1
    <3>3. stop = starts[r + 1] - 1
      BY <1>7, <2>1 DEF StopOf
    <3> QED BY <1>2, <3>2, <3>3
  <2>2. CASE ~ (r < Len(starts))
    <3>1. stop = n
      BY <1>1, <1>7, <2>2 DEF StopOf
    <3> QED BY <1>2, <1>6, <3>1
  <2> QED BY <2>1, <2>2
<1>9. PICK m : m = stop - starts[r] + 1
  OBVIOUS
<1>10. starts[r] \in 1 .. n /\ m \in Nat /\ \A k \in 1 .. m : starts[r] + k - 1 \in 1 .. n
  BY <1>2, <1>6, <1>8, <1>9
<1>11. PICK ss : ss = [k \in 1 .. m |-> cs[starts[r] + k - 1].glyphs]
  OBVIOUS
<1>12. IsSeq(ss) /\ Len(ss) = m
  <2>1. ss = [k \in 1 .. m |-> ss[k]]
    BY <1>11
  <2> QED BY ONLY <1>10, <2>1, OwnFunction
<1>13. \A k \in 1 .. Len(ss) : IsSeq(ss[k])
  BY <1>2, <1>10, <1>11, <1>12
<1>14. IsSeq(FlattenSeq(ss))
  BY ONLY <1>12, <1>13, FlatIsSeq
<1>15. /\ DOMAIN run = RunKeys /\ run.x = pen[starts[r] - 1] /\ run.glyphs = FlattenSeq(ss)
  <2>1. run = [item |-> cs[starts[r]].item, x |-> pen[starts[r] - 1], glyphs |-> FlattenSeq(ss)]
    BY <1>7, <1>9, <1>11 DEF RunOf
  <2> QED BY ONLY <2>1 DEF RunKeys
<1>16. run.x \in Au
  <2>1. starts[r] - 1 \in 0 .. n
    BY <1>2, <1>10
  <2> QED BY <1>1, <1>15, <2>1 DEF Upward
<1> QED BY <1>1, <1>10, <1>14, <1>15, <1>16

LEMMA RunsAreGood ==
  ASSUME NEW cs, GoodClusters(cs), NEW x \in Au
  PROVE  GoodRuns(build_runs(cs, x))
<1>1. PICK pen : pen = Pen(cs, x)
  OBVIOUS
<1>2. Upward(pen, Len(cs))
  BY ONLY <1>1, GoodClusters(cs), x \in Au, PenIsThere, PenGoesUp
<1>3. PICK S : S = RunStartsOf(cs)
  OBVIOUS
<1>4. PICK starts : starts = in_order(S)
  OBVIOUS
<1>5. PICK n : n = Len(cs) /\ n \in Nat
  BY OwnLen DEF GoodClusters
<1>6. /\ IsSeq(starts) /\ \A j, k \in 1 .. Len(starts) : j < k => starts[j] < starts[k]
  <2>1. \A k \in S : k \in 1 .. n
    BY <1>3, <1>5 DEF RunStartsOf
  <2> QED BY ONLY <1>4, <1>5, <2>1, InOrder
<1>7. DOMAIN starts = 1 .. Len(starts) /\ Len(starts) \in Nat
  BY <1>6, OwnLen
<1>8. PICK D : D = DrawnRuns(cs, starts, pen)
  OBVIOUS
<1>9. PICK drawn : drawn = in_order(D)
  OBVIOUS
<1>10. /\ IsSeq(drawn) /\ \A k \in 1 .. Len(drawn) : drawn[k] \in D
       /\ \A j, k \in 1 .. Len(drawn) : j < k => drawn[j] < drawn[k]
  <2>1. \A k \in D : k \in 1 .. Len(starts)
    BY <1>7, <1>8 DEF DrawnRuns
  <2> QED BY ONLY <1>7, <1>9, <2>1, InOrder
<1>11. DOMAIN drawn = 1 .. Len(drawn) /\ Len(drawn) \in Nat
  BY <1>10, OwnLen
<1>12. PICK rs : rs = build_runs(cs, x)
  OBVIOUS
<1>13. rs = [k \in 1 .. Len(drawn) |-> RunOf(cs, starts, pen, drawn[k])]
  <2>1. rs = RunsBy(cs, starts, pen)
    BY <1>1, <1>3, <1>4, <1>12, RunsAreBuilt
  <2> QED BY <1>8, <1>9, <1>11, <2>1 DEF RunsBy
<1>14. IsSeq(rs) /\ Len(rs) = Len(drawn)
  <2>1. rs = [k \in 1 .. Len(drawn) |-> rs[k]]
    BY <1>13
  <2> QED BY ONLY <1>11, <2>1, OwnFunction
<1>15. \A k \in 1 .. Len(drawn) : drawn[k] \in 1 .. Len(starts)
  BY <1>7, <1>8, <1>10 DEF DrawnRuns
<1>16. ASSUME NEW k \in 1 .. Len(rs)
       PROVE  /\ DOMAIN rs[k] = RunKeys /\ rs[k].x \in Au /\ IsSeq(rs[k].glyphs)
              /\ rs[k].x = pen[starts[drawn[k]] - 1] /\ starts[drawn[k]] \in 1 .. n
  <2>1. PICK r : r = drawn[k] /\ r \in 1 .. Len(starts)
    BY <1>14, <1>15
  <2>2. PICK run : run = RunOf(cs, starts, pen, r)
    OBVIOUS
  <2>3. rs[k] = run
    BY <1>13, <1>14, <2>1, <2>2
  <2>4. starts = in_order(RunStartsOf(cs))
    BY <1>3, <1>4
  <2>5. /\ DOMAIN run = RunKeys /\ run.x \in Au /\ IsSeq(run.glyphs)
        /\ run.x = pen[starts[r] - 1] /\ starts[r] \in 1 .. Len(cs)
    BY ONLY <1>2, <2>1, <2>2, <2>4, GoodClusters(cs), RunIsGood
  <2> QED BY <1>5, <2>1, <2>3, <2>5
<1>17. ASSUME NEW j \in 1 .. Len(rs), NEW k \in 1 .. Len(rs), j <= k
       PROVE  rs[j].x <= rs[k].x
  <2>1. PICK a : a = starts[drawn[j]]
    OBVIOUS
  <2>2. PICK b : b = starts[drawn[k]]
    OBVIOUS
  <2>3. a \in 1 .. n /\ b \in 1 .. n /\ rs[j].x = pen[a - 1] /\ rs[k].x = pen[b - 1]
    BY <1>16, <2>1, <2>2
  <2>4. a <= b
    <3>1. CASE j = k
      BY <2>1, <2>2, <2>3, <3>1
    <3>2. CASE j < k
      <4>1. drawn[j] < drawn[k] /\ drawn[j] \in 1 .. Len(starts) /\ drawn[k] \in 1 .. Len(starts)
        BY <1>10, <1>14, <1>15, <3>2
      <4>2. a < b
        BY <1>6, <2>1, <2>2, <4>1
      <4> QED BY <2>3, <4>2
    <3> QED BY <1>17, <3>1, <3>2
  <2>5. a - 1 \in 0 .. n /\ b - 1 \in 0 .. n /\ a - 1 <= b - 1
    BY <1>5, <2>3, <2>4
  <2> QED BY <1>2, <1>5, <2>3, <2>5 DEF Upward
<1> QED BY <1>12, <1>14, <1>16, <1>17 DEF GoodRuns

(***************************************************************************)
(* Lines.                                                                  *)
(***************************************************************************)
GoodLines(lines) ==
  IsSeq(lines) /\ \A l \in 1 .. Len(lines) : lines[l].height \in Extent /\ GoodRuns(lines[l].runs)

LEMMA AlignmentIsInRange ==
  ASSUME NEW align, NEW available \in Extent, NEW w \in Nat
  PROVE  alignment(align, available, w) \in Au
<1>1. available \in Nat /\ available <= MaxAu
  BY WidthAssumption DEF Extent
<1>2. w <= available => (available - w) \div 2 \in 0 .. available - w
  <2> SUFFICES ASSUME w <= available PROVE (available - w) \div 2 \in 0 .. available - w
    OBVIOUS
  <2>1. PICK v : v = available - w
    OBVIOUS
  <2>2. v \in Nat
    BY <1>1, <2>1
  <2>3. v \div 2 \in 0 .. v
    BY <2>2
  <2> QED BY <2>1, <2>3
<1>3. alignment(align, available, w) \in Extent
  BY <1>1, <1>2, WidthAssumption DEF alignment, Extent
<1> QED BY <1>3, Saturates

LEMMA LinesAreGood ==
  ASSUME NEW lines, Offsets(lines), NEW items, NEW text, NEW spans,
         NEW style, style.text.line_height \in Au, NEW available \in Extent
  PROVE  GoodLines(collect_lines(lines, items, text, spans, style, available))
<1>1. /\ IsSeq(lines) /\ Len(lines) \in Nat /\ (lines = <<>> <=> Len(lines) = 0)
      /\ \A l \in 1 .. Len(lines) : IsSeq(lines[l])
  BY OwnLen DEF Offsets
<1> DEFINE trimmed(l) ==
             trim_trailing_spaces(line_clusters(lines[l], items, text, spans), items, text, spans)
           kept == IF lines # <<>> /\ trimmed(Len(lines)) = <<>> THEN Len(lines) - 1 ELSE Len(lines)
           width(cs) == Advance * Cardinality({k \in DOMAIN cs : cs[k].advance > 0})
           line_x(cs) == alignment(style.text.align, available, width(cs))
           all == [l \in 1 .. kept |-> [height |-> Larger(style.text.line_height, 0),
                                        runs |-> build_runs(trimmed(l), line_x(trimmed(l)))]]
<1>2. collect_lines(lines, items, text, spans, style, available) = all
  BY Zenon DEF collect_lines
<1>3. ASSUME NEW l \in 1 .. Len(lines) PROVE GoodClusters(trimmed(l))
  <2>1. PICK cs : cs = line_clusters(lines[l], items, text, spans)
    OBVIOUS
  <2>2. GoodClusters(cs)
    BY <1>1, <2>1, ClustersAreGood
  <2> QED BY <2>1, <2>2, TrimmedAreGood
<1>4. kept \in 0 .. Len(lines)
  <2> HIDE DEF trimmed
  <2> QED BY <1>1
<1> HIDE DEF trimmed, kept
<1>5. ASSUME NEW cs, GoodClusters(cs) PROVE line_x(cs) \in Au
  <2>1. PICK S : S = {k \in DOMAIN cs : cs[k].advance > 0}
    OBVIOUS
  <2>2. Len(cs) \in Nat /\ DOMAIN cs = 1 .. Len(cs)
    BY <1>5, OwnLen DEF GoodClusters
  <2>3. \A k \in S : k \in 1 .. Len(cs)
    BY <2>1, <2>2
  <2>4. Cardinality(S) \in Nat
    BY ONLY <2>2, <2>3, RankEnds
  <2>5. Advance * Cardinality(S) \in Nat
    BY <2>4, AdvanceAssumption
  <2> QED BY <2>1, <2>5, AlignmentIsInRange
<1> HIDE DEF line_x
<1>6. IsSeq(all) /\ Len(all) = kept
  <2>1. all = [l \in 1 .. kept |-> all[l]]
    OBVIOUS
  <2> HIDE DEF all
  <2> QED BY ONLY <1>1, <1>4, <2>1, OwnFunction
<1>7. ASSUME NEW l \in 1 .. kept PROVE all[l].height \in Extent /\ GoodRuns(all[l].runs)
  <2>1. all[l].height = Larger(style.text.line_height, 0)
    OBVIOUS
  <2>2. all[l].runs = build_runs(trimmed(l), line_x(trimmed(l)))
    OBVIOUS
  <2>3. l \in 1 .. Len(lines)
    BY <1>1, <1>4
  <2> HIDE DEF all
  <2>4. GoodRuns(all[l].runs)
    BY <1>3, <1>5, <2>2, <2>3, RunsAreGood
  <2> QED BY <2>1, <2>4, InRange
<1> HIDE DEF all
<1> QED BY <1>2, <1>6, <1>7 DEF GoodLines

\* However the shaper answers.
LEMMA InlineLinesAreGood ==
  ASSUME NEW items, GoodItems(items), NEW style, style.text.line_height \in Au,
         NEW available \in Extent, NEW lines \in layout_inline(items, style, available)
  PROVE  GoodLines(lines)
<1>1. PICK whole : whole = concatenate(items)
  OBVIOUS
<1>2. IsSeq(whole.text)
  BY <1>1, TextIsSeq
<1>3. GoodLines(<<>>)
  BY EmptyIsSeq DEF GoodLines
<1>4. \A ls \in shaped_lines(items, whole.text, whole.spans) : Offsets(ls)
  BY <1>2, ShapedAreOffsets
<1>5. \/ lines = <<>>
      \/ \E ls \in shaped_lines(items, whole.text, whole.spans) :
           lines = collect_lines(ls, items, whole.text, whole.spans, style, available)
  BY <1>1 DEF layout_inline
<1> QED BY <1>3, <1>4, <1>5, LinesAreGood

(***************************************************************************)
(* Fragments of lines.                                                     *)
(***************************************************************************)
\* The same rectangle three times.
LEMMA FlatNests ==
  ASSUME NEW x \in Au, NEW w \in Extent, NEW y \in Au, NEW h \in Extent,
         NEW node, NEW kind, NEW of, NEW children, NEW runs,
         NEW rect, rect = span_rect(x, w, y, h),
         NEW f, f = Fragment(node, kind, of, rect, rect, rect, children, runs)
  PROVE  Nests(f)
<1>1. \A a \in Axes : rect[a] \in Rect /\ rect[a].size >= 0
  <2>1. w \in Au /\ h \in Au /\ w >= 0 /\ h >= 0
    BY InRange DEF Extent
  <2> QED BY <2>1 DEF span_rect, Rect, Axes
<1>2. \A a \in Axes : Fits(rect[a], rect[a])
  <2> TAKE a \in Axes
  <2>1. rect[a].origin \in Int /\ rect[a].size \in Int
    BY <1>1, Saturates DEF Rect
  <2> QED BY <1>1, <2>1 DEF Fits
<1>3. /\ DOMAIN f = FragmentKeys
      /\ f.border_box = rect /\ f.padding_box = rect /\ f.content_box = rect
  BY DEF Fragment, FragmentKeys
<1> QED BY <1>2, <1>3 DEF Nests

\* A group of runs, and all groups of a line.
GoodGroup(g) == GoodRuns(g) /\ Len(g) # 0

LEMMA GroupsAreGood ==
  ASSUME NEW rs, GoodRuns(rs), NEW groups, groups = group_runs(rs)
  PROVE  IsSeq(groups) /\ \A g \in 1 .. Len(groups) : GoodGroup(groups[g])
<1>1. IsSeq(rs) /\ Len(rs) \in Nat /\ DOMAIN rs = 1 .. Len(rs)
  BY OwnLen DEF GoodRuns
<1>2. PICK S : S = {k \in DOMAIN rs : k = Len(rs) \/ rs[k + 1].item # rs[k].item}
  OBVIOUS
<1>3. \A k \in S : k \in 1 .. Len(rs)
  BY <1>1, <1>2
<1>4. PICK ends : ends = in_order(S)
  OBVIOUS
<1>5. /\ IsSeq(ends) /\ \A k \in 1 .. Len(ends) : ends[k] \in S
      /\ \A j, k \in 1 .. Len(ends) : j < k => ends[j] < ends[k]
  BY ONLY <1>1, <1>3, <1>4, InOrder
<1>6. DOMAIN ends = 1 .. Len(ends) /\ Len(ends) \in Nat
      /\ \A k \in 1 .. Len(ends) : ends[k] \in 1 .. Len(rs)
  BY <1>3, <1>5, OwnLen
<1>7. groups = [g \in 1 .. Len(ends) |-> SubSeq(rs, IF g = 1 THEN 1 ELSE ends[g - 1] + 1, ends[g])]
  BY <1>2, <1>4, <1>6 DEF group_runs
<1>8. IsSeq(groups) /\ Len(groups) = Len(ends)
  <2>1. groups = [g \in 1 .. Len(ends) |-> groups[g]]
    BY <1>7
  <2> QED BY ONLY <1>6, <2>1, OwnFunction
<1>9. ASSUME NEW g \in 1 .. Len(ends) PROVE GoodGroup(groups[g])
  <2>1. PICK a : a = IF g = 1 THEN 1 ELSE ends[g - 1] + 1
    OBVIOUS
  <2>2. PICK b : b = ends[g]
    OBVIOUS
  <2>3. a \in Nat \ {0} /\ b \in 0 .. Len(rs) /\ a <= b
    <3>1. CASE g = 1
      BY <1>6, <2>1, <2>2, <3>1
    <3>2. CASE g # 1
      <4>1. g - 1 \in 1 .. Len(ends) /\ g - 1 < g
        BY <1>6, <3>2
      <4>2. ends[g - 1] < ends[g] /\ ends[g - 1] \in 1 .. Len(rs) /\ ends[g] \in 1 .. Len(rs)
        BY <1>5, <1>6, <4>1
      <4> QED BY <2>1, <2>2, <3>2, <4>2
    <3> QED BY <3>1, <3>2
  <2>4. PICK t : t = groups[g]
    OBVIOUS
  <2>5. t = Part(rs, a, b)
    BY <1>7, <2>1, <2>2, <2>4 DEF Part
  <2>6. /\ IsSeq(t) /\ Len(t) = b - a + 1
        /\ \A k \in 1 .. Len(t) : \E i \in 1 .. Len(rs) : i = a + k - 1 /\ t[k] = rs[i]
    <3>1. a <= b + 1
      BY <2>3
    <3>2. IsPart(t, rs, a, b)
      BY ONLY <1>1, <2>3, <2>5, <3>1, OwnPart
    <3> QED BY <3>2 DEF IsPart
  <2>7. Len(t) \in Nat /\ Len(t) # 0
    BY <2>3, <2>6
  <2>8. GoodRuns(t)
    <3>1. \A k \in 1 .. Len(t) : DOMAIN t[k] = RunKeys /\ t[k].x \in Au /\ IsSeq(t[k].glyphs)
      BY <2>6 DEF GoodRuns
    <3>2. ASSUME NEW j \in 1 .. Len(t), NEW k \in 1 .. Len(t), j <= k PROVE t[j].x <= t[k].x
      <4>1. PICK i \in 1 .. Len(rs) : i = a + j - 1 /\ t[j] = rs[i]
        BY <2>6
      <4>2. PICK l \in 1 .. Len(rs) : l = a + k - 1 /\ t[k] = rs[l]
        BY <2>6
      <4>3. i <= l
        BY <2>3, <2>7, <3>2, <4>1, <4>2
      <4> QED BY <4>1, <4>2, <4>3 DEF GoodRuns
    <3> QED BY <2>6, <3>1, <3>2 DEF GoodRuns
  <2> QED BY <2>4, <2>7, <2>8 DEF GoodGroup
<1> QED BY <1>8, <1>9

\* Runs moved to where their line is.
LEMMA MovedRunsAreGood ==
  ASSUME NEW g, GoodGroup(g), NEW x \in Au,
         NEW placed, placed = [r \in DOMAIN g |-> [g[r] EXCEPT !.x = saturating_add(x, @)]]
  PROVE  GoodGroup(placed)
<1>1. IsSeq(g) /\ Len(g) \in Nat /\ DOMAIN g = 1 .. Len(g) /\ Len(g) # 0
  BY OwnLen DEF GoodGroup, GoodRuns
<1>2. IsSeq(placed) /\ Len(placed) = Len(g)
  <2>1. placed = [r \in 1 .. Len(g) |-> placed[r]]
    BY <1>1
  <2> QED BY ONLY <1>1, <2>1, OwnFunction
<1>3. ASSUME NEW r \in 1 .. Len(g)
      PROVE  /\ DOMAIN placed[r] = RunKeys /\ placed[r].x = saturating_add(x, g[r].x)
             /\ placed[r].x \in Au /\ placed[r].glyphs = g[r].glyphs /\ IsSeq(placed[r].glyphs)
             /\ g[r].x \in Int
  <2>1. DOMAIN g[r] = RunKeys /\ g[r].x \in Au /\ IsSeq(g[r].glyphs)
    BY DEF GoodGroup, GoodRuns
  <2>2. placed[r] = [g[r] EXCEPT !.x = saturating_add(x, @)]
    BY <1>1
  <2>3. /\ DOMAIN placed[r] = RunKeys /\ placed[r].x = saturating_add(x, g[r].x)
        /\ placed[r].glyphs = g[r].glyphs
    BY <2>1, <2>2 DEF RunKeys
  <2>4. x \in Int /\ g[r].x \in Int
    BY <2>1, Saturates
  <2> QED BY <2>1, <2>3, <2>4, Saturates
<1>4. ASSUME NEW j \in 1 .. Len(g), NEW k \in 1 .. Len(g), j <= k
      PROVE  placed[j].x <= placed[k].x
  <2>1. g[j].x <= g[k].x
    BY <1>4 DEF GoodGroup, GoodRuns
  <2>2. \A a, b \in Int : a <= b => saturating_add(x, a) <= saturating_add(x, b)
    <3>1. x \in Int
      BY Saturates
    <3> QED BY <3>1, WidthAssumption DEF saturating_add, clamp
  <2>3. /\ g[j].x \in Int /\ g[k].x \in Int
        /\ placed[j].x = saturating_add(x, g[j].x) /\ placed[k].x = saturating_add(x, g[k].x)
    BY <1>3
  <2> QED BY ONLY <2>1, <2>2, <2>3
<1>5. GoodRuns(placed)
  BY <1>2, <1>3, <1>4 DEF GoodRuns
<1> QED BY <1>1, <1>2, <1>5 DEF GoodGroup

LEMMA WidthOfRuns ==
  ASSUME NEW g, GoodGroup(g)
  PROVE  g[1].x \in Au /\ runs_width(g) \in Extent
<1>1. PICK n : n = Len(g)
  OBVIOUS
<1>2. n \in Nat /\ 1 \in 1 .. n /\ n \in 1 .. n
  <2>1. Len(g) \in Nat /\ Len(g) # 0
    BY OwnLen DEF GoodGroup, GoodRuns
  <2> QED BY <1>1, <2>1
<1>3. g[1].x \in Au /\ g[n].x \in Au /\ IsSeq(g[n].glyphs) /\ g[1].x <= g[n].x
  BY <1>1, <1>2 DEF GoodGroup, GoodRuns
<1>4. PICK w : w = Advance * Len(g[n].glyphs)
  OBVIOUS
<1>5. w \in Nat
  <2>1. Len(g[n].glyphs) \in Nat
    BY <1>3, OwnLen
  <2> QED BY <1>4, <2>1, AdvanceAssumption
<1>6. PICK e : e = saturating_add(g[n].x, w)
  OBVIOUS
<1>7. e \in Int /\ g[1].x \in Int /\ e >= g[1].x
  <2>1. g[n].x \in Int /\ g[1].x \in Int /\ g[n].x <= MaxAu /\ g[n].x >= -MaxAu - 1
    BY <1>3, WidthAssumption DEF Au
  <2>2. e >= g[n].x /\ e \in Int
    BY <1>5, <1>6, <2>1, WidthAssumption DEF saturating_add, clamp
  <2> QED BY <1>3, <2>1, <2>2
<1>8. saturating_sub(e, g[1].x) \in Au /\ saturating_sub(e, g[1].x) >= 0
  BY <1>7, Saturates
<1>9. saturating_sub(e, g[1].x) \in Extent
  BY <1>8, WidthAssumption DEF Au, Extent
<1>10. runs_width(g) = saturating_sub(e, g[1].x)
  BY <1>1, <1>4, <1>6 DEF runs_width
<1> QED BY <1>3, <1>9, <1>10

LEMMA TextNests ==
  ASSUME NEW items, NEW of, NEW x \in Au, NEW top \in Au, NEW line, line.height \in Extent,
         NEW g, GoodGroup(g)
  PROVE  Nests(text_fragment(items, of, x, top, line, g))
<1>1. PICK placed : placed = [r \in DOMAIN g |-> [g[r] EXCEPT !.x = saturating_add(x, @)]]
  OBVIOUS
<1>2. GoodGroup(placed)
  BY <1>1, MovedRunsAreGood
<1>3. placed[1].x \in Au /\ runs_width(placed) \in Extent
  BY <1>2, WidthOfRuns
<1>4. PICK rect : rect = span_rect(placed[1].x, runs_width(placed), top, line.height)
  OBVIOUS
<1>5. PICK f : f = Fragment(items[g[1].item].node, "Text", of, rect, rect, rect, <<>>, placed)
  OBVIOUS
<1>6. Nests(f)
  BY <1>3, <1>4, <1>5, FlatNests
<1>7. text_fragment(items, of, x, top, line, g) = f
  BY <1>1, <1>4, <1>5, Zenon DEF text_fragment
<1> QED BY <1>6, <1>7

\* One sequence of fragments after another.
LEMMA NestJoined ==
  ASSUME NEW all, AllNest(all), NEW more, AllNest(more), NEW u, u = all \o more
  PROVE  AllNest(u)
<1>1. /\ IsSeq(all) /\ IsSeq(more)
      /\ \A i \in 1 .. Len(all) : Nests(all[i])
      /\ \A i \in 1 .. Len(more) : Nests(more[i])
  BY DEF AllNest
<1>2. /\ Len(u) = Len(all) + Len(more)
      /\ \A i \in 1 .. Len(all) : u[i] = all[i]
      /\ \A i \in 1 .. Len(more) : u[Len(all) + i] = more[i]
  BY <1>1, OwnJoined
<1>3. IsSeq(u)
  BY <1>1, OwnJoined
<1>4. Len(all) \in Nat /\ Len(more) \in Nat
  BY <1>1, OwnLen
<1>5. ASSUME NEW i \in 1 .. Len(u) PROVE Nests(u[i])
  <2>1. CASE i \in 1 .. Len(all)
    BY <1>1, <1>2, <2>1
  <2>2. CASE i \notin 1 .. Len(all)
    <3>1. i - Len(all) \in 1 .. Len(more) /\ Len(all) + (i - Len(all)) = i
      BY <1>2, <1>4, <2>2
    <3>2. PICK j : j = i - Len(all)
      OBVIOUS
    <3> QED BY <1>1, <1>2, <3>1, <3>2
  <2> QED BY <2>1, <2>2
<1> QED BY <1>3, <1>5 DEF AllNest

LEMMA LineIsAdded ==
  ASSUME NEW items, NEW of, NEW x \in Au, NEW y \in Au, NEW w \in Extent,
         NEW line, line.height \in Extent, GoodRuns(line.runs),
         NEW so_far, AllNest(so_far.fragments)
  PROVE  AllNest(add_line(items, of, x, y, w, line, so_far).fragments)
<1>1. PICK groups : groups = group_runs(line.runs)
  OBVIOUS
<1>2. IsSeq(groups) /\ \A g \in 1 .. Len(groups) : GoodGroup(groups[g])
  BY <1>1, GroupsAreGood
<1>3. Len(groups) \in Nat /\ DOMAIN groups = 1 .. Len(groups)
  BY <1>2, OwnLen
<1>4. PICK texts : texts = [g \in DOMAIN groups |-> text_fragment(items, of, x, y, line, groups[g])]
  OBVIOUS
<1>5. IsSeq(texts) /\ Len(texts) = Len(groups)
  <2>1. texts = [g \in 1 .. Len(groups) |-> texts[g]]
    BY <1>3, <1>4
  <2> QED BY ONLY <1>3, <2>1, OwnFunction
<1>6. AllNest(texts)
  <2>1. \A g \in 1 .. Len(texts) : Nests(texts[g])
    BY <1>2, <1>3, <1>4, <1>5, TextNests
  <2> QED BY <1>5, <2>1 DEF AllNest
<1>7. PICK rect : rect = span_rect(x, w, y, line.height)
  OBVIOUS
<1>8. PICK before : before = Len(so_far.fragments)
  OBVIOUS
<1>9. PICK whole : whole = Fragment(NoNode, "Line", of, rect, rect, rect,
                                    [g \in DOMAIN texts |-> before + g], <<>>)
  OBVIOUS
<1>10. Nests(whole)
  BY <1>7, <1>9, FlatNests
<1>11. PICK more : more = Append(texts, whole)
  OBVIOUS
<1>12. AllNest(more)
  BY <1>6, <1>10, <1>11, NestAppended
<1>13. PICK u : u = so_far.fragments \o more
  OBVIOUS
<1>14. AllNest(u)
  BY <1>12, <1>13, NestJoined
<1>15. add_line(items, of, x, y, w, line, so_far).fragments = u
  BY <1>1, <1>4, <1>7, <1>8, <1>9, <1>11, <1>13 DEF add_line
<1> QED BY <1>14, <1>15

(***************************************************************************)
(* Lines below each other.                                                 *)
(***************************************************************************)
BelowIs(p, lines) ==
  p = [l \in 0 .. Len(lines) |-> IF l = 0 THEN 0 ELSE saturating_add(p[l - 1], lines[l].height)]
Below(lines) == CHOOSE p : BelowIs(p, lines)

LEMMA BelowIsInRange ==
  ASSUME NEW lines, GoodLines(lines)
  PROVE  \A l \in 0 .. Len(lines) : Below(lines)[l] \in Au
<1>1. PICK n : n = Len(lines)
  OBVIOUS
<1>2. n \in Nat /\ \A l \in 1 .. n : lines[l].height \in Nat
  BY <1>1, OwnLen DEF GoodLines, Extent
<1>3. PICK cs : cs = [l \in 1 .. n |-> [advance |-> lines[l].height, glyphs |-> <<>>]]
  OBVIOUS
<1>4. IsSeq(cs) /\ Len(cs) = n
  <2>1. cs = [l \in 1 .. n |-> cs[l]]
    BY <1>3
  <2> QED BY ONLY <1>2, <2>1, OwnFunction
<1>5. \A l \in 1 .. n : cs[l].advance = lines[l].height /\ cs[l].glyphs = <<>>
  BY <1>3
<1>6. GoodClusters(cs)
  BY <1>2, <1>4, <1>5, EmptyIsSeq DEF GoodClusters
<1>7. \A p : Penning(p, cs, 0) <=> BelowIs(p, lines)
  <2>1. ASSUME NEW p
        PROVE  [l \in 0 .. n |-> IF l = 0 THEN 0 ELSE saturating_add(p[l - 1], cs[l].advance)]
                 = [l \in 0 .. n |-> IF l = 0 THEN 0 ELSE saturating_add(p[l - 1], lines[l].height)]
    <3>1. \A l \in 0 .. n : l # 0 => l \in 1 .. n
      BY <1>2
    <3> QED BY <1>5, <3>1
  <2> QED BY <1>1, <1>4, <2>1, Zenon DEF Penning, BelowIs
<1>8. PICK q : q = Pen(cs, 0)
  OBVIOUS
<1>9. 0 \in Au
  BY InRange
<1>10. Penning(q, cs, 0)
  BY <1>6, <1>8, <1>9, PenIsThere
<1>11. PICK p : p = Below(lines)
  OBVIOUS
<1>12. BelowIs(p, lines)
  BY <1>7, <1>10, <1>11, Zenon DEF Below
<1>13. Upward(p, Len(cs))
  BY <1>6, <1>7, <1>9, <1>12, PenGoesUp
<1> QED BY <1>1, <1>4, <1>11, <1>13 DEF Upward

(***************************************************************************)
(* What is there after each line.                                          *)
(***************************************************************************)
NoneAdded(all) == [fragments |-> all, ids |-> <<>>]
AddedLine(l, lines, items, of, origin, w, so_far) ==
  add_line(items, of, origin.x, saturating_add(origin.y, Below(lines)[l - 1]), w, lines[l], so_far)
Adding(h, n, lines, items, of, origin, w, all) ==
  h = [l \in 0 .. n |-> IF l = 0 THEN NoneAdded(all)
                        ELSE AddedLine(l, lines, items, of, origin, w, h[l - 1])]
Added(lines, items, of, origin, w, all) ==
  CHOOSE h : Adding(h, Len(lines), lines, items, of, origin, w, all)

LEMMA FragmentsAreBuilt ==
  ASSUME NEW lines, NEW items, NEW of, NEW origin, NEW w, NEW all
  PROVE  build_fragments(lines, items, of, origin, w, all)
           = [failed |-> FALSE, added |-> Added(lines, items, of, origin, w, all)[Len(lines)],
              height |-> Below(lines)[Len(lines)]]
BY Zenon DEF build_fragments, Added, Adding, AddedLine, NoneAdded, Below, BelowIs

LEMMA AddingExists ==
  ASSUME NEW n \in Nat, NEW lines, NEW items, NEW of, NEW origin, NEW w, NEW all
  PROVE  \E h : Adding(h, n, lines, items, of, origin, w, all)
<1>1. PICK G : G = {m \in 0 .. n : \E h : Adding(h, m, lines, items, of, origin, w, all)}
  OBVIOUS
<1>2. 0 \in G
  <2>1. PICK h : h = [k \in 0 .. 0 |-> NoneAdded(all)]
    OBVIOUS
  <2>2. \A k \in 0 .. 0 : k = 0
    OBVIOUS
  <2>3. Adding(h, 0, lines, items, of, origin, w, all)
    BY <2>1, <2>2 DEF Adding
  <2> QED BY <1>1, <2>3
<1>3. ASSUME NEW m \in 1 .. n, m - 1 \in G PROVE m \in G
  <2>1. PICK h : Adding(h, m - 1, lines, items, of, origin, w, all)
    BY <1>1, <1>3
  <2>2. PICK v : v = AddedLine(m, lines, items, of, origin, w, h[m - 1])
    OBVIOUS
  <2>3. PICK g : g = [k \in 0 .. m |-> IF k = m THEN v ELSE h[k]]
    OBVIOUS
  <2>4. \A k \in 0 .. m - 1 : h[k] = IF k = 0 THEN NoneAdded(all)
                                     ELSE AddedLine(k, lines, items, of, origin, w, h[k - 1])
    BY <2>1 DEF Adding
  <2>5. ASSUME NEW k \in 0 .. m
        PROVE  g[k] = IF k = 0 THEN NoneAdded(all)
                      ELSE AddedLine(k, lines, items, of, origin, w, g[k - 1])
    <3>1. k = m => k # 0
      OBVIOUS
    <3>2. k # m => k \in 0 .. m - 1
      OBVIOUS
    <3>3. k # 0 => k - 1 \in 0 .. m /\ k - 1 # m
      OBVIOUS
    <3>4. k # 0 => g[k - 1] = h[k - 1]
      BY <2>3, <3>3
    <3>5. g[k] = IF k = m THEN v ELSE h[k]
      BY <2>3
    <3> QED BY <2>2, <2>4, <3>1, <3>2, <3>4, <3>5
  <2>6. Adding(g, m, lines, items, of, origin, w, all)
    <3>1. g = [k \in 0 .. m |-> g[k]]
      BY <2>3
    <3> QED BY <2>5, <3>1 DEF Adding
  <2> QED BY <1>1, <2>6
<1>4. n \in G
  BY ONLY <1>2, <1>3, n \in Nat, Upwards
<1> QED BY <1>1, <1>4

LEMMA AddedNest ==
  ASSUME NEW lines, GoodLines(lines), NEW items, NEW of, NEW p, IsPoint(p), NEW w \in Extent,
         NEW all, AllNest(all)
  PROVE  AllNest(Added(lines, items, of, p, w, all)[Len(lines)].fragments)
<1>1. PICK n : n = Len(lines)
  OBVIOUS
<1>2. n \in Nat
  BY <1>1, OwnLen DEF GoodLines
<1>3. PICK h : h = Added(lines, items, of, p, w, all)
  OBVIOUS
<1>4. Adding(h, n, lines, items, of, p, w, all)
  <2>1. \E g : Adding(g, n, lines, items, of, p, w, all)
    BY <1>2, AddingExists
  <2> QED BY <1>1, <1>3, <2>1, Zenon DEF Added
<1>5. \A k \in 0 .. n : h[k] = IF k = 0 THEN NoneAdded(all)
                               ELSE AddedLine(k, lines, items, of, p, w, h[k - 1])
  BY <1>4 DEF Adding
<1>6. ASSUME NEW l \in 1 .. n, NEW s, AllNest(s.fragments)
      PROVE  AllNest(AddedLine(l, lines, items, of, p, w, s).fragments)
  <2>1. lines[l].height \in Extent /\ GoodRuns(lines[l].runs)
    BY <1>1 DEF GoodLines
  <2>2. l - 1 \in 0 .. n
    BY <1>2
  <2>3. PICK b : b = Below(lines)[l - 1]
    OBVIOUS
  <2>4. b \in Au
    BY <1>1, <2>2, <2>3, BelowIsInRange
  <2>5. PICK y : y = saturating_add(p.y, b)
    OBVIOUS
  <2>6. p.x \in Au /\ y \in Au
    <3>1. p.x \in Au /\ p.y \in Au
      BY DEF IsPoint
    <3>2. p.y \in Int /\ b \in Int
      BY <2>4, <3>1, Saturates
    <3> QED BY <2>5, <3>1, <3>2, Saturates
  <2>7. AllNest(add_line(items, of, p.x, y, w, lines[l], s).fragments)
    BY <1>6, <2>1, <2>6, LineIsAdded
  <2> QED BY <2>3, <2>5, <2>7 DEF AddedLine
<1>7. PICK G : G = {k \in 0 .. n : AllNest(h[k].fragments)}
  OBVIOUS
<1>8. 0 \in G
  <2>1. h[0] = NoneAdded(all) /\ 0 \in 0 .. n
    BY <1>2, <1>5
  <2> QED BY <1>7, <2>1 DEF NoneAdded
<1>9. \A k \in 1 .. n : k - 1 \in G => k \in G
  <2> TAKE k \in 1 .. n
  <2>1. k \in 0 .. n /\ k # 0
    BY <1>2
  <2>2. h[k] = AddedLine(k, lines, items, of, p, w, h[k - 1])
    BY <1>5, <2>1
  <2> QED BY <1>6, <1>7, <2>1, <2>2
<1>10. n \in G
  BY ONLY <1>2, <1>8, <1>9, Upwards
<1> QED BY <1>1, <1>3, <1>7, <1>10

(***************************************************************************)
(* A leaf.                                                                 *)
(***************************************************************************)
GoodAnswer(answer) == answer.failed \/ (AllNest(answer.added.fragments) /\ answer.height \in Au)

LEMMA AnswersAreGood ==
  ASSUME BoxesDone, IsDocument(doc), AllNest(fragments), NEW id \in BoxIds, NEW p, IsPoint(p),
         NEW m, GoodModel(m), NEW answer \in leaf_answers(id, p, m)
  PROVE  GoodAnswer(answer)
<1>1. PICK at : at = content_origin_of(p, m)
  OBVIOUS
<1>2. IsPoint(at) /\ m.content_width \in Extent
  BY <1>1, ContentIsAPoint DEF GoodModel
<1>3. PICK items : items = collect_pieces(doc, boxes, boxes[id].children)
  OBVIOUS
<1>4. GoodItems(items)
  BY <1>3, PiecesAreGood
<1>5. PICK style : style = boxes[id].style
  OBVIOUS
<1>6. style.text.line_height \in Au
  BY <1>5 DEF BoxesDone, StyledBox, GoodStyle
<1>7. ASSUME NEW lines \in layout_inline(items, style, m.content_width)
      PROVE  GoodAnswer(build_fragments(lines, items, id, at, m.content_width, fragments))
  <2>1. GoodLines(lines)
    BY <1>2, <1>4, <1>6, InlineLinesAreGood
  <2>2. AllNest(Added(lines, items, id, at, m.content_width, fragments)[Len(lines)].fragments)
    BY <1>2, <2>1, AddedNest
  <2>3. Below(lines)[Len(lines)] \in Au
    <3>1. Len(lines) \in 0 .. Len(lines)
      BY <2>1, OwnLen DEF GoodLines
    <3> QED BY <2>1, <3>1, BelowIsInRange
  <2> QED BY <2>2, <2>3, FragmentsAreBuilt DEF GoodAnswer
<1>8. GoodAnswer(FontNotBundled)
  BY DEF GoodAnswer, FontNotBundled
<1>9. GoodAnswer([failed |-> FALSE, added |-> [fragments |-> fragments, ids |-> <<>>], height |-> 0])
  BY InRange DEF GoodAnswer
<1>10. \/ answer = [failed |-> FALSE, added |-> [fragments |-> fragments, ids |-> <<>>], height |-> 0]
       \/ answer \in inline_layout(boxes[id].children, style, id, at, m.content_width, fragments)
  BY <1>1, <1>5 DEF leaf_answers
<1>11. answer \in inline_layout(boxes[id].children, style, id, at, m.content_width, fragments)
         => \/ answer = FontNotBundled
            \/ \E lines \in layout_inline(items, style, m.content_width) :
                 answer = build_fragments(lines, items, id, at, m.content_width, fragments)
  BY <1>3 DEF inline_layout
<1> QED BY <1>7, <1>8, <1>9, <1>10, <1>11

\* The height of a block.
LEMMA HeightInRange ==
  ASSUME NEW m, GoodModel(m), NEW v \in Au
  PROVE  (IF m.known_height # None THEN m.known_height[1]
          ELSE clamp_au(v, m.min_height, m.max_height)) \in Au
<1>1. m.known_height # None => m.known_height[1] \in Au
  BY InRange DEF GoodModel, MaybeExtent
<1>2. clamp_au(v, m.min_height, m.max_height) \in Au
  <2>1. clamp_au(v, m.min_height, m.max_height) \in Extent
    BY SizeIsClamped DEF GoodModel
  <2> QED BY <2>1, InRange
<1> QED BY <1>1, <1>2

LEMMA LeafNests ==
  ASSUME BoxesDone, AllNest(fragments), NEW id \in BoxIds, NEW p, IsPoint(p),
         NEW m, GoodModel(m), NEW w \in Extent, NEW h, MaybeExtent(h),
         NEW answer, GoodAnswer(answer), NEW leaf, leaf = layout_leaf(id, p, m, w, h, answer)
  PROVE  AllNest(leaf.fragments) /\ leaf.height \in Au
<1>1. PICK inner : inner = IF answer.failed THEN 0 ELSE answer.height
  OBVIOUS
<1>2. inner \in Au
  BY <1>1, InRange DEF GoodAnswer
<1>3. PICK height : height = IF m.known_height # None THEN m.known_height[1]
                             ELSE clamp_au(inner, m.min_height, m.max_height)
  OBVIOUS
<1>4. height \in Au
  BY <1>2, <1>3, HeightInRange
<1>5. PICK ids : ids = IF answer.failed THEN <<>> ELSE answer.added.ids
  OBVIOUS
<1>6. PICK f : f = block_fragment(id, p, m, height, ids)
  OBVIOUS
<1>7. Nests(f) /\ f.of = id /\ f.border_box.y.size \in Au
  BY <1>4, <1>6, BlockNests
<1>8. PICK all : all = IF answer.failed THEN fragments ELSE answer.added.fragments
  OBVIOUS
<1>9. AllNest(all)
  BY <1>8 DEF GoodAnswer
<1>10. PICK start : start = Len(fragments)
  OBVIOUS
<1>11. AllNest(push_block(all, f, start, w, h))
  BY <1>7, <1>9, PushedNest
<1>12. leaf.height = f.border_box.y.size /\ leaf.fragments = push_block(all, f, start, w, h)
  BY <1>1, <1>3, <1>5, <1>6, <1>8, <1>10 DEF layout_leaf
<1> QED BY <1>7, <1>11, <1>12

(***************************************************************************)
(* The layout of a page.                                                   *)
(***************************************************************************)
GoodStack(s) == IsSeq(s) /\ \A k \in 1 .. Len(s) : GoodOpen(s[k])

(* Layout waits for the boxes; what it has made nests, the blocks it has   *)
(* not finished are where they may be, and so is every margin it knows.    *)
LayInv ==
  /\ BoxInv /\ StyleInv
  /\ AllNest(fragments) /\ GoodStack(stack)
  /\ stack # <<>> => root # 0 /\ GoodMemo(memo[1]) /\ GoodMemo(memo[2])

LEMMA BoxesAreDone ==
  ASSUME BoxInv, StyleInv
  PROVE  /\ BoxesDone /\ IsDocument(doc)
         /\ root # 0 => root \in BoxIds /\ ~ BuildStep
<1>1. /\ IsSeq(boxes) /\ IsDocument(doc) /\ root \in 0 .. Len(boxes) /\ (root # 0 => frames = <<>>)
      /\ \A b \in 1 .. Len(boxes) : GoodBox(boxes, boxes[b]) /\ StyledBox(doc, boxes[b])
  BY DEF BoxInv, Sound, GoodBoxes, IsLoose, StyleInv, StyledPage
<1>2. BoxesDone
  BY <1>1 DEF BoxesDone, BoxIds
<1>3. root # 0 => root \in BoxIds
  <2>1. Len(boxes) \in Nat
    BY <1>1, OwnLen
  <2> QED BY <1>1, <2>1 DEF BoxIds
<1>4. root # 0 => ~ BuildStep
  BY <1>1 DEF BuildStep, BuildNothing, EnterRoot, VisitChild, FinishBox, Unstarted
<1> QED BY <1>1, <1>2, <1>3, <1>4

\* The stack with another block on top, or the top one gone on.
LEMMA StackGrows ==
  ASSUME NEW s, GoodStack(s), NEW f, GoodOpen(f), NEW t, t = <<f>> \o s
  PROVE  GoodStack(t)
<1>1. IsSeq(s) /\ \A k \in 1 .. Len(s) : GoodOpen(s[k])
  BY DEF GoodStack
<1>2. IsSeq(<<f>>) /\ Len(<<f>>) = 1 /\ <<f>>[1] = f
  BY OwnOne
<1>3. /\ Len(t) = 1 + Len(s) /\ t[1] = f /\ \A k \in 1 .. Len(s) : t[1 + k] = s[k]
  <2>1. 1 \in 1 .. 1
    OBVIOUS
  <2> QED BY <1>1, <1>2, <2>1, OwnJoined
<1>4. IsSeq(t)
  BY <1>1, <1>2, OwnJoined
<1>5. Len(s) \in Nat
  BY <1>1, OwnLen
<1>6. ASSUME NEW k \in 1 .. Len(t) PROVE GoodOpen(t[k])
  <2>1. CASE k = 1
    BY <1>3, <2>1
  <2>2. CASE k # 1
    <3>1. k - 1 \in 1 .. Len(s) /\ 1 + (k - 1) = k
      BY <1>3, <1>5, <2>2
    <3> QED BY <1>1, <1>3, <3>1
  <2> QED BY <2>1, <2>2
<1> QED BY <1>4, <1>6 DEF GoodStack

LEMMA TailIsGood ==
  ASSUME NEW s, GoodStack(s), s # <<>>
  PROVE  GoodStack(Tail(s)) /\ GoodOpen(Head(s)) /\ Head(s) = s[1]
<1>1. IsSeq(s) /\ \A k \in 1 .. Len(s) : GoodOpen(s[k])
  BY DEF GoodStack
<1>2. PICK t : t = Tail(s)
  OBVIOUS
<1>3. /\ IsSeq(t) /\ Len(t) = Len(s) - 1 /\ \A i \in 1 .. Len(s) - 1 : t[i] = s[i + 1]
      /\ Head(s) = s[1] /\ 1 \in 1 .. Len(s) /\ Len(s) \in Nat
  BY <1>1, <1>2, OwnTail, OwnLen
<1>4. ASSUME NEW k \in 1 .. Len(t) PROVE GoodOpen(t[k])
  <2>1. k \in 1 .. Len(s) - 1 /\ k + 1 \in 1 .. Len(s)
    BY <1>3
  <2> QED BY <1>1, <1>3, <2>1
<1> QED BY <1>1, <1>2, <1>3, <1>4 DEF GoodStack

LEMMA TopGoesOn ==
  ASSUME NEW f, GoodOpen(f), NEW g, g = [f EXCEPT !.next_child = @ + 1]
  PROVE  GoodOpen(g)
<1>1. f.next_child + 1 \in Nat \ {0}
  BY DEF GoodOpen
<1>2. /\ DOMAIN g = OpenKeys /\ g.next_child = f.next_child + 1
      /\ g.id = f.id /\ g.model = f.model /\ g.origin = f.origin
      /\ g.content_origin = f.content_origin /\ g.cb_width = f.cb_width
      /\ g.cb_height = f.cb_height /\ g.running_content_bottom = f.running_content_bottom
      /\ g.prev_margin_bottom = f.prev_margin_bottom
      /\ g.effective_margin_bottom = f.effective_margin_bottom
  BY DEF GoodOpen, OpenKeys
<1> QED BY <1>1, <1>2 DEF GoodOpen

LEMMA GoesOnBelow ==
  ASSUME NEW f, GoodOpen(f), NEW p, IsPoint(p), NEW height \in Au, NEW bottom \in Au, NEW id,
         NEW g, g = below_child(f, p, height, bottom, id)
  PROVE  GoodOpen(g)
<1>1. PICK v : v = add(saturating_sub(p.y, f.content_origin.y), height)
  OBVIOUS
<1>2. v \in Au
  <2>1. p.y \in Au /\ f.content_origin.y \in Au
    BY DEF GoodOpen, IsPoint
  <2>2. saturating_sub(p.y, f.content_origin.y) \in Au
    BY <2>1, InRange
  <2> QED BY <1>1, <2>2, InRange
<1>3. /\ DOMAIN g = OpenKeys /\ g.next_child = f.next_child
      /\ g.id = f.id /\ g.model = f.model /\ g.origin = f.origin
      /\ g.content_origin = f.content_origin /\ g.cb_width = f.cb_width
      /\ g.cb_height = f.cb_height /\ g.running_content_bottom = v
      /\ g.prev_margin_bottom = Some(bottom)
      /\ g.effective_margin_bottom = f.effective_margin_bottom
  BY <1>1 DEF below_child, GoodOpen, OpenKeys
<1>4. MaybeAu(Some(bottom))
  BY DEF MaybeAu, Some
<1> QED BY <1>2, <1>3, <1>4 DEF GoodOpen

\* The root and its frame.
LEMMA RootIsGood ==
  ASSUME BoxesDone, root \in BoxIds
  PROVE  /\ GoodModel(RootModel) /\ IsPoint(RootOrigin(RootModel)) /\ GoodOpen(RootFrame(RootModel))
         /\ Viewport.x \in Extent /\ MaybeExtent(Some(Viewport.y))
<1>1. Viewport.x \in Extent /\ Viewport.y \in Extent
  BY ViewportAssumption DEF Axes, Extent
<1>2. MaybeExtent(Some(Viewport.y))
  BY <1>1 DEF MaybeExtent, Some
<1>3. PICK m : m = RootModel
  OBVIOUS
<1>4. GoodModel(m)
  <2>1. GoodStyle(boxes[root].style)
    BY DEF BoxesDone, StyledBox
  <2>2. GoodModel(resolve_box_model(boxes[root].style, Viewport.x, Some(Viewport.y)))
    BY <1>1, <1>2, <2>1, ModelIsGood
  <2> QED BY <1>3, <2>2 DEF RootModel
<1>5. PICK p : p = RootOrigin(m)
  OBVIOUS
<1>6. IsPoint(p)
  BY <1>4, <1>5 DEF RootOrigin, GoodModel, IsPoint
<1>7. PICK f : f = RootFrame(m)
  OBVIOUS
<1>8. PICK h : h = Some(Viewport.y)
  OBVIOUS
<1>9. PICK passes : passes = <<FALSE, FALSE>>
  OBVIOUS
<1>10. f = LayoutFrame(root, 0, p, m, h, Viewport.x, passes, 0)
  BY <1>5, <1>7, <1>8, <1>9 DEF RootFrame
<1>11. GoodOpen(f)
  BY <1>1, <1>2, <1>4, <1>6, <1>8, <1>10, EnteredIsGood, InRange
<1> QED BY <1>1, <1>2, <1>3, <1>4, <1>5, <1>6, <1>7, <1>11

LEMMA NothingIsKnown == GoodMemo(NoMemo[1]) /\ GoodMemo(NoMemo[2])
  <=> DOMAIN boxes = BoxIds
<1>1. /\ NoMemo[1] = [id \in DOMAIN boxes |-> None] /\ NoMemo[2] = [id \in DOMAIN boxes |-> None]
  BY DEF NoMemo
<1> QED BY <1>1 DEF GoodMemo, MaybeAu

\* The next child of the block on top.
LEMMA NextIsABox ==
  ASSUME BoxesDone, GoodStack(stack), HasNextChild
  PROVE  NextChild \in BoxIds
<1>1. PICK top : top = Head(stack)
  OBVIOUS
<1>2. GoodOpen(top)
  BY <1>1, TailIsGood DEF HasNextChild
<1>3. PICK cs : cs = boxes[top.id].children
  OBVIOUS
<1>4. cs \in Seq(BoxIds)
  BY <1>2, <1>3 DEF GoodOpen, BoxesDone, GoodBox, BoxIds
<1>5. top.next_child \in 1 .. Len(cs)
  <2>1. top.next_child \in Nat \ {0} /\ top.next_child <= Len(cs) /\ Len(cs) \in Nat
    BY <1>1, <1>2, <1>3, <1>4, LenProperties DEF HasNextChild, GoodOpen
  <2> QED BY <2>1
<1>6. cs[top.next_child] \in BoxIds
  BY <1>4, <1>5, ElementOfSeq
<1> QED BY <1>1, <1>3, <1>6 DEF NextChild

(***************************************************************************)
(* The steps of layout.                                                    *)
(***************************************************************************)
LayoutGoesOn ==
  /\ AllNest(fragments') /\ GoodStack(stack')
  /\ stack' # <<>> => GoodMemo(memo'[1]) /\ GoodMemo(memo'[2])

LEMMA RootIsLaidOut ==
  ASSUME BoxesDone, IsDocument(doc), LayInv, root # 0, EnterRootBlock
  PROVE  LayoutGoesOn
<1>1. root \in BoxIds
  BY BoxesAreDone DEF LayInv
<1>2. AllNest(fragments) /\ GoodStack(stack)
  BY DEF LayInv
<1>3. PICK m : m = RootModel
  OBVIOUS
<1>4. PICK p : p = RootOrigin(m)
  OBVIOUS
<1>5. PICK f : f = RootFrame(m)
  OBVIOUS
<1>6. PICK h : h = Some(Viewport.y)
  OBVIOUS
<1>7. GoodModel(m) /\ IsPoint(p) /\ GoodOpen(f) /\ Viewport.x \in Extent /\ MaybeExtent(h)
  BY <1>1, <1>3, <1>4, <1>5, <1>6, RootIsGood
<1>8. GoodMemo(memo'[1]) /\ GoodMemo(memo'[2])
  <2>1. DOMAIN boxes = BoxIds
    BY OwnLen DEF BoxesDone, BoxIds
  <2> QED BY <2>1, NothingIsKnown DEF EnterRootBlock
<1>9. \/ stack' = <<f>> /\ fragments' = fragments
      \/ /\ stack' = stack
         /\ \E answer \in leaf_answers(root, p, m) :
              fragments' = layout_leaf(root, p, m, Viewport.x, h, answer).fragments
  BY <1>3, <1>4, <1>5, <1>6 DEF EnterRootBlock
<1>10. CASE stack' = <<f>> /\ fragments' = fragments
  <2>1. IsSeq(<<f>>) /\ Len(<<f>>) = 1 /\ <<f>>[1] = f
    BY OwnOne
  <2>2. \A k \in 1 .. 1 : k = 1
    OBVIOUS
  <2>3. GoodStack(stack')
    BY <1>7, <1>10, <2>1, <2>2 DEF GoodStack
  <2> QED BY <1>2, <1>8, <1>10, <2>3 DEF LayoutGoesOn
<1>11. CASE /\ stack' = stack
            /\ \E answer \in leaf_answers(root, p, m) :
                 fragments' = layout_leaf(root, p, m, Viewport.x, h, answer).fragments
  <2>1. PICK answer \in leaf_answers(root, p, m) :
          fragments' = layout_leaf(root, p, m, Viewport.x, h, answer).fragments
    BY <1>11
  <2>2. GoodAnswer(answer)
    BY <1>1, <1>2, <1>7, AnswersAreGood
  <2>3. AllNest(layout_leaf(root, p, m, Viewport.x, h, answer).fragments)
    BY <1>1, <1>2, <1>7, <2>2, LeafNests
  <2> QED BY <1>2, <1>8, <1>11, <2>1, <2>3 DEF LayoutGoesOn
<1> QED BY <1>9, <1>10, <1>11

LEMMA StackGrowsByTwo ==
  ASSUME NEW s, GoodStack(s), NEW f, GoodOpen(f), NEW g, GoodOpen(g), NEW t, t = <<f, g>> \o s
  PROVE  GoodStack(t)
<1>1. IsSeq(s) /\ Len(s) \in Nat /\ \A k \in 1 .. Len(s) : GoodOpen(s[k])
  BY OwnLen DEF GoodStack
<1>2. PICK u : u = <<f, g>>
  OBVIOUS
<1>3. Len(u) = 2 /\ u[1] = f /\ u[2] = g /\ u \in Seq({f, g})
  BY <1>2
<1>4. IsSeq(u)
  BY <1>3, OwnSeq
<1>5. /\ Len(t) = Len(u) + Len(s) /\ \A i \in 1 .. Len(u) : t[i] = u[i]
      /\ \A k \in 1 .. Len(s) : t[Len(u) + k] = s[k]
  BY <1>1, <1>2, <1>4, OwnJoined
<1>6. IsSeq(t)
  BY <1>1, <1>2, <1>4, OwnJoined
<1>7. ASSUME NEW k \in 1 .. Len(t) PROVE GoodOpen(t[k])
  <2>1. CASE k = 1
    BY <1>3, <1>5, <2>1
  <2>2. CASE k = 2
    BY <1>3, <1>5, <2>2
  <2>3. CASE k # 1 /\ k # 2
    <3>1. k - 2 \in 1 .. Len(s) /\ 2 + (k - 2) = k
      BY <1>1, <1>3, <1>5, <2>3
    <3> QED BY <1>1, <1>3, <1>5, <3>1
  <2> QED BY <2>1, <2>2, <2>3
<1> QED BY <1>6, <1>7 DEF GoodStack

LEMMA ContainerIsPushed ==
  ASSUME BoxesDone, LayInv, PushContainer
  PROVE  LayoutGoesOn
<1>1. PICK id : id = NextChild
  OBVIOUS
<1>2. PICK top : top = Head(stack)
  OBVIOUS
<1>3. /\ AllNest(fragments) /\ GoodStack(stack) /\ stack # <<>> /\ HasNextChild
      /\ GoodMemo(memo[1]) /\ GoodMemo(memo[2])
  BY DEF LayInv, PushContainer, HasNextChild
<1>4. id \in BoxIds /\ GoodOpen(top) /\ GoodStack(Tail(stack))
  BY <1>1, <1>2, <1>3, NextIsABox, TailIsGood
<1>5. PICK at : at = place_child(id, top)
  OBVIOUS
<1>6. Placed(at)
  BY <1>3, <1>4, <1>5, ChildIsPlaced
<1>7. PICK passes : passes = <<margin_passes_top(boxes[id].style, at.model),
                               margin_passes_bottom(boxes[id].style, at.model)>>
  OBVIOUS
<1>8. PICK start : start = Len(fragments)
  OBVIOUS
<1>9. PICK f : f = LayoutFrame(id, start, at.origin, at.model, at.cb_height, at.cb_width, passes, at.bottom)
  OBVIOUS
<1>10. GoodOpen(f)
  <2>1. /\ GoodModel(at.model) /\ at.bottom \in Au /\ IsPoint(at.origin)
        /\ at.cb_width \in Extent /\ MaybeExtent(at.cb_height)
    BY <1>6 DEF Placed
  <2> QED BY <1>4, <1>9, <2>1, EnteredIsGood
<1>11. PICK g : g = [top EXCEPT !.next_child = @ + 1]
  OBVIOUS
<1>12. GoodOpen(g)
  BY <1>4, <1>11, TopGoesOn
<1>13. /\ memo' = at.memo /\ fragments' = fragments /\ stack' = <<f, g>> \o Tail(stack)
  BY <1>1, <1>2, <1>5, <1>7, <1>8, <1>9, <1>11 DEF PushContainer, advanced
<1>14. GoodStack(stack')
  BY <1>4, <1>10, <1>12, <1>13, StackGrowsByTwo
<1> QED BY <1>3, <1>6, <1>13, <1>14 DEF LayoutGoesOn, Placed

LEMMA LeafIsResolved ==
  ASSUME BoxesDone, IsDocument(doc), LayInv, ResolveLeaf
  PROVE  LayoutGoesOn
<1>1. PICK id : id = NextChild
  OBVIOUS
<1>2. PICK top : top = Head(stack)
  OBVIOUS
<1>3. /\ AllNest(fragments) /\ GoodStack(stack) /\ stack # <<>> /\ HasNextChild
      /\ GoodMemo(memo[1]) /\ GoodMemo(memo[2])
  BY DEF LayInv, ResolveLeaf, HasNextChild
<1>4. id \in BoxIds /\ GoodOpen(top) /\ GoodStack(Tail(stack))
  BY <1>1, <1>2, <1>3, NextIsABox, TailIsGood
<1>5. PICK at : at = place_child(id, top)
  OBVIOUS
<1>6. Placed(at)
  BY <1>3, <1>4, <1>5, ChildIsPlaced
<1>7. PICK g : g = [top EXCEPT !.next_child = @ + 1]
  OBVIOUS
<1>8. GoodOpen(g)
  BY <1>4, <1>7, TopGoesOn
<1>9. /\ GoodModel(at.model) /\ at.bottom \in Au /\ IsPoint(at.origin)
      /\ at.cb_width \in Extent /\ MaybeExtent(at.cb_height)
  BY <1>6 DEF Placed
<1>10. ResolveLeaf /\ advanced = g
  BY <1>2, <1>7 DEF advanced
<1>11. PICK answer \in leaf_answers(id, at.origin, at.model) :
         LET leaf == layout_leaf(id, at.origin, at.model, at.cb_width, at.cb_height, answer)
         IN  /\ memo' = at.memo /\ fragments' = leaf.fragments
             /\ stack' = <<below_child(g, at.origin, leaf.height, at.bottom, Len(leaf.fragments))>>
                           \o Tail(stack)
  <2>1. PICK a \in {place_child(NextChild, Head(stack))} :
          \E answer \in leaf_answers(NextChild, a.origin, a.model) :
            LET leaf == layout_leaf(NextChild, a.origin, a.model, a.cb_width, a.cb_height, answer)
            IN  /\ memo' = a.memo /\ fragments' = leaf.fragments /\ error' = leaf.error
                /\ stack' = <<below_child(advanced, a.origin, leaf.height, a.bottom,
                                          Len(leaf.fragments))>> \o Tail(stack)
    BY ONLY <1>10, Zenon DEF ResolveLeaf
  <2>2. a = at
    BY <1>1, <1>2, <1>5
  <2>3. NextChild = id /\ advanced = g
    BY <1>1, <1>10
  <2> QED BY ONLY <2>1, <2>2, <2>3, Zenon
<1>12. PICK leaf : leaf = layout_leaf(id, at.origin, at.model, at.cb_width, at.cb_height, answer)
  OBVIOUS
<1>13. GoodAnswer(answer)
  BY <1>3, <1>4, <1>9, AnswersAreGood
<1>14. AllNest(leaf.fragments) /\ leaf.height \in Au
  BY <1>3, <1>4, <1>9, <1>12, <1>13, LeafNests
<1>15. PICK f : f = below_child(g, at.origin, leaf.height, at.bottom, Len(leaf.fragments))
  OBVIOUS
<1>16. GoodOpen(f)
  BY <1>8, <1>9, <1>14, <1>15, GoesOnBelow
<1>17. /\ memo' = at.memo /\ fragments' = leaf.fragments /\ stack' = <<f>> \o Tail(stack)
  BY <1>11, <1>12, <1>15
<1>18. GoodStack(stack')
  BY <1>4, <1>16, <1>17, StackGrows
<1> QED BY <1>6, <1>14, <1>17, <1>18 DEF LayoutGoesOn, Placed

LEMMA TopIsFinalized ==
  ASSUME BoxesDone, LayInv, FinalizeTop
  PROVE  LayoutGoesOn
<1>1. PICK top : top = Head(stack)
  OBVIOUS
<1>2. /\ AllNest(fragments) /\ GoodStack(stack) /\ stack # <<>>
      /\ GoodMemo(memo[1]) /\ GoodMemo(memo[2]) /\ memo' = memo
  BY DEF LayInv, FinalizeTop
<1>3. GoodOpen(top) /\ GoodStack(Tail(stack))
  BY <1>1, <1>2, TailIsGood
<1>4. /\ top.id \in BoxIds /\ GoodModel(top.model) /\ IsPoint(top.origin)
      /\ top.cb_width \in Extent /\ MaybeExtent(top.cb_height)
      /\ top.running_content_bottom \in Au /\ MaybeAu(top.prev_margin_bottom)
      /\ top.effective_margin_bottom \in Au
  BY <1>3 DEF GoodOpen
<1>5. PICK v : v = add(top.running_content_bottom,
               IF top.bottom_collapse_eligible THEN 0 ELSE unwrap_or(top.prev_margin_bottom, 0))
  OBVIOUS
<1>6. v \in Au
  <2>1. PICK u : u = IF top.bottom_collapse_eligible THEN 0 ELSE unwrap_or(top.prev_margin_bottom, 0)
    OBVIOUS
  <2>2. u \in Au
    BY <1>4, <2>1, InRange DEF unwrap_or, MaybeAu
  <2> QED BY <1>4, <1>5, <2>1, <2>2, InRange
<1>7. PICK height : height = IF top.model.known_height # None THEN top.model.known_height[1]
                             ELSE clamp_au(v, top.model.min_height, top.model.max_height)
  OBVIOUS
<1>8. height \in Au
  BY <1>4, <1>6, <1>7, HeightInRange
<1>9. PICK f : f = block_fragment(top.id, top.origin, top.model, height, top.children)
  OBVIOUS
<1>10. Nests(f) /\ f.of = top.id /\ f.border_box.y.size \in Au
  BY <1>4, <1>8, <1>9, BlockNests
<1>11. AllNest(push_block(fragments, f, top.frag_start, top.cb_width, top.cb_height))
  BY <1>2, <1>4, <1>10, PushedNest
<1>12. PICK below : below = below_child(Tail(stack)[1], top.origin, f.border_box.y.size,
                                        top.effective_margin_bottom, Len(fragments'))
  OBVIOUS
<1>13. /\ fragments' = push_block(fragments, f, top.frag_start, top.cb_width, top.cb_height)
       /\ \/ stack' = <<>>
          \/ Tail(stack) # <<>> /\ stack' = Topped(Tail(stack), below)
  BY <1>1, <1>5, <1>7, <1>9, <1>12 DEF FinalizeTop, auto_height, Topped
<1>14. CASE stack' = <<>>
  BY <1>11, <1>13, <1>14, EmptyIsSeq DEF LayoutGoesOn, GoodStack
<1>15. CASE Tail(stack) # <<>> /\ stack' = Topped(Tail(stack), below)
  <2>1. PICK s : s = Tail(stack)
    OBVIOUS
  <2>2. IsSeq(s) /\ s # <<>> /\ \A k \in 1 .. Len(s) : GoodOpen(s[k])
    BY <1>3, <1>15, <2>1 DEF GoodStack
  <2>3. 1 \in 1 .. Len(s)
    BY <2>2, OwnTail
  <2>4. GoodOpen(below)
    BY <1>4, <1>10, <1>12, <2>1, <2>2, <2>3, GoesOnBelow
  <2>5. PICK t : t = stack'
    OBVIOUS
  <2>6. t = Topped(s, below)
    BY <1>15, <2>1, <2>5
  <2>7. IsSeq(t) /\ Len(t) = Len(s) /\ t[1] = below /\ \A j \in 1 .. Len(s) : j # 1 => t[j] = s[j]
    BY ONLY <2>2, <2>6, OwnFirst
  <2>8. GoodStack(t)
    BY <2>2, <2>4, <2>7 DEF GoodStack
  <2> QED BY <1>2, <1>11, <1>13, <2>5, <2>8 DEF LayoutGoesOn
<1> QED BY <1>13, <1>14, <1>15

(***************************************************************************)
(* Layout.tla's invariant.                                                 *)
(***************************************************************************)
LEMMA LayInvStarts == Init => LayInv
<1> SUFFICES ASSUME Init PROVE LayInv
  OBVIOUS
<1>1. BoxInv /\ StyleInv
  BY BoxesStart, StylesStart DEF Init
<1>2. fragments = <<>> /\ stack = <<>>
  BY DEF Init, LayoutInit
<1>3. AllNest(<<>>) /\ GoodStack(<<>>)
  BY EmptyIsSeq DEF AllNest, GoodStack
<1> QED BY <1>1, <1>2, <1>3 DEF LayInv

LEMMA LayInvStep == LayInv /\ [Next]_vars => LayInv'
<1> SUFFICES ASSUME LayInv, [Next]_vars PROVE LayInv'
  OBVIOUS
<1>1. /\ BoxInv /\ StyleInv /\ AllNest(fragments) /\ GoodStack(stack)
      /\ stack # <<>> => root # 0 /\ GoodMemo(memo[1]) /\ GoodMemo(memo[2])
  BY DEF LayInv
<1>2. BoxesDone /\ IsDocument(doc) /\ (root # 0 => root \in BoxIds /\ ~ BuildStep)
  BY <1>1, BoxesAreDone
<1>3. CASE BuildStep /\ UNCHANGED layoutVars
  <2>1. root = 0 /\ stack = <<>>
    BY <1>1, <1>2, <1>3
  <2>2. BoxInv' /\ StyleInv'
    BY <1>1, <1>3, BoxesStep, StylesStep
  <2>3. fragments' = fragments /\ stack' = stack
    BY <1>3 DEF layoutVars
  <2> QED BY <1>1, <2>1, <2>2, <2>3 DEF LayInv, AllNest, GoodStack
<1>4. CASE LayoutStep /\ UNCHANGED boxVars
  <2>1. doc' = doc /\ frames' = frames /\ boxes' = boxes /\ root' = root
    BY <1>4 DEF boxVars
  <2>2. BoxInv' /\ StyleInv'
    <3>1. [BuildStep]_boxVars
      BY <1>4
    <3> QED BY <1>1, <3>1, BoxesStep, StylesStep
  <2>3. root # 0
    BY <1>1, <1>4 DEF LayoutStep, EnterRootBlock, PushContainer, ResolveLeaf, FinalizeTop, HasNextChild
  <2>4. LayoutGoesOn
    BY <1>2, <1>4, <2>3, RootIsLaidOut, ContainerIsPushed, LeafIsResolved, TopIsFinalized DEF LayoutStep
  <2>5. AllNest(fragments)'
    BY <2>4 DEF LayoutGoesOn, AllNest
  <2>6. GoodStack(stack)'
    BY <2>1, <2>4 DEF LayoutGoesOn, GoodStack, GoodOpen, GoodMemo, BoxIds
  <2>7. ASSUME stack' # <<>> PROVE root' # 0 /\ GoodMemo(memo[1])' /\ GoodMemo(memo[2])'
    BY <2>1, <2>3, <2>4, <2>7 DEF LayoutGoesOn, GoodMemo, BoxIds
  <2> QED BY <2>2, <2>5, <2>6, <2>7 DEF LayInv
<1>5. CASE UNCHANGED vars
  <2>1. UNCHANGED boxVars /\ UNCHANGED layoutVars
    BY <1>5 DEF vars
  <2>2. BoxInv' /\ StyleInv'
    BY <1>1, <2>1, BoxesStep, StylesStep
  <2>3. /\ boxes' = boxes /\ root' = root
        /\ stack' = stack /\ fragments' = fragments /\ memo' = memo
    BY <2>1 DEF boxVars, layoutVars
  <2>4. AllNest(fragments)'
    BY <1>1, <2>3 DEF AllNest
  <2>5. GoodStack(stack)'
    BY <1>1, <2>3 DEF GoodStack, GoodOpen, GoodMemo, BoxIds
  <2>6. ASSUME stack' # <<>> PROVE root' # 0 /\ GoodMemo(memo[1])' /\ GoodMemo(memo[2])'
    BY <1>1, <2>3, <2>6 DEF GoodMemo, BoxIds
  <2> QED BY <2>2, <2>4, <2>5, <2>6 DEF LayInv
<1> QED BY <1>3, <1>4, <1>5 DEF Next

LEMMA NestedBoxes == LayInv => BoxesNest
<1> SUFFICES ASSUME AllNest(fragments), NEW f \in DOMAIN fragments, NEW a \in Axes
             PROVE  /\ Inside(fragments[f].padding_box[a], fragments[f].border_box[a])
                    /\ Inside(fragments[f].content_box[a], fragments[f].padding_box[a])
  BY DEF LayInv, BoxesNest
<1>1. f \in 1 .. Len(fragments)
  BY OwnLen DEF AllNest
<1>2. /\ Fits(fragments[f].padding_box[a], fragments[f].border_box[a])
      /\ Fits(fragments[f].content_box[a], fragments[f].padding_box[a])
  BY <1>1 DEF AllNest, Nests
<1> QED BY <1>2, FitsIsInside

(* Layout.tla's BoxesNest, for every set of styled documents, whatever the *)
(* shaper answers: no box of a laid out page has a negative size, and what *)
(* is not empty is inside the box around it.                               *)
THEOREM BoxesNestAlways == Spec => []BoxesNest
<1>1. Init => LayInv
  BY LayInvStarts
<1>2. LayInv /\ [Next]_vars => LayInv'
  BY LayInvStep
<1>3. LayInv => BoxesNest
  BY NestedBoxes
<1> QED BY <1>1, <1>2, <1>3, PTL DEF Spec

==============================================================================
