---------------------------- MODULE ReplyHelpers ----------------------------
(***************************************************************************)
(* The reply converters of redisapi (src/redisapi/args.go): Int, Int64,   *)
(* Uint64, Float64, String, Bytes, Bool, Values, Strings, ByteSlices, the *)
(* pair-map helpers and Int64StringMapSlice.  Each takes the (reply, err) *)
(* pair a client call returns and yields a [val, err] record.             *)
(*                                                                         *)
(* A reply is a record [t, v]: t is the Go dynamic type ("int" for int64, *)
(* "str" for string, "bytes" for []byte, "arr" for []interface{}, "nil"). *)
(* A text is characterised by what strconv makes of it: its id, whether   *)
(* it is a decimal integer (isNum, num) and whether it is a ParseBool     *)
(* word (isWord, word).  Integer widths are parameters: Int64Bits for     *)
(* int64 / uint64 (64 in Go) and IntBits for Go's int (64 on 64-bit       *)
(* builds), so a check can run with small widths and still meet every     *)
(* range boundary.  Errors are named by their cause; their wording is left *)
(* out.                                                                    *)
(***************************************************************************)
EXTENDS Integers, Sequences, SequencesExt, TLC

CONSTANTS
    Int64Bits,  \* width of int64 and uint64
    IntBits     \* width of Go's int

NoErr == "none"

R(v, e) == [val |-> v, err |-> e]

Nil == [t |-> "nil", v |-> "none"]

IsText(r) == r.t \in {"str", "bytes"}

\* The zero string "" (and the zero []byte) a failed String returns.
EmptyText == [id |-> "", isNum |-> FALSE, num |-> 0, isWord |-> FALSE, word |-> FALSE]

\* A nil []byte, kept apart from the empty text.
NilBytes == [id |-> "<nil>", isNum |-> FALSE, num |-> 0, isWord |-> FALSE, word |-> FALSE]

MinOf(b) == -(2 ^ (b - 1))
MaxOf(b) == 2 ^ (b - 1) - 1
MaxUOf(b) == 2 ^ b - 1

(***************************************************************************)
(* strconv: on a range error ParseInt and ParseUint return the bound of   *)
(* the width together with the error; on a syntax error, zero.  ParseUint *)
(* rejects a sign as syntax.                                              *)
(***************************************************************************)
ParseInt(s, b) ==
    CASE ~s.isNum          -> R(0, "syntaxErr")
      [] s.num > MaxOf(b)  -> R(MaxOf(b), "rangeErr")
      [] s.num < MinOf(b)  -> R(MinOf(b), "rangeErr")
      [] OTHER             -> R(s.num, NoErr)

ParseUint(s, b) ==
    CASE ~s.isNum \/ s.num < 0 -> R(0, "syntaxErr")
      [] s.num > MaxUOf(b)     -> R(MaxUOf(b), "rangeErr")
      [] OTHER                 -> R(s.num, NoErr)

ParseFloat(s) == IF s.isNum THEN R(s.num, NoErr) ELSE R(0, "syntaxErr")

ParseBool(s) == IF s.isWord THEN R(s.word, NoErr) ELSE R(FALSE, "syntaxErr")

-----------------------------------------------------------------------------
(* Scalar helpers: the error of the call first, then a type switch.       *)

\* Int (Go's name clashes with the set Int of the Integers module).
IntOf(reply, err) ==
    CASE err # NoErr      -> R(0, err)
      [] reply.t = "int"  -> IF reply.v >= MinOf(IntBits) /\ reply.v <= MaxOf(IntBits)
                             THEN R(reply.v, NoErr) ELSE R(0, "rangeErr")
      [] IsText(reply)    -> ParseInt(reply.v, IntBits)
      [] reply.t = "nil"  -> R(0, "ErrNoData")
      [] OTHER            -> R(0, "typeErr")

Int64(reply, err) ==
    CASE err # NoErr      -> R(0, err)
      [] reply.t = "int"  -> R(reply.v, NoErr)
      [] IsText(reply)    -> ParseInt(reply.v, Int64Bits)
      [] reply.t = "nil"  -> R(0, "ErrNoData")
      [] OTHER            -> R(0, "typeErr")

\* Mutant: the sign check is dropped and uint64(reply) wraps.
Uint64NoSignCheck(reply, err) ==
    CASE err # NoErr      -> R(0, err)
      [] reply.t = "int"  -> R(reply.v % (MaxUOf(Int64Bits) + 1), NoErr)
      [] IsText(reply)    -> ParseUint(reply.v, Int64Bits)
      [] reply.t = "nil"  -> R(0, "ErrNoData")
      [] OTHER            -> R(0, "typeErr")

Uint64(reply, err) ==
    CASE err # NoErr      -> R(0, err)
      [] reply.t = "int"  -> IF reply.v < 0 THEN R(0, "negErr") ELSE R(reply.v, NoErr)
      [] IsText(reply)    -> ParseUint(reply.v, Int64Bits)
      [] reply.t = "nil"  -> R(0, "ErrNoData")
      [] OTHER            -> R(0, "typeErr")

\* Float64 has no int64 case: an integer reply is a type error.
Float64(reply, err) ==
    CASE err # NoErr      -> R(0, err)
      [] IsText(reply)    -> ParseFloat(reply.v)
      [] reply.t = "nil"  -> R(0, "ErrNoData")
      [] OTHER            -> R(0, "typeErr")

String(reply, err) ==
    CASE err # NoErr      -> R(EmptyText, err)
      [] IsText(reply)    -> R(reply.v, NoErr)
      [] reply.t = "nil"  -> R(EmptyText, "ErrNoData")
      [] OTHER            -> R(EmptyText, "typeErr")

Bytes(reply, err) ==
    CASE err # NoErr      -> R(NilBytes, err)
      [] IsText(reply)    -> R(reply.v, NoErr)
      [] reply.t = "nil"  -> R(NilBytes, "ErrNoData")
      [] OTHER            -> R(NilBytes, "typeErr")

Bool(reply, err) ==
    CASE err # NoErr      -> R(FALSE, err)
      [] reply.t = "int"  -> R(reply.v # 0, NoErr)
      [] IsText(reply)    -> ParseBool(reply.v)
      [] reply.t = "nil"  -> R(FALSE, "ErrNoData")
      [] OTHER            -> R(FALSE, "typeErr")

\* Mutant: the nil case is missing and a nil reply is a type error.
ValuesNoNilCase(reply, err) ==
    CASE err # NoErr      -> R(<<>>, err)
      [] reply.t = "arr"  -> R(reply.v, NoErr)
      [] OTHER            -> R(<<>>, "typeErr")

Values(reply, err) ==
    CASE err # NoErr      -> R(<<>>, err)
      [] reply.t = "arr"  -> R(reply.v, NoErr)
      [] reply.t = "nil"  -> R(<<>>, "ErrNoData")
      [] OTHER            -> R(<<>>, "typeErr")

-----------------------------------------------------------------------------
(* Array helpers.                                                         *)

\* toString: the element conversion of Strings.
toString(i) == IF IsText(i) THEN [s |-> i.v, ok |-> TRUE]
                            ELSE [s |-> EmptyText, ok |-> FALSE]

\* Strings: a nil element is left as the zero string "", any other element
\* that is not text fails the whole call.
Strings(reply, err) ==
    CASE err # NoErr      -> R(<<>>, err)
      [] reply.t = "arr"  ->
            IF \E i \in DOMAIN reply.v : reply.v[i] # Nil /\ ~toString(reply.v[i]).ok
            THEN R(<<>>, "elemTypeErr")
            ELSE R([i \in DOMAIN reply.v |-> IF reply.v[i] = Nil THEN EmptyText
                                             ELSE toString(reply.v[i]).s], NoErr)
      [] reply.t = "nil"  -> R(<<>>, "ErrNoData")
      [] OTHER            -> R(<<>>, "typeErr")

\* ByteSlices: through Values; an empty array is (nil, nil); nil elements
\* stay nil; the first element Bytes rejects fails the call with its error.
ByteSlices(reply, err) ==
    LET vs == Values(reply, err)
        bad == {i \in DOMAIN vs.val : vs.val[i] # Nil /\ Bytes(vs.val[i], NoErr).err # NoErr}
    IN  CASE vs.err # NoErr   -> R(<<>>, vs.err)
          [] vs.val = <<>>    -> R(<<>>, NoErr)
          [] bad # {}         -> R(<<>>, Bytes(vs.val[Min(bad)], NoErr).err)
          [] OTHER            -> R([i \in DOMAIN vs.val |->
                                      IF vs.val[i] = Nil THEN NilBytes
                                      ELSE Bytes(vs.val[i], NoErr).val], NoErr)

\* Float64s: through Values; the first element Float64 rejects (a nil
\* element included) fails the call with Float64's error.
Float64s(reply, err) ==
    LET vs == Values(reply, err)
        bad == {i \in DOMAIN vs.val : Float64(vs.val[i], NoErr).err # NoErr}
    IN  CASE vs.err # NoErr   -> R(<<>>, vs.err)
          [] bad # {}         -> R(<<>>, Float64(vs.val[Min(bad)], NoErr).err)
          [] OTHER            -> R([i \in DOMAIN vs.val |-> Float64(vs.val[i], NoErr).val],
                                   NoErr)

(***************************************************************************)
(* The alternating key / value helpers.  The loop goes over the pairs in  *)
(* order; a key that is not text fails with keyErr, then a value that    *)
(* Conv rejects with valErr; a later pair with the same key overwrites.   *)
(***************************************************************************)
\* The value conversion of each pair helper.
ConvertValue(helper, v) ==
    CASE helper = "StringMap"  -> String(v, NoErr)
      [] helper = "IntMap"     -> IntOf(v, NoErr)
      [] helper = "Int64Map"   -> Int64(v, NoErr)
      [] helper = "Float64Map" -> Float64(v, NoErr)

PairMap(vs, helper) ==
    LET Step(acc, j) ==
            LET k == String(vs[2 * j - 1], NoErr)
                v == ConvertValue(helper, vs[2 * j])
            IN  CASE acc.err # NoErr -> acc
                  [] k.err # NoErr   -> R(acc.val, "keyErr")
                  [] v.err # NoErr   -> R(acc.val, "valErr")
                  [] OTHER           -> R((k.val :> v.val) @@ acc.val, NoErr)
        res == FoldLeft(Step, R(<<>>, NoErr), [j \in 1..(Len(vs) \div 2) |-> j])
    IN  IF res.err = NoErr THEN res ELSE R(<<>>, res.err)

PairHelper(reply, err, helper) ==
    LET vs == Values(reply, err)
    IN  CASE vs.err # NoErr           -> R(<<>>, vs.err)
          [] Len(vs.val) % 2 # 0      -> R(<<>>, "oddErr")
          [] OTHER                    -> PairMap(vs.val, helper)

StringMap(reply, err) == PairHelper(reply, err, "StringMap")

IntMap(reply, err) == PairHelper(reply, err, "IntMap")

Int64Map(reply, err) == PairHelper(reply, err, "Int64Map")

Float64Map(reply, err) == PairHelper(reply, err, "Float64Map")

\* Mutant: out[score] = []string{value}, the earlier members are lost.
AddMemberOverwrite(out, score, member) == (score :> <<member>>) @@ out

\* out[score] = append(out[score], value)
AddMember(out, score, member) ==
    IF score \in DOMAIN out THEN [out EXCEPT ![score] = Append(@, member)]
                            ELSE (score :> <<member>>) @@ out

\* Int64StringMapSlice (ZRANGE ... WITHSCORES): the reply is asserted to
\* []interface{} without a check, so nil or a non-array reply is an empty
\* array and yields an empty map with no error.
Int64StringMapSlice(reply, err) ==
    LET vs == IF reply.t = "arr" THEN reply.v ELSE <<>>
        Step(acc, j) ==
            LET m == String(vs[2 * j - 1], NoErr)
                s == Int64(vs[2 * j], NoErr)
            IN  CASE acc.err # NoErr -> acc
                  [] m.err # NoErr   -> R(acc.val, "keyErr")
                  [] s.err # NoErr   -> R(acc.val, "valErr")
                  [] OTHER           -> R(AddMember(acc.val, s.val, m.val), NoErr)
        res == FoldLeft(Step, R(<<>>, NoErr), [j \in 1..(Len(vs) \div 2) |-> j])
    IN  CASE err # NoErr          -> R(<<>>, err)
          [] Len(vs) % 2 # 0      -> R(<<>>, "oddErr")
          [] res.err # NoErr      -> R(<<>>, res.err)
          [] OTHER                -> res


(***************************************************************************)
(* The geo converters (src/redisapi/client.go).  A point is [lat, lng]    *)
(* and a location [name, dist, hash, point]; each loop stops at the first *)
(* element that fails and the call returns that element's error.          *)
(***************************************************************************)
ZeroPoint == [lat |-> 0, lng |-> 0]
ZeroLocation == [name |-> EmptyText, dist |-> 0, hash |-> 0, point |-> ZeroPoint]

\* Mutant: NewGeoPoint(latlng[0], latlng[1]), the reply order taken as is.
ConvertToGeoGeoPointNoSwap(reply) ==
    LET fs == Float64s(reply, NoErr)
    IN  CASE fs.err # NoErr    -> R(ZeroPoint, fs.err)
          [] Len(fs.val) # 2   -> R(ZeroPoint, "pointLenErr")
          [] OTHER             -> R([lat |-> fs.val[1], lng |-> fs.val[2]], NoErr)

\* convertToGeoGeoPoint: exactly two floats, redis's [longitude, latitude].
ConvertToGeoGeoPoint(reply) ==
    LET fs == Float64s(reply, NoErr)
    IN  CASE fs.err # NoErr    -> R(ZeroPoint, fs.err)
          [] Len(fs.val) # 2   -> R(ZeroPoint, "pointLenErr")
          [] OTHER             -> R([lat |-> fs.val[2], lng |-> fs.val[1]], NoErr)

\* GeoPosition (GEOPOS): every element through convertToGeoGeoPoint.
GeoPosition(reply, err) ==
    LET vs  == Values(reply, err)
        pts == [i \in DOMAIN vs.val |-> ConvertToGeoGeoPoint(vs.val[i])]
        bad == {i \in DOMAIN pts : pts[i].err # NoErr}
    IN  CASE vs.err # NoErr  -> R(<<>>, vs.err)
          [] bad # {}        -> R(<<>>, pts[Min(bad)].err)
          [] OTHER           -> R([i \in DOMAIN pts |-> pts[i].val], NoErr)

\* Mutant: the length check reads pReplyLen >= 4.
LocationLenOKOffByOne(n) == n > 0 /\ n < 4

\* The 1..4 elements convertToGeoLocation accepts.
LocationLenOK(n) == n > 0 /\ n <= 4

\* convertToGeoLocation: the first element is the name; the others are
\* told apart by their Go type, not their position: an int64 is the hash,
\* a string the distance, an array the coordinates, anything else skipped.
ConvertToGeoLocation(reply) ==
    LET ps == Values(reply, NoErr)
        Set(acc, field, c) ==
            IF c.err # NoErr THEN R(acc.val, c.err)
            ELSE R([acc.val EXCEPT ![field] = c.val], NoErr)
        Step(acc, i) ==
            LET item == ps.val[i]
            IN  CASE acc.err # NoErr  -> acc
                  [] i = 1            -> Set(acc, "name", String(item, NoErr))
                  [] item.t = "int"   -> Set(acc, "hash", Int64(item, NoErr))
                  [] item.t = "str"   -> Set(acc, "dist", Float64(item, NoErr))
                  [] item.t = "arr"   -> Set(acc, "point", ConvertToGeoGeoPoint(item))
                  [] OTHER            -> acc
        res == FoldLeft(Step, R(ZeroLocation, NoErr), [i \in DOMAIN ps.val |-> i])
    IN  CASE ps.err # NoErr                 -> R(ZeroLocation, ps.err)
          [] ~LocationLenOK(Len(ps.val))    -> R(ZeroLocation, "locLenErr")
          [] OTHER                          -> res

\* GeoLocations (GEORADIUS / GEORADIUSBYMEMBER): every element through
\* convertToGeoLocation.
GeoLocations(reply, err) ==
    LET vs  == Values(reply, err)
        ls  == [i \in DOMAIN vs.val |-> ConvertToGeoLocation(vs.val[i])]
        bad == {i \in DOMAIN ls : ls[i].err # NoErr}
    IN  CASE vs.err # NoErr  -> R(<<>>, vs.err)
          [] bad # {}        -> R(<<>>, ls[Min(bad)].err)
          [] OTHER           -> R([i \in DOMAIN ls |-> ls[i].val], NoErr)

=============================================================================
