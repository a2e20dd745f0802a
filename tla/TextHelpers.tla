----------------------------- MODULE TextHelpers -----------------------------
(***************************************************************************)
(* The helpers on character strings of api_common.cc and base/util.cc, and *)
(* the configuration file.  A text is a sequence of characters without its *)
(* NUL.  Each helper is what its loops compute; the properties say what it *)
(* is for.  The texts are typed character by character, so that TLC meets  *)
(* all of them up to MaxText.                                              *)
(***************************************************************************)
EXTENDS Integers, SequencesExt, FiniteSetsExt, TLC

CONSTANTS
    Alphabet, MaxText,      \* the texts
    Bytes,                  \* what URLEncode is given
    ConfigKeys, ConfigValues,
    LineBuffer, PairBuffer  \* char buf[256], char szPaire[128]

VARIABLES
    typed,                  \* a text
    configMap, configFile,  \* config_map_, and the characters of the file
    configLoaded,           \* load_ok_
    configRet               \* 0 if the file was last read or written as a whole, else -1

helperVars == <<typed, configMap, configFile, configLoaded, configRet>>

\* The first place from 1 at which P holds of the character, Len(s) + 1 if none.
FirstAt(s, P(_)) == Min({i \in 1..Len(s) : P(s[i])} \cup {Len(s) + 1})
From(s, i) == SubSeq(s, i, Len(s))
Upto(s, i) == SubSeq(s, 1, Min({i, Len(s)}))
Without(s, chars) == \A i \in DOMAIN s : s[i] \notin chars

-----------------------------------------------------------------------------
(* TrimSpace: i and j are indices from 0; the second loop stops at i. *)
TrimSpace(s) ==
    LET i == FirstAt(s, LAMBDA c : c # " ") - 1
        j == Max({k \in i..Len(s) - 1 : k = i \/ s[k + 1] # " "} \cup {Min({i, Len(s) - 1})})
    IN  SubSeq(s, i + 1, j + 1)

(* GetFileSuffix: back from the end to a dot or to the first character. *)
NullSuffix == <<"n", "u", "l", "l">>
GetFileSuffix(s) ==
    LET k == Max({i \in 1..Len(s) : s[i] = "."} \cup {0})
    IN  IF k = 0 \/ k = Len(s) THEN NullSuffix ELSE From(s, k + 1)

(* QueryParseKeyValue: strstr finds the key anywhere in the URL, one character
   is skipped for the "=" whatever it is, and the value ends at "&" or "#".
   With the key at the very end it reads past the text. *)
Occurs(s, key) == {i \in 1..Len(s) - Len(key) + 1 : SubSeq(s, i, i + Len(key) - 1) = key}
NoKey == [ret |-> -1]
ReadsPast == [ret |-> 1]
QueryParseKeyValue(query, key) ==
    IF Occurs(query, key) = {} THEN NoKey
    ELSE LET temp == Min(Occurs(query, key)) + Len(key) + 1
             rest == From(query, temp)
         IN  IF temp > Len(query) + 1 THEN ReadsPast
             ELSE [ret |-> 0, value |-> Upto(rest, FirstAt(rest, LAMBDA c : c \in {"&", "#"}) - 1)]

(* CStrExplode: room for every separator; a separator at the start of an item
   becomes part of it. *)
ItemCount(s, sep) == Cardinality({i \in DOMAIN s : s[i] = sep}) + 1
\* Mutant: a separator always ends an item.
ExplodeStepAll(acc, c, sep) ==
    IF c = sep THEN [items |-> Append(acc.items, acc.item), item |-> <<>>]
    ELSE [acc EXCEPT !.item = Append(@, c)]

ExplodeStep(acc, c, sep) ==
    IF acc.item # <<>> /\ c = sep THEN [items |-> Append(acc.items, acc.item), item |-> <<>>]
    ELSE [acc EXCEPT !.item = Append(@, c)]
CStrExplode(s, sep) ==
    LET done == FoldLeft(LAMBDA acc, c : ExplodeStep(acc, c, sep), [items |-> <<>>, item |-> <<>>], s)
    IN  IF done.item = <<>> THEN done.items ELSE Append(done.items, done.item)

(* URLEncode and URLDecode on bytes: 37 is "%", 43 is "+". *)
IsAlnum(b) == b \in (48..57) \cup (65..90) \cup (97..122)
ToHex(x) == IF x > 9 THEN x - 10 + 65 ELSE x + 48
FromHex(x) == IF x \in 48..57 THEN x - 48 ELSE x - 65 + 10
Encoded(b) == IF IsAlnum(b) THEN <<b>> ELSE <<37, ToHex(b \div 16), ToHex(b % 16)>>
URLEncode(s) == FlattenSeq([i \in DOMAIN s |-> Encoded(s[i])])
DecodeStep(acc, b) ==
    IF acc.skip = 2 THEN [acc EXCEPT !.skip = 1, !.high = FromHex(b) * 16]
    ELSE IF acc.skip = 1 THEN [out |-> Append(acc.out, acc.high + FromHex(b)), skip |-> 0, high |-> 0]
    ELSE IF b = 37 THEN [acc EXCEPT !.skip = 2]
    ELSE [acc EXCEPT !.out = Append(@, IF b = 43 THEN 32 ELSE b)]
URLDecode(s) == FoldLeft(DecodeStep, [out |-> <<>>, skip |-> 0, high |-> 0], s).out

-----------------------------------------------------------------------------
(* The configuration file.  _TrimSpace: NULL when there is nothing but blanks. *)
ConfigTrim(s) ==
    LET start == FirstAt(s, LAMBDA c : c # " ")
        end == Max({i \in 1..Len(s) : s[i] # " "} \cup {0})
    IN  SubSeq(s, start, end)

(* _LoadFile: fgets takes a line, or LineBuffer - 1 characters of a longer one. *)
FgetsStep(acc, c) ==
    LET buf == Append(acc.buf, c)
    IN  IF c = "\n" \/ Len(buf) = LineBuffer - 1 THEN [got |-> Append(acc.got, buf), buf |-> <<>>]
        ELSE [acc EXCEPT !.buf = buf]
Fgets(file) ==
    LET done == FoldLeft(FgetsStep, [got |-> <<>>, buf |-> <<>>], file)
    IN  IF done.buf = <<>> THEN done.got ELSE Append(done.got, done.buf)

(* _ParseLine: map::insert keeps the value that is there. *)
ParseLine(map, line) ==
    LET p == FirstAt(line, LAMBDA c : c = "=")
        key == ConfigTrim(Upto(line, p - 1))
        value == ConfigTrim(From(line, p + 1))
    IN  IF p > Len(line) \/ key = <<>> \/ value = <<>> \/ key \in DOMAIN map THEN map
        ELSE map @@ (key :> value)
LoadLine(map, got) ==
    LET line == IF Last(got) = "\n" THEN Front(got) ELSE got
    IN  ParseLine(map, Upto(line, FirstAt(line, LAMBDA c : c = "#") - 1))
LoadFile(file) == FoldLeft(LoadLine, <<>>, Fgets(file))

(* _WriteFIle: snprintf cuts a pair that is too long, its line break first.
   The order of the pairs is left open. *)
Pair(key, value) == key \o <<"=">> \o value \o <<"\n">>
WriteFile(map) == FlattenSeq(SetToSeq({Upto(Pair(k, map[k]), PairBuffer - 1) : k \in DOMAIN map}))

(* A value is set in the map even if the file cannot be written.  What fclose answers
   is not looked at: that what fwrite took reaches the file is an assumption. *)
SetConfigValue(key, value) ==
    /\ \/ /\ ~ configLoaded
          /\ configRet' = -1 /\ UNCHANGED <<configMap, configFile>>
       \/ /\ configLoaded
          /\ configMap' = (key :> value) @@ configMap
          /\ \/ configRet' = 0 /\ configFile' = WriteFile(configMap')
             \/ configRet' = -1 /\ UNCHANGED configFile                   \* fopen failed
             \/ /\ configRet' = -1                                        \* fwrite failed
                /\ \E n \in 0..Len(WriteFile(configMap')) - 1 :
                      configFile' = Upto(WriteFile(configMap'), n)
    /\ UNCHANGED <<typed, configLoaded>>

(* A CConfigFileReader is made for the file.  If it cannot be opened, load_ok_ is what
   the memory held: no constructor sets it. *)
ReadConfig ==
    /\ \/ configMap' = LoadFile(configFile) /\ configLoaded' = TRUE /\ configRet' = 0
       \/ configMap' = <<>> /\ configLoaded' \in BOOLEAN /\ configRet' = -1
    /\ UNCHANGED <<typed, configFile>>

Type(c) ==
    /\ Len(typed) < MaxText /\ configMap = <<>> /\ configFile = <<>> /\ ~ configLoaded
    /\ typed' = Append(typed, c)
    /\ UNCHANGED <<configMap, configFile, configLoaded, configRet>>

HelperInit ==
    typed = <<>> /\ configMap = <<>> /\ configFile = <<>> /\ configLoaded = FALSE /\ configRet = 0
HelperNext ==
    \/ \E c \in Alphabet : Type(c)
    \/ typed = <<>> /\ (ReadConfig \/ \E k \in ConfigKeys, v \in ConfigValues : SetConfigValue(k, v))
HelperSpec == HelperInit /\ [][HelperNext]_helperVars

-----------------------------------------------------------------------------
Blank(s) == \A i \in DOMAIN s : s[i] = " "
Outer(s) == {s[i] : i \in {1, Len(s)} \cap DOMAIN s}

(* TrimSpace leaves the text between the blanks, "" if there is nothing else. *)
Trimmed ==
    LET t == TrimSpace(typed)
    IN  /\ " " \notin Outer(t)
        /\ \E i, j \in 0..Len(typed) :
              i <= j /\ t = SubSeq(typed, i + 1, j) /\ Blank(Upto(typed, i)) /\ Blank(From(typed, j + 1))

(* GetFileSuffix gives what follows the last dot. *)
SuffixRight ==
    LET t == GetFileSuffix(typed)
    IN  \/ Without(t, {"."}) /\ t # <<>> /\ IsSuffix(<<".">> \o t, typed)
        \/ t = NullSuffix /\ (Without(typed, {"."}) \/ Last(typed) = ".")

(* QueryParseKeyValue gives the value of the parameter, up to the next one or
   to the fragment, when the first place where the name stands is that
   parameter's. *)
CmdIs == <<"a", "=">>
ValueRight ==
    \A i \in Occurs(typed, CmdIs) :
        LET rest == From(typed, i + 2)
            got == QueryParseKeyValue(typed, <<"a">>)
        IN  Without(Upto(typed, i - 1), {"a"}) /\ (i = 1 \/ typed[i - 1] = "&")
            => /\ got.ret = 0 /\ IsPrefix(got.value, rest) /\ Without(got.value, {"&", "#"})
               /\ got.value = rest \/ rest[Len(got.value) + 1] \in {"&", "#"}

(* CStrExplode never writes past the array it has made room for, loses no text,
   and fills every place, which its destructor frees, unless an item is empty. *)
ItemsFit ==
    LET items == CStrExplode(typed, ",")
        empty == typed = <<>> \/ "," \in Outer(typed) \/ \E i \in 2..Len(typed) : typed[i] = "," /\ typed[i - 1] = ","
    IN  /\ Len(items) <= ItemCount(typed, ",")
        /\ (Len(items) = ItemCount(typed, ",") <=> ~ empty)
        /\ ~ empty => \A i \in DOMAIN items : Without(items[i], {","})

(* URLDecode undoes URLEncode. *)
DecodesBack == \A a, b \in Bytes : URLDecode(URLEncode(<<a, b>>)) = <<a, b>>

HelpersRight == Trimmed /\ SuffixRight /\ ValueRight /\ ItemsFit /\ DecodesBack

(* A configuration that was written is the one that is read again, if its pairs
   fit the buffer they are written from and nothing in them has a meaning in
   the file. *)
PlainText(s) == Without(s, {"#", "\n"}) /\ " " \notin Outer(s) /\ s # <<>>
Keepable(key, value) ==
    /\ PlainText(key) /\ PlainText(value) /\ Without(key, {"="})
    /\ Len(Pair(key, value)) < PairBuffer
ConfigKept ==
    configRet = 0 /\ (\A k \in DOMAIN configMap : Keepable(k, configMap[k])) => LoadFile(configFile) = configMap
=============================================================================
