-------------------------- MODULE RedisAsync_proofs --------------------------
(***************************************************************************)
(* hiredis' asynchronous API, for every finite set of channels and any     *)
(* number of commands and messages: the callbacks run once, in order, each *)
(* with the reply to its own command; no subscription is dropped while the *)
(* server still sends to it, and no assertion of async.c fails. The        *)
(* invariant CallbackInv is built up in seven parts, each kept by every    *)
(* step given the parts before it:                                         *)
(*   FrameInv, ToldInv  what runs inside what, and who has been told;      *)
(*   AsyncTypes         the queues, the subscriptions and what ran;        *)
(*   KindsInv           every number is a command's, of the right kind;    *)
(*   FreedInv           what a teardown has taken out of the lists;        *)
(*   SaneInv            while the context of a careful caller works, what  *)
(*                      is on its way from and to the server fits what     *)
(*                      waits for it (Way) and the subscriptions           *)
(*                      (Subbing);                                         *)
(*   OnceInv, NoAbort   the callbacks of regular commands wait or have     *)
(*                      run, each once and in order; no assertion fails.   *)
(***************************************************************************)
EXTENDS RedisAsync, FiniteSetTheorems, SequenceTheorems, WellFoundedInduction, TLAPS

-----------------------------------------------------------------------------
(* Frames and flags. *)

(* The functions under way: what an event runs, above it a callback, above that a disconnect. *)
Runners == {"ranregular", "free", "freeinvalid", "freesubs"}
Events == Runners \cup {"write", "read", "process", "connectfailed", "disconnect"}
Freeing == {"free", "freeinvalid", "freesubs"}
Shape(f) == \/ f = <<>>
            \/ \E x \in Events : f = <<x>>
            \/ \E x \in Runners : f = <<x, "callback">> \/ f = <<x, "callback", "disconnect">>
FlagNames == {"connected", "disconnecting", "freeing", "incallback", "subscribed", "monitoring"}
FrameInv ==
    /\ Shape(frames)
    /\ flags \subseteq FlagNames
    /\ "incallback" \in flags <=> Len(frames) > 1
    /\ Top = "disconnect" => "disconnecting" \in flags
    /\ Teardown => flags \cap {"disconnecting", "freeing"} # {}
ToldInv ==
    /\ socket \in {"connecting", "open", "closed", "freed"}
    /\ told \in [connect : 0..1, disconnect : 0..1]
    /\ told.connect = 1 => "connected" \in flags \/ Top = "connectfailed" \/ Teardown \/ socket = "freed"
    /\ socket = "freed" => frames = <<>> /\ told.disconnect = IF "connected" \in flags THEN 1 ELSE 0
    /\ socket # "freed" => told.disconnect = 0

\* What the operations make of the frames.
LEMMA AppendTwo == ASSUME NEW x, NEW y, NEW z PROVE Append(<<x, y>>, z) = <<x, y, z>>
  <1>0. PICK S : S = {x, y, z}
    OBVIOUS
  <1>1. PICK p, q, s : p = Append(<<x, y>>, z) /\ q = <<x, y, z>> /\ s = <<x, y>>
    OBVIOUS
  <1>2. q \in Seq(S) /\ Len(q) = 3 /\ q[1] = x /\ q[2] = y /\ q[3] = z
    BY <1>0, <1>1
  <1>3. s \in Seq(S) /\ Len(s) = 2 /\ s[1] = x /\ s[2] = y /\ z \in S
    BY <1>0, <1>1
  <1>4. p \in Seq(S) /\ Len(p) = 3 /\ p[1] = x /\ p[2] = y /\ p[3] = z
    BY <1>1, <1>3, AppendProperties
  <1>5. \A i \in 1..Len(p) : p[i] = q[i]
    BY <1>2, <1>4
  <1>6. p = q
    BY ONLY <1>2, <1>4, <1>5, SeqEqual
  <1> QED BY <1>1, <1>6
LEMMA FrontThree == ASSUME NEW x, NEW y, NEW z PROVE SubSeq(<<x, y, z>>, 1, 2) = <<x, y>>
  <1>0. PICK S : S = {x, y, z}
    OBVIOUS
  <1>1. PICK p, q : p = SubSeq(<<x, y, z>>, 1, 2) /\ q = <<x, y>>
    OBVIOUS
  <1>2. q \in Seq(S) /\ Len(q) = 2 /\ q[1] = x /\ q[2] = y
    BY <1>0, <1>1
  <1>3. PICK s : s = <<x, y, z>>
    OBVIOUS
  <1>4. s[1] \in S /\ s[1] = x /\ s[2] \in S /\ s[2] = y
    BY <1>0, <1>3
  <1>5. \A i \in 1..2 : s[i] \in S
    BY <1>4
  <1>6. SubSeq(s, 1, 2) \in Seq(S) /\ Len(SubSeq(s, 1, 2)) = 2 /\ \A i \in 1..2 : SubSeq(s, 1, 2)[i] = s[1 + i - 1]
    BY <1>5, SubSeqProperties
  <1>7. p \in Seq(S) /\ Len(p) = Len(q) /\ p[1] = q[1] /\ p[2] = q[2]
    BY <1>1, <1>2, <1>3, <1>4, <1>6
  <1>8. \A i \in 1..Len(p) : p[i] = q[i]
    BY <1>2, <1>7
  <1>9. p = q
    BY ONLY <1>2, <1>7, <1>8, SeqEqual
  <1> QED BY <1>1, <1>9
LEMMA FrameOps ==
    ASSUME NEW x, NEW y, NEW d
    PROVE  /\ Len(<<x>>) = 1 /\ Len(<<x, y>>) = 2
           /\ Append(SubSeq(<<x>>, 1, 0), d) = <<d>> /\ SubSeq(<<x>>, 1, 0) = <<>>
           /\ SubSeq(<<x, y>>, 1, 1) = <<x>>
           /\ SubSeq(<<x>>, 1, 0) \o <<d, y>> = <<d, y>>
           /\ Append(<<>>, x) = <<x>>
  <1>1. Len(<<x>>) = 1 /\ Len(<<x, y>>) = 2
    OBVIOUS
  <1>2. SubSeq(<<x>>, 1, 0) = <<>>
    OBVIOUS
  <1>0. PICK S : S = {x, y}
    OBVIOUS
  <1>3. SubSeq(<<x, y>>, 1, 1) = <<x>>
    <2>1. PICK p, q : p = SubSeq(<<x, y>>, 1, 1) /\ q = <<x>>
      OBVIOUS
    <2>2. q \in Seq(S) /\ Len(q) = 1 /\ q[1] = x
      BY <1>0, <2>1
    <2>3. PICK s : s = <<x, y>>
      OBVIOUS
    <2>4. s[1] \in S /\ s[1] = x
      BY <1>0, <2>3
    <2>5. \A i \in 1..1 : s[i] \in S
      BY <2>4
    <2>6. SubSeq(s, 1, 1) \in Seq(S) /\ Len(SubSeq(s, 1, 1)) = 1 /\ SubSeq(s, 1, 1)[1] = s[1 + 1 - 1]
      BY <2>5, SubSeqProperties
    <2>7. p \in Seq(S) /\ Len(p) = Len(q) /\ \A i \in 1..Len(p) : p[i] = q[i]
      BY <2>1, <2>2, <2>3, <2>4, <2>6
    <2>8. p = q
      BY ONLY <2>2, <2>7, SeqEqual
    <2> QED BY <2>1, <2>8
  <1>5. <<>> \o <<d, y>> = <<d, y>>
    OBVIOUS
  <1>6. Append(<<>>, x) = <<x>>
    OBVIOUS
  <1>8. Append(<<>>, d) = <<d>>
    OBVIOUS
  <1> QED BY <1>1, <1>2, <1>3, <1>5, <1>6, <1>8

\* What runs is at the bottom of the frames, what it waits for above it.
LEMMA Frames1 ==
    ASSUME NEW x, frames = <<x>>
    PROVE  /\ Top = x /\ Len(frames) = 1 /\ (Teardown <=> x \in Freeing)
           /\ \A y : Replace(y) => frames' = <<y>>
           /\ Pop => frames' = <<>>
           /\ \A y : SubSeq(frames, 1, Len(frames) - 1) \o <<y, "callback">> = <<y, "callback">>
  <1>1. Len(frames) = 1 /\ frames[1] = x /\ DOMAIN frames = {1} /\ frames # <<>> /\ Len(frames) - 1 = 0
    OBVIOUS
  <1>2. SubSeq(frames, 1, Len(frames) - 1) = <<>>
    BY <1>1, FrameOps
  <1>3. \A y : Append(<<>>, y) = <<y>> /\ <<>> \o <<y, "callback">> = <<y, "callback">>
    BY FrameOps
  <1> QED BY <1>1, <1>2, <1>3 DEF Top, Teardown, Freeing, Replace, Pop
LEMMA Frames2 ==
    ASSUME NEW x, frames = <<x, "callback">>
    PROVE  /\ Top = "callback" /\ Len(frames) = 2 /\ (Teardown <=> x \in Freeing)
           /\ Pop => frames' = <<x>>
           /\ \A y : Push(y) => frames' = <<x, "callback", y>>
  <1>1. /\ Len(frames) = 2 /\ frames[1] = x /\ frames[2] = "callback" /\ DOMAIN frames = {1, 2} /\ frames # <<>>
        /\ Len(frames) - 1 = 1
    OBVIOUS
  <1>2. SubSeq(frames, 1, Len(frames) - 1) = <<x>>
    BY <1>1, FrameOps
  <1>3. \A y : Append(<<x, "callback">>, y) = <<x, "callback", y>>
    BY AppendTwo
  <1> QED BY <1>1, <1>2, <1>3 DEF Top, Teardown, Freeing, Pop, Push
LEMMA Frames3 ==
    ASSUME NEW x, frames = <<x, "callback", "disconnect">>
    PROVE  /\ Top = "disconnect" /\ Len(frames) = 3 /\ (Teardown <=> x \in Freeing)
           /\ Pop => frames' = <<x, "callback">>
  <1>1. /\ Len(frames) = 3 /\ frames[1] = x /\ frames[2] = "callback" /\ frames[3] = "disconnect"
        /\ DOMAIN frames = {1, 2, 3} /\ frames # <<>> /\ Len(frames) - 1 = 2
    OBVIOUS
  <1>2. SubSeq(frames, 1, Len(frames) - 1) = <<x, "callback">>
    BY <1>1, FrontThree
  <1> QED BY <1>1, <1>2 DEF Top, Teardown, Freeing, Pop
LEMMA Frames0 ==
    ASSUME frames = <<>>
    PROVE  /\ Top = "none" /\ Len(frames) = 0 /\ ~ Teardown
           /\ \A y : Push(y) => frames' = <<y>>
  <1>1. Len(frames) = 0 /\ DOMAIN frames = {}
    OBVIOUS
  <1>2. \A y : Append(<<>>, y) = <<y>>
    BY FrameOps
  <1> QED BY <1>1, <1>2 DEF Top, Teardown, Push

\* What the top says of the whole.
LEMMA TopIs ==
    ASSUME FrameInv
    PROVE  /\ \A x \in Events : Top = x /\ x # "disconnect" => frames = <<x>>
           /\ Top = "none" => frames = <<>>
           /\ Top = "callback" => \E x \in Runners : frames = <<x, "callback">>
           /\ Top = "disconnect" => frames = <<"disconnect">> \/ \E x \in Runners : frames = <<x, "callback", "disconnect">>
  <1>1. CASE frames = <<>>
    BY <1>1, Frames0 DEF Events, Runners
  <1>2. ASSUME NEW x \in Events, frames = <<x>> PROVE Top = x
    BY <1>2, Frames1
  <1>3. ASSUME NEW x \in Runners, frames = <<x, "callback">> PROVE Top = "callback"
    BY <1>3, Frames2
  <1>4. ASSUME NEW x \in Runners, frames = <<x, "callback", "disconnect">> PROVE Top = "disconnect"
    BY <1>4, Frames3
  <1>5. CASE \E x \in Events : frames = <<x>>
    BY <1>2, <1>5 DEF Events, Runners
  <1>6. CASE \E x \in Runners : frames = <<x, "callback">>
    BY <1>3, <1>6 DEF Events, Runners
  <1>7. CASE \E x \in Runners : frames = <<x, "callback", "disconnect">>
    BY <1>4, <1>7 DEF Events, Runners
  <1> QED BY <1>1, <1>5, <1>6, <1>7 DEF FrameInv, Shape

FrameFacts ==
    /\ frames = <<>> => Top = "none" /\ Len(frames) = 0 /\ ~ Teardown
    /\ \A x : frames = <<x>> => Top = x /\ Len(frames) = 1 /\ (Teardown <=> x \in Freeing)
    /\ \A x : frames = <<x, "callback">> => Top = "callback" /\ Len(frames) = 2 /\ (Teardown <=> x \in Freeing)
    /\ \A x : frames = <<x, "callback", "disconnect">> =>
           Top = "disconnect" /\ Len(frames) = 3 /\ (Teardown <=> x \in Freeing)
LEMMA FramesKnown == FrameFacts
  <1>1. frames = <<>> => Top = "none" /\ Len(frames) = 0 /\ ~ Teardown
    BY Frames0
  <1>2. ASSUME NEW x PROVE frames = <<x>> => Top = x /\ Len(frames) = 1 /\ (Teardown <=> x \in Freeing)
    BY Frames1
  <1>3. ASSUME NEW x PROVE frames = <<x, "callback">> => Top = "callback" /\ Len(frames) = 2 /\ (Teardown <=> x \in Freeing)
    BY Frames2
  <1>4. ASSUME NEW x PROVE frames = <<x, "callback", "disconnect">> =>
                             Top = "disconnect" /\ Len(frames) = 3 /\ (Teardown <=> x \in Freeing)
    BY Frames3
  <1> QED BY <1>1, <1>2, <1>3, <1>4 DEF FrameFacts

\* How a step may leave the frames.
FlagsFit == flags \subseteq FlagNames
Leaving == flags \cap {"disconnecting", "freeing"} # {}
LEMMA ToNone ==
    ASSUME frames' = <<>>, FlagsFit', "incallback" \notin flags'
    PROVE  FrameInv' /\ ~ Teardown' /\ Top' = "none"
  <1>1. FrameFacts'
    BY FramesKnown, PTL
  <1>2. Top' = "none" /\ Len(frames') = 0 /\ ~ Teardown'
    BY <1>1 DEF FrameFacts
  <1> QED BY <1>2 DEF FrameInv, FlagsFit, Shape
LEMMA ToOne ==
    ASSUME NEW y \in Events, frames' = <<y>>, FlagsFit', "incallback" \notin flags',
           y = "disconnect" => "disconnecting" \in flags', y \in Freeing => Leaving'
    PROVE  FrameInv' /\ (Teardown' <=> y \in Freeing) /\ Top' = y
  <1>1. FrameFacts'
    BY FramesKnown, PTL
  <1>2. Top' = y /\ Len(frames') = 1 /\ (Teardown' <=> y \in Freeing)
    BY <1>1 DEF FrameFacts
  <1>3. Shape(frames')
    BY DEF Shape
  <1> QED BY <1>2, <1>3 DEF FrameInv, FlagsFit, Leaving
LEMMA ToTwo ==
    ASSUME NEW y \in Runners, frames' = <<y, "callback">>, FlagsFit', "incallback" \in flags', y \in Freeing => Leaving'
    PROVE  FrameInv' /\ (Teardown' <=> y \in Freeing) /\ Top' = "callback"
  <1>1. FrameFacts'
    BY FramesKnown, PTL
  <1>2. Top' = "callback" /\ Len(frames') = 2 /\ (Teardown' <=> y \in Freeing)
    BY <1>1 DEF FrameFacts
  <1>3. Shape(frames')
    BY DEF Shape
  <1> QED BY <1>2, <1>3 DEF FrameInv, FlagsFit, Leaving
LEMMA ToThree ==
    ASSUME NEW y \in Runners, frames' = <<y, "callback", "disconnect">>, FlagsFit', "incallback" \in flags',
           "disconnecting" \in flags'
    PROVE  FrameInv' /\ (Teardown' <=> y \in Freeing) /\ Top' = "disconnect"
  <1>1. FrameFacts'
    BY FramesKnown, PTL
  <1>2. Top' = "disconnect" /\ Len(frames') = 3 /\ (Teardown' <=> y \in Freeing)
    BY <1>1 DEF FrameFacts
  <1>3. Shape(frames')
    BY DEF Shape
  <1> QED BY <1>2, <1>3 DEF FrameInv, FlagsFit

\* What an operation that runs at the top does to the frames.
LEMMA AtTop ==
    ASSUME FrameInv, NEW x \in Events, x # "disconnect", Top = x
    PROVE  /\ frames = <<x>> /\ "incallback" \notin flags /\ (Teardown <=> x \in Freeing) /\ FlagsFit
           /\ \A y : Replace(y) => frames' = <<y>>
           /\ Pop => frames' = <<>>
           /\ x \in Freeing => Leaving
           /\ \A y : SubSeq(frames, 1, Len(frames) - 1) \o <<y, "callback">> = <<y, "callback">>
  <1>1. frames = <<x>>
    BY TopIs
  <1> QED BY <1>1, Frames1 DEF FrameInv, FlagsFit, Leaving

LEMMA RunsCallback ==
    ASSUME FrameInv, NEW x \in Events, x # "disconnect", Top = x,
           NEW id, NEW reply, NEW y \in Runners, RunCallback(id, reply, y), y \in Freeing => Leaving
    PROVE  FrameInv' /\ (Teardown' <=> y \in Freeing) /\ flags \subseteq flags' /\ flags' \subseteq flags \cup {"incallback"}
           /\ Top' \in {y, "callback"}
  <1>1. /\ frames = <<x>> /\ "incallback" \notin flags /\ FlagsFit
        /\ \A z : Replace(z) => frames' = <<z>>
        /\ \A z : SubSeq(frames, 1, Len(frames) - 1) \o <<z, "callback">> = <<z, "callback">>
    BY AtTop
  <1>2. CASE id = NoFn
    <2>1. frames' = <<y>> /\ flags' = flags
      BY <1>1, <1>2 DEF RunCallback
    <2>2. FlagsFit' /\ "incallback" \notin flags' /\ (y \in Freeing => Leaving') /\ y \in Events /\ y # "disconnect"
      BY <1>1, <2>1 DEF FlagsFit, Leaving, Events, Runners
    <2> QED BY <2>1, <2>2, ToOne
  <1>3. CASE id # NoFn
    <2>1. frames' = <<y, "callback">> /\ flags' = flags \cup {"incallback"}
      BY <1>1, <1>3 DEF RunCallback
    <2>2. FlagsFit' /\ "incallback" \in flags' /\ (y \in Freeing => Leaving')
      BY <1>1, <2>1 DEF FlagsFit, FlagNames, Leaving
    <2> QED BY <2>1, <2>2, ToTwo
  <1> QED BY <1>2, <1>3

\* What most steps leave: the mode of the connection, and a teardown goes on until it is done.
Calm == /\ FrameInv' /\ ToldInv'
        /\ "subscribed" \in flags' <=> "subscribed" \in flags
        /\ "monitoring" \in flags' <=> "monitoring" \in flags
        /\ Teardown => Teardown'
        /\ socket # "freed" /\ socket' # "freed"

LEMMA ToldKept ==
    ASSUME ToldInv, told' = told, socket' = socket, socket # "freed", "connected" \in flags => "connected" \in flags',
           Teardown => Teardown', Top = "connectfailed" => Teardown'
    PROVE  ToldInv'
  BY DEF ToldInv

LEMMA TopAlive == ASSUME ToldInv, Top # "none" PROVE socket # "freed"
  BY DEF ToldInv, Top

\* Steps that replace what runs.
LEMMA ReplaceCalm ==
    ASSUME FrameInv, ToldInv, NEW x \in Events, x # "disconnect", Top = x, NEW y \in Events, y # "disconnect", Replace(y),
           told' = told, socket' = socket, flags \subseteq flags', flags' \subseteq flags \cup {"disconnecting"},
           y \in Freeing => Leaving', x \in Freeing \cup {"connectfailed"} => y \in Freeing
    PROVE  Calm /\ (Teardown' <=> y \in Freeing) /\ Top' = y
  <1>1. /\ frames' = <<y>> /\ FlagsFit /\ "incallback" \notin flags /\ (Teardown <=> x \in Freeing)
    BY AtTop
  <1>2. FlagsFit' /\ "incallback" \notin flags'
    BY <1>1 DEF FlagsFit, FlagNames
  <1>3. FrameInv' /\ (Teardown' <=> y \in Freeing) /\ Top' = y
    BY <1>1, <1>2, ToOne
  <1>4. Top # "none"
    BY DEF Events, Runners
  <1>5. socket # "freed"
    BY <1>4, TopAlive
  <1>6. ToldInv'
    BY <1>1, <1>3, <1>5, ToldKept
  <1> QED BY <1>1, <1>3, <1>5, <1>6 DEF Calm

LEMMA PopCalm ==
    ASSUME FrameInv, ToldInv, NEW x \in Events, x \notin Freeing \cup {"connectfailed", "disconnect"}, Top = x, Pop,
           told' = told, socket' = socket, flags' = flags
    PROVE  Calm /\ ~ Teardown'
  <1>1. /\ frames' = <<>> /\ FlagsFit /\ "incallback" \notin flags /\ (Teardown <=> x \in Freeing)
    BY AtTop
  <1>2. FlagsFit' /\ "incallback" \notin flags'
    BY <1>1 DEF FlagsFit
  <1>3. FrameInv' /\ ~ Teardown' /\ Top' = "none"
    BY <1>1, <1>2, ToNone
  <1>4. Top # "none"
    BY DEF Events, Runners
  <1>5. socket # "freed"
    BY <1>4, TopAlive
  <1>6. ToldInv'
    BY <1>1, <1>3, <1>5, ToldKept
  <1> QED BY <1>1, <1>3, <1>5, <1>6 DEF Calm

\* Steps of an event that begins.
LEMMA PushCalm ==
    ASSUME FrameInv, ToldInv, frames = <<>>, socket # "freed", NEW y \in Events, Push(y),
           told' = told, socket' = socket, flags \subseteq flags', flags' \subseteq flags \cup {"disconnecting", "freeing"},
           y = "disconnect" => "disconnecting" \in flags', y \in Freeing => Leaving'
    PROVE  Calm
  <1>1. frames' = <<y>> /\ ~ Teardown /\ Len(frames) = 0 /\ Top = "none"
    BY Frames0
  <1>2. FlagsFit' /\ "incallback" \notin flags'
    BY <1>1 DEF FlagsFit, FlagNames, FrameInv
  <1>3. FrameInv'
    BY <1>1, <1>2, ToOne
  <1>4. ToldInv'
    BY <1>1, ToldKept
  <1> QED BY <1>1, <1>3, <1>4 DEF Calm

\* The server, and a command: neither frames nor flags of a teardown change.
LEMMA SameFrames ==
    ASSUME FrameInv, ToldInv, frames' = frames, told' = told, socket # "freed", socket' # "freed",
           socket' \in {"connecting", "open", "closed"},
           flags \subseteq flags', flags' \subseteq flags \cup {"subscribed", "monitoring", "freeing"}
    PROVE  FrameInv' /\ ToldInv' /\ (Teardown' <=> Teardown)
  <1>1. (Teardown' <=> Teardown) /\ Top' = Top
    BY DEF Teardown, Top
  <1>2. flags' \subseteq FlagNames /\ ("incallback" \in flags' <=> "incallback" \in flags)
    BY DEF FrameInv, FlagNames
  <1>3. FrameInv'
    BY <1>1, <1>2 DEF FrameInv
  <1>4. ToldInv'
    BY <1>1, <1>2 DEF ToldInv
  <1> QED BY <1>1, <1>3, <1>4

LEMMA FreeCalm == ASSUME FrameInv, ToldInv, AsyncFree PROVE Calm
  <1>1. /\ Alive /\ Top \in {"none", "callback"} /\ flags' = flags \cup {"freeing"} /\ told' = told /\ socket' = socket
        /\ IF "incallback" \in flags THEN frames' = frames ELSE Push("free")
    BY DEF AsyncFree, UserRuns, Rest
  <1>2. socket # "freed" /\ socket \in {"connecting", "open", "closed"}
    BY <1>1 DEF Alive, ToldInv
  <1>3. CASE "incallback" \in flags
    <2>1. FrameInv' /\ ToldInv' /\ (Teardown' <=> Teardown)
      BY <1>1, <1>2, <1>3, SameFrames
    <2> QED BY <1>1, <1>2, <2>1 DEF Calm
  <1>4. CASE "incallback" \notin flags
    <2>1. Top # "callback"
      <3>1. Top = "callback" => \E x \in Runners : frames = <<x, "callback">>
        BY TopIs
      <3>2. \A x : frames = <<x, "callback">> => Len(frames) = 2
        BY Frames2
      <3> QED BY <1>4, <3>1, <3>2 DEF FrameInv
    <2>2. frames = <<>>
      BY <1>1, <2>1, TopIs
    <2>3. Leaving' /\ "free" \in Events /\ flags \subseteq flags' /\ flags' \subseteq flags \cup {"disconnecting", "freeing"}
      BY <1>1 DEF Leaving, Events, Runners
    <2>4. Push("free")
      BY <1>1, <1>4
    <2>5. told' = told /\ socket' = socket
      BY <1>1
    <2> QED BY <1>2, <2>2, <2>3, <2>4, <2>5, PushCalm
  <1> QED BY <1>3, <1>4

LEMMA DisconnectCalm == ASSUME FrameInv, ToldInv, AsyncDisconnect PROVE Calm
  <1>1. /\ Alive /\ Top \in {"none", "callback"} /\ flags' = flags \cup {"disconnecting"} /\ told' = told /\ socket' = socket
        /\ Push("disconnect")
    BY DEF AsyncDisconnect, UserRuns, Rest
  <1>2. socket # "freed"
    BY <1>1 DEF Alive
  <1>3. CASE Top = "none"
    <2>1. frames = <<>>
      BY <1>3, TopIs
    <2>2. /\ "disconnect" \in Events /\ "disconnect" \notin Freeing /\ flags \subseteq flags' /\ "disconnecting" \in flags'
          /\ flags' \subseteq flags \cup {"disconnecting", "freeing"}
      BY <1>1 DEF Events, Freeing
    <2>3. told' = told /\ socket' = socket /\ Push("disconnect")
      BY <1>1
    <2> QED BY <1>2, <2>1, <2>2, <2>3, PushCalm
  <1>4. CASE Top = "callback"
    <2>1. PICK x \in Runners : frames = <<x, "callback">>
      BY <1>4, TopIs
    <2>2. Len(frames) = 2 /\ (Teardown <=> x \in Freeing) /\ frames' = <<x, "callback", "disconnect">>
      BY <1>1, <2>1, Frames2
    <2>3. FlagsFit' /\ "incallback" \in flags' /\ "disconnecting" \in flags'
      BY <1>1, <2>2 DEF FlagsFit, FlagNames, FrameInv
    <2>4. FrameInv' /\ (Teardown' <=> x \in Freeing)
      BY <2>2, <2>3, ToThree
    <2>5. ToldInv'
      BY <1>1, <1>2, <1>4, <2>2, <2>4, ToldKept
    <2> QED BY <1>1, <1>2, <2>2, <2>4, <2>5 DEF Calm
  <1> QED BY <1>1, <1>3, <1>4

LEMMA ReturnCalm == ASSUME FrameInv, ToldInv, CallbackReturns PROVE Calm
  <1>1. Alive /\ Top = "callback" /\ Pop /\ flags' = flags \ {"incallback"} /\ told' = told /\ socket' = socket
    BY DEF CallbackReturns, Rest
  <1>2. socket # "freed"
    BY <1>1 DEF Alive
  <1>3. PICK x \in Runners : frames = <<x, "callback">>
    BY <1>1, TopIs
  <1>4. Len(frames) = 2 /\ (Teardown <=> x \in Freeing) /\ frames' = <<x>>
    BY <1>1, <1>3, Frames2
  <1>5. FlagsFit' /\ "incallback" \notin flags' /\ (x \in Freeing => Leaving') /\ x \in Events /\ x # "disconnect"
    BY <1>1, <1>4 DEF FlagsFit, Leaving, FrameInv, Events, Runners
  <1>6. FrameInv' /\ (Teardown' <=> x \in Freeing)
    BY <1>4, <1>5, ToOne
  <1>7. ToldInv'
    BY <1>1, <1>2, <1>4, <1>6, ToldKept
  <1> QED BY <1>1, <1>2, <1>4, <1>6, <1>7 DEF Calm

\* A disconnect that had to wait goes back to the callback, or frees at once.
LEMMA NowCalm == ASSUME FrameInv, ToldInv, DisconnectNow PROVE Calm
  <1>1. Top = "disconnect" /\ told' = told /\ socket' = socket
    BY DEF DisconnectNow, Rest
  <1>2. socket # "freed"
    BY <1>1, TopAlive
  <1>3. frames = <<"disconnect">> \/ \E x \in Runners : frames = <<x, "callback", "disconnect">>
    BY <1>1, TopIs
  <1>4. "disconnecting" \in flags /\ flags \subseteq FlagNames
    BY <1>1 DEF FrameInv
  <1>5. CASE frames = <<"disconnect">>
    <2>1. Len(frames) = 1 /\ ~ Teardown /\ (Pop => frames' = <<>>) /\ \A y : Replace(y) => frames' = <<y>>
      BY <1>5, Frames1 DEF Freeing
    <2>2. "incallback" \notin flags
      BY <2>1 DEF FrameInv
    <2>3. CASE Pop /\ UNCHANGED <<flags, acErr, aborted>>
      <3>1. frames' = <<>> /\ FlagsFit' /\ "incallback" \notin flags'
        BY <1>4, <2>1, <2>2, <2>3 DEF FlagsFit
      <3>2. FrameInv' /\ ~ Teardown'
        BY <3>1, ToNone
      <3>3. ToldInv'
        BY <1>1, <1>2, <2>1, <2>3, <3>2, ToldKept
      <3> QED BY <1>1, <1>2, <2>1, <2>3, <3>2, <3>3 DEF Calm
    <2>4. CASE Disconnect(acErr, flags)
      <3>1. frames' = <<"free">> /\ flags \subseteq flags' /\ flags' \subseteq flags \cup {"disconnecting"}
        BY <2>1, <2>4 DEF Disconnect
      <3>2. FlagsFit' /\ "incallback" \notin flags' /\ Leaving' /\ "free" \in Events
        BY <1>4, <2>2, <3>1 DEF FlagsFit, FlagNames, Leaving, Events, Runners
      <3>3. FrameInv' /\ Teardown'
        BY <3>1, <3>2, ToOne DEF Freeing
      <3>4. ToldInv'
        BY <1>1, <1>2, <3>1, <3>3, ToldKept
      <3> QED BY <1>1, <1>2, <3>1, <3>3, <3>4 DEF Calm
    <2> QED BY <2>3, <2>4 DEF DisconnectNow
  <1>6. CASE \E x \in Runners : frames = <<x, "callback", "disconnect">>
    <2>1. PICK x \in Runners : frames = <<x, "callback", "disconnect">>
      BY <1>6
    <2>2. Len(frames) = 3 /\ (Teardown <=> x \in Freeing) /\ (Pop => frames' = <<x, "callback">>)
      BY <2>1, Frames3
    <2>3. "incallback" \in flags
      BY <2>2 DEF FrameInv
    <2>4. frames' = <<x, "callback">> /\ flags' = flags
      BY <2>2, <2>3 DEF DisconnectNow
    <2>5. FlagsFit' /\ "incallback" \in flags' /\ (x \in Freeing => Leaving')
      BY <1>4, <2>3, <2>4 DEF FlagsFit, Leaving
    <2>6. FrameInv' /\ (Teardown' <=> x \in Freeing)
      BY <2>4, <2>5, ToTwo
    <2>7. ToldInv'
      BY <1>1, <1>2, <2>2, <2>4, <2>6, ToldKept
    <2> QED BY <1>1, <1>2, <2>2, <2>4, <2>6, <2>7 DEF Calm
  <1> QED BY <1>3, <1>5, <1>6

\* __redisAsyncDisconnect frees whatever ran.
LEMMA GoneCalm ==
    ASSUME FrameInv, ToldInv, NEW x \in Events, x # "disconnect", Top = x, NEW err, Disconnect(err, flags),
           err \/ "disconnecting" \in flags, told' = told, socket' = socket
    PROVE  Calm /\ Teardown' /\ Top' = "free"
  <1>1. Replace("free") /\ flags \subseteq flags' /\ flags' \subseteq flags \cup {"disconnecting"} /\ Leaving'
    BY DEF Disconnect, Leaving
  <1>2. "free" \in Events /\ "free" # "disconnect" /\ "free" \in Freeing
    BY DEF Events, Runners, Freeing
  <1>3. Calm /\ (Teardown' <=> "free" \in Freeing) /\ Top' = "free"
    BY ONLY <1>1, <1>2, FrameInv, ToldInv, x \in Events, x # "disconnect", Top = x, told' = told, socket' = socket, ReplaceCalm
  <1> QED BY <1>2, <1>3

LEMMA ConnectCalm ==
    ASSUME FrameInv, ToldInv, NEW next \in {"read", "write"}, HandleConnect(next)
    PROVE  Calm
  <1>1. /\ frames = <<>> /\ "connected" \notin flags /\ socket \in {"connecting", "closed"}
        /\ told' = [told EXCEPT !.connect = @ + 1]
        /\ \/ socket' = "open" /\ flags' = flags \cup {"connected"} /\ frames' = <<next>>
           \/ socket' = "closed" /\ flags' = flags /\ frames' = <<"connectfailed">>
    BY DEF HandleConnect, Event
  <1>2. ~ Teardown /\ Top = "none" /\ Len(frames) = 0
    BY <1>1, Frames0
  <1>3. told.connect = 0 /\ told.disconnect = 0
    BY <1>1, <1>2 DEF ToldInv
  <1>4. told' \in [connect : 0..1, disconnect : 0..1] /\ told'.disconnect = 0
    BY <1>1, <1>3 DEF ToldInv
  <1>5. PICK y : y = IF flags' = flags THEN "connectfailed" ELSE next
    OBVIOUS
  <1>6. y \in Events /\ y # "disconnect" /\ y \notin Freeing /\ frames' = <<y>>
    BY <1>1, <1>5 DEF Events, Runners, Freeing
  <1>7. FlagsFit' /\ "incallback" \notin flags'
    BY <1>1, <1>2 DEF FlagsFit, FlagNames, FrameInv
  <1>8. FrameInv' /\ Top' = y
    BY <1>6, <1>7, ToOne
  <1>9. ToldInv'
    BY <1>1, <1>4, <1>5, <1>8 DEF ToldInv
  <1>10. ("subscribed" \in flags' <=> "subscribed" \in flags) /\ ("monitoring" \in flags' <=> "monitoring" \in flags)
    BY <1>1
  <1> QED BY <1>1, <1>2, <1>8, <1>9, <1>10 DEF Calm

LEMMA RunCalm ==
    ASSUME FrameInv, ToldInv,
           ConnectFailed \/ HandleWrite \/ BufferWrite \/ HandleRead \/ BufferRead \/ NoMore \/ RanRegular
               \/ FreeRepliesDone \/ SpontaneousError
    PROVE  Calm /\ (SpontaneousError => Teardown')
  <1> USE DEF Rest
  <1>0. {"connectfailed", "write", "read", "process", "ranregular", "free", "freeinvalid"} \subseteq Events
    BY DEF Events, Runners
  <1>a. ASSUME SpontaneousError PROVE Calm /\ Teardown'
    <2>1. Top = "process" /\ Disconnect(TRUE, flags) /\ told' = told /\ socket' = socket
      BY <1>a DEF SpontaneousError
    <2> QED BY <1>0, <2>1, GoneCalm
  <1>1. CASE ConnectFailed
    <2>1. Top = "connectfailed" /\ Disconnect(TRUE, flags) /\ told' = told /\ socket' = socket
      BY <1>1 DEF ConnectFailed
    <2>2. Calm
      BY <1>0, <2>1, GoneCalm
    <2> QED BY <1>a, <2>2
  <1>2. ASSUME NEW next \in {"read", "write"}, HandleConnect(next) PROVE Calm
    BY <1>2, ConnectCalm
  <1>3. ASSUME NEW next \in {"read", "write"}, Event, Push(next), flags' = flags, told' = told, socket' = socket PROVE Calm
    <2>1. frames = <<>> /\ socket # "freed"
      BY <1>3 DEF Event, Alive
    <2>2. next \in Events /\ next # "disconnect" /\ next \notin Freeing
      BY DEF Events, Freeing
    <2> QED BY <1>3, <2>1, <2>2, PushCalm
  <1>4. CASE HandleWrite
    <2>1. Calm
      BY <1>2, <1>3, <1>4 DEF HandleWrite
    <2> QED BY <1>a, <2>1
  <1>5. CASE HandleRead
    <2>1. Calm
      BY <1>2, <1>3, <1>5 DEF HandleRead
    <2> QED BY <1>a, <2>1
  <1>6. CASE BufferWrite
    <2>1. Top = "write" /\ told' = told /\ socket' = socket /\ ((Pop /\ flags' = flags) \/ Disconnect(TRUE, flags))
      BY <1>6 DEF BufferWrite
    <2>2. "write" \notin Freeing \cup {"connectfailed", "disconnect"}
      BY DEF Freeing
    <2>3. CASE Pop /\ flags' = flags
      BY <1>0, <1>a, <2>1, <2>2, <2>3, PopCalm
    <2>4. CASE Disconnect(TRUE, flags)
      BY <1>0, <1>a, <2>1, <2>2, <2>4, GoneCalm
    <2> QED BY <2>1, <2>3, <2>4
  <1>7. CASE BufferRead
    <2>1. Top = "read" /\ told' = told /\ socket' = socket /\ ((Replace("process") /\ flags' = flags) \/ Disconnect(TRUE, flags))
      BY <1>7 DEF BufferRead
    <2>2. "read" \notin Freeing \cup {"connectfailed", "disconnect"} /\ "process" \notin Freeing /\ "process" # "disconnect"
      BY DEF Freeing
    <2>3. CASE Replace("process") /\ flags' = flags
      <3>1. flags \subseteq flags' /\ flags' \subseteq flags \cup {"disconnecting"}
        BY <2>3
      <3> QED BY <1>0, <1>a, <2>1, <2>2, <2>3, <3>1, ReplaceCalm
    <2>4. CASE Disconnect(TRUE, flags)
      BY <1>0, <1>a, <2>1, <2>2, <2>4, GoneCalm
    <2> QED BY <2>1, <2>3, <2>4
  <1>8. CASE NoMore
    <2>1. /\ Top = "process" /\ told' = told /\ socket' = socket
          /\ (Pop /\ flags' = flags) \/ ("disconnecting" \in flags /\ Disconnect(acErr, flags))
      BY <1>8 DEF NoMore
    <2>2. "process" \notin Freeing \cup {"connectfailed", "disconnect"}
      BY DEF Freeing
    <2>3. CASE Pop /\ flags' = flags
      BY <1>0, <1>a, <2>1, <2>2, <2>3, PopCalm
    <2>4. CASE "disconnecting" \in flags /\ Disconnect(acErr, flags)
      BY <1>0, <1>a, <2>1, <2>2, <2>4, GoneCalm
    <2> QED BY <2>1, <2>3, <2>4
  <1>9. CASE RanRegular
    <2>1. PICK y : y = IF "freeing" \in flags THEN "free" ELSE "process"
      OBVIOUS
    <2>2. Top = "ranregular" /\ told' = told /\ socket' = socket /\ Replace(y) /\ flags' = flags
      BY <1>9, <2>1 DEF RanRegular
    <2>3. /\ y \in Events /\ y # "disconnect" /\ (y \in Freeing => Leaving')
          /\ "ranregular" \notin Freeing \cup {"connectfailed", "disconnect"}
      BY <1>0, <2>1, <2>2 DEF Freeing, Leaving
    <2>4. flags \subseteq flags' /\ flags' \subseteq flags \cup {"disconnecting"}
      BY <2>2
    <2>5. Calm
      BY <1>0, <2>2, <2>3, <2>4, ReplaceCalm
    <2> QED BY <1>a, <2>5
  <1>10. CASE FreeRepliesDone
    <2>1. Top = "free" /\ told' = told /\ socket' = socket /\ Replace("freeinvalid") /\ flags' = flags
      BY <1>10 DEF FreeRepliesDone
    <2>2. Leaving' /\ "free" # "disconnect" /\ "freeinvalid" # "disconnect" /\ {"free", "freeinvalid"} \subseteq Freeing
      BY <1>0, <2>1, AtTop DEF Leaving, Freeing
    <2>3. flags \subseteq flags' /\ flags' \subseteq flags \cup {"disconnecting"}
      BY <2>1
    <2>4. Calm
      BY <1>0, <2>1, <2>2, <2>3, ReplaceCalm
    <2> QED BY <1>a, <2>4
  <1> QED BY <1>a, <1>1, <1>4, <1>5, <1>6, <1>7, <1>8, <1>9, <1>10

\* A callback runs on top of what ran.
LEMMA CallCalm ==
    ASSUME FrameInv, ToldInv, NEW x \in Events, x \notin {"disconnect", "connectfailed"}, Top = x,
           NEW id, NEW reply, NEW y \in Runners, RunCallback(id, reply, y), y \in Freeing <=> x \in Freeing,
           told' = told, socket' = socket
    PROVE  Calm /\ (Teardown' <=> Teardown) /\ Top' \in {y, "callback"}
  <1>1. (Teardown <=> x \in Freeing) /\ (x \in Freeing => Leaving)
    BY AtTop
  <1>2. /\ FrameInv' /\ (Teardown' <=> y \in Freeing) /\ flags \subseteq flags' /\ flags' \subseteq flags \cup {"incallback"}
        /\ Top' \in {y, "callback"}
    BY <1>1, RunsCallback
  <1>3. Top # "none"
    BY DEF Events, Runners
  <1>4. socket # "freed"
    BY <1>3, TopAlive
  <1>5. ToldInv'
    BY <1>1, <1>2, <1>4, ToldKept
  <1> QED BY <1>1, <1>2, <1>4, <1>5 DEF Calm

LEMMA FreesCalm == ASSUME FrameInv, ToldInv, FreeReplies \/ FreeInvalid \/ FreeSubs PROVE Calm
  <1>0. {"free", "freeinvalid", "freesubs"} \subseteq Events /\ Freeing \subseteq Runners /\ {"free", "freeinvalid", "freesubs"} \subseteq Freeing
    BY DEF Events, Runners, Freeing
  <1>1. CASE FreeReplies
    BY <1>0, <1>1, CallCalm DEF FreeReplies
  <1>2. CASE FreeInvalid
    <2>1. Top = "freeinvalid" /\ told' = told /\ socket' = socket
      BY <1>2 DEF FreeInvalid
    <2>2. CASE invalid = <<>>
      <3>1. Replace("freesubs") /\ flags' = flags
        BY <1>2, <2>2 DEF FreeInvalid
      <3>2. Leaving'
        BY <1>0, <2>1, <3>1, AtTop DEF Leaving
      <3>3. flags \subseteq flags' /\ flags' \subseteq flags \cup {"disconnecting"}
        BY <3>1
      <3> QED BY <1>0, <2>1, <3>1, <3>2, <3>3, ReplaceCalm
    <2>3. CASE invalid # <<>>
      BY <1>0, <1>2, <2>1, <2>3, CallCalm DEF FreeInvalid
    <2> QED BY <2>2, <2>3
  <1>3. CASE FreeSubs
    <2>1. PICK name \in DOMAIN subs : RunCallback(subs[name].id, NoCallback, "freesubs")
      BY <1>3 DEF FreeSubs
    <2>2. Top = "freesubs" /\ told' = told /\ socket' = socket
      BY <1>3 DEF FreeSubs
    <2> QED BY <1>0, <2>1, <2>2, CallCalm
  <1> QED BY <1>1, <1>2, <1>3

LEMMA FreedFrames == ASSUME FrameInv, ToldInv, Freed PROVE FrameInv' /\ ToldInv' /\ ~ Teardown' /\ socket' = "freed"
  <1>1. /\ Top = "freesubs" /\ socket' = "freed" /\ frames' = <<>> /\ flags' = flags
        /\ told' = IF "connected" \in flags THEN [told EXCEPT !.disconnect = @ + 1] ELSE told
    BY DEF Freed
  <1>2. "freesubs" \in Events /\ "freesubs" # "disconnect"
    BY DEF Events, Runners
  <1>3. "incallback" \notin flags /\ FlagsFit
    BY <1>1, <1>2, AtTop
  <1>4. FlagsFit' /\ "incallback" \notin flags'
    BY <1>1, <1>3 DEF FlagsFit
  <1>5. FrameInv' /\ ~ Teardown'
    BY <1>1, <1>4, ToNone
  <1>6. socket # "freed"
    BY <1>1, TopAlive
  <1>7. ToldInv'
    BY <1>1, <1>6 DEF ToldInv
  <1> QED BY <1>1, <1>5, <1>7

LEMMA ReplyFrames ==
    ASSUME FrameInv, ToldInv, RegularReply \/ SubscribeReply
    PROVE  /\ FrameInv' /\ ToldInv' /\ ~ Teardown /\ ~ Teardown' /\ socket # "freed" /\ socket' = socket
           /\ "monitoring" \in flags' <=> "monitoring" \in flags
           /\ RegularReply => Calm
  <1>0. "process" \in Events /\ "process" \notin Freeing /\ "process" \notin {"disconnect", "connectfailed"}
    BY DEF Events, Freeing
  <1>1. CASE RegularReply
    <2>1. /\ Top = "process" /\ told' = told /\ socket' = socket
          /\ RunCallback(Head(replies), Head(got), "ranregular")
      BY <1>1 DEF RegularReply
    <2>2. "ranregular" \in Runners /\ "ranregular" \notin Freeing
      BY DEF Runners, Freeing
    <2>3. Calm
      BY <1>0, <2>1, <2>2, CallCalm
    <2>4. ~ Teardown /\ ~ Teardown'
      BY <1>0, <2>1, <2>2, AtTop, CallCalm
    <2> QED BY <2>1, <2>3, <2>4 DEF Calm
  <1>2. CASE SubscribeReply /\ ~ RegularReply
    <2>1. /\ Top = "process" /\ told' = told /\ socket' = socket
          /\ \E left : /\ left = flags \/ left = flags \ {"subscribed"}
                       /\ \/ Replace("process") /\ flags' = left
                          \/ /\ frames' = SubSeq(frames, 1, Len(frames) - 1) \o <<"ranregular", "callback">>
                             /\ flags' = left \cup {"incallback"}
      BY <1>2 DEF SubscribeReply
    <2>2. /\ ~ Teardown /\ FlagsFit /\ "incallback" \notin flags /\ (Replace("process") => frames' = <<"process">>)
          /\ SubSeq(frames, 1, Len(frames) - 1) \o <<"ranregular", "callback">> = <<"ranregular", "callback">>
      BY <1>0, <2>1, AtTop
    <2>3. PICK left : /\ left = flags \/ left = flags \ {"subscribed"}
                      /\ \/ frames' = <<"process">> /\ flags' = left
                         \/ frames' = <<"ranregular", "callback">> /\ flags' = left \cup {"incallback"}
      BY <2>1, <2>2
    <2>4. socket # "freed"
      BY <2>1, TopAlive
    <2>5. FlagsFit'
      BY <2>2, <2>3 DEF FlagsFit, FlagNames
    <2>6. FrameInv' /\ ~ Teardown'
      <3>1. CASE frames' = <<"process">> /\ flags' = left
        <4>1. "incallback" \notin flags'
          BY <2>2, <2>3, <3>1
        <4> QED BY <1>0, <2>5, <3>1, <4>1, ToOne
      <3>2. CASE frames' = <<"ranregular", "callback">> /\ flags' = left \cup {"incallback"}
        <4>1. "incallback" \in flags' /\ "ranregular" \in Runners /\ "ranregular" \notin Freeing
          BY <3>2 DEF Runners, Freeing
        <4> QED BY <2>5, <3>2, <4>1, ToTwo
      <3> QED BY <2>3, <3>1, <3>2
    <2>7. ("connected" \in flags => "connected" \in flags') /\ ("monitoring" \in flags' <=> "monitoring" \in flags)
      BY <2>3
    <2>8. ToldInv'
      BY <2>1, <2>2, <2>4, <2>7, ToldKept
    <2> QED BY <1>2, <2>1, <2>2, <2>4, <2>6, <2>7, <2>8
  <1> QED BY <1>1, <1>2

LEMMA CommandFrames ==
    ASSUME FrameInv, ToldInv, NEW c \in AsyncCommands, AsyncCommand(c)
    PROVE  FrameInv' /\ ToldInv' /\ ~ Teardown /\ ~ Teardown' /\ socket # "freed" /\ socket' = socket
  <1>1. /\ frames' = frames /\ told' = told /\ socket' = socket /\ Alive /\ flags \cap {"disconnecting", "freeing"} = {}
        /\ flags' \in {flags, flags \cup {"subscribed"}, flags \cup {"monitoring"}}
    BY DEF AsyncCommand, UserRuns, Refuse
  <1>2. socket # "freed" /\ socket' \in {"connecting", "open", "closed"}
    BY <1>1 DEF Alive, ToldInv
  <1>3. flags \subseteq flags' /\ flags' \subseteq flags \cup {"subscribed", "monitoring", "freeing"}
    BY <1>1
  <1>4. FrameInv' /\ ToldInv' /\ (Teardown' <=> Teardown)
    BY <1>1, <1>2, <1>3, SameFrames
  <1>5. ~ Teardown
    BY <1>1 DEF FrameInv
  <1> QED BY <1>1, <1>2, <1>4, <1>5

LEMMA ServerFrames ==
    ASSUME FrameInv, ToldInv, Serves \/ Publishes \/ Closes
    PROVE  Calm /\ (Teardown' <=> Teardown) /\ socket = "open"
  <1>1. frames' = frames /\ told' = told /\ flags' = flags /\ socket = "open" /\ socket' \in {"open", "closed"}
    BY DEF Serves, Publishes, Closes
  <1>2. FrameInv' /\ ToldInv' /\ (Teardown' <=> Teardown)
    BY <1>1, SameFrames
  <1> QED BY <1>1, <1>2 DEF Calm

\* The frames are kept by every step.
LEMMA FrameStart == AsyncInitialize => FrameInv /\ ToldInv
  <1> SUFFICES ASSUME AsyncInitialize PROVE FrameInv /\ ToldInv
    OBVIOUS
  <1>1. frames = <<>> /\ flags = {} /\ socket = "connecting" /\ told = [connect |-> 0, disconnect |-> 0]
    BY DEF AsyncInitialize
  <1>2. Top = "none" /\ Len(frames) = 0 /\ ~ Teardown
    BY <1>1, Frames0
  <1> QED BY <1>1, <1>2 DEF FrameInv, ToldInv, Shape

LEMMA FrameStep == FrameInv /\ ToldInv /\ [AsyncNext]_acVars => FrameInv' /\ ToldInv'
  <1> SUFFICES ASSUME FrameInv, ToldInv, [AsyncNext]_acVars PROVE FrameInv' /\ ToldInv'
    OBVIOUS
  <1>1. CASE UNCHANGED acVars \/ SubscribeAssert
    <2>1. frames' = frames /\ flags' = flags /\ told' = told /\ socket' = socket
      BY <1>1 DEF acVars, SubscribeAssert, Rest
    <2>2. Top' = Top /\ Teardown' = Teardown
      BY <2>1 DEF Top, Teardown
    <2> QED BY <2>1, <2>2 DEF FrameInv, ToldInv
  <1>2. ASSUME NEW c \in AsyncCommands, AsyncCommand(c) PROVE FrameInv' /\ ToldInv'
    BY <1>2, CommandFrames
  <1>3. CASE AsyncFree \/ AsyncDisconnect \/ DisconnectNow \/ CallbackReturns
    BY <1>3, FreeCalm, DisconnectCalm, NowCalm, ReturnCalm DEF Calm
  <1>4. CASE Freed \/ FreeReplies \/ FreeInvalid \/ FreeSubs \/ RegularReply \/ SubscribeReply
    BY <1>4, FreedFrames, FreesCalm, ReplyFrames DEF Calm
  <1>5. CASE ConnectFailed \/ HandleWrite \/ BufferWrite \/ HandleRead \/ BufferRead \/ NoMore \/ RanRegular
               \/ FreeRepliesDone \/ SpontaneousError
    BY <1>5, RunCalm DEF Calm
  <1>6. CASE Serves \/ Publishes \/ Closes
    BY <1>6, ServerFrames DEF Calm
  <1> QED BY <1>1, <1>2, <1>3, <1>4, <1>5, <1>6 DEF AsyncNext, Library

-----------------------------------------------------------------------------
(* The types. *)

CommandKinds == {"get", "sub", "unsub", "monitor"}
Tokens == [kind : {"reply", "error", "sub", "unsub", "message", "line", "null"}, of : Nat, name : Names \cup {""}, left : Nat]
Asks == [kind : CommandKinds, names : Seq(Names), id : Nat]
Servers == [in : Seq(Asks), out : Seq(Tokens), subs : SUBSET Names, monitor : BOOLEAN, sent : Nat]
Issues == Seq([kind : CommandKinds, names : Seq(Names), open : BOOLEAN])
AsyncTypes ==
    /\ issued \in Issues /\ replies \in Seq(Nat) /\ invalid \in Seq(Nat) /\ cb \in Nat
    /\ got \in Seq(Tokens) /\ obuf \in Seq(Asks) /\ server \in Servers
    /\ DOMAIN subs \subseteq Names /\ \A n \in DOMAIN subs : subs[n] \in [id : Nat, pending : Int]
    /\ ran \in Seq([id : Nat, reply : Tokens])

LEMMA SeqHead ==
    ASSUME NEW S, NEW s \in Seq(S), s # <<>>
    PROVE  Head(s) \in S /\ Tail(s) \in Seq(S) /\ Head(s) = s[1] /\ Len(s) \in Nat \ {0}
           /\ Len(Tail(s)) = Len(s) - 1 /\ \A i \in 1..Len(s) - 1 : Tail(s)[i] = s[i + 1]
  BY HeadTailProperties, EmptySeq

LEMMA SeqSub ==
    ASSUME NEW S, NEW s \in Seq(S), NEW i \in Nat, NEW j \in Int, 1 <= i, j <= Len(s)
    PROVE  SubSeq(s, i, j) \in Seq(S)
  <1>1. \A k \in i..j : s[k] \in S
    <2>1. Len(s) \in Nat /\ \A k \in 1..Len(s) : s[k] \in S
      BY ElementOfSeq, LenProperties
    <2> QED BY <2>1
  <1> QED BY <1>1, SubSeqProperties

LEMMA TokenIs ==
    ASSUME NEW kind \in {"reply", "error", "sub", "unsub", "message", "line", "null"}, NEW id \in Nat,
           NEW name \in Names \cup {""}, NEW left \in Nat
    PROVE  ServerReply(kind, id, name, left) \in Tokens
  BY DEF ServerReply, Tokens

LEMMA SubsLeft == ASSUME NEW D \in SUBSET Names PROVE Cardinality(D) \in Nat
  BY AsyncAssumption, FS_Subset, FS_CardinalityType

LEMMA NamesAre ==
    ASSUME NEW c \in AsyncCommands
    PROVE  /\ c.kind \in CommandKinds /\ c.names \in Seq(Names)
           /\ c.kind \in {"get", "monitor"} => c.names = <<>>
           /\ c.kind \in {"sub", "unsub"} => c.names # <<>>
           /\ c.kind = "unsub" => Len(c.names) = 1
           /\ \A k, l \in DOMAIN c.names : c.names[k] = c.names[l] => k = l
  <1>1. CASE c \in [kind : {"get", "monitor"}, names : {<<>>}]
    <2>1. c.names = <<>> /\ c.kind \in {"get", "monitor"}
      BY <1>1
    <2>2. <<>> \in Seq(Names) /\ DOMAIN <<>> = {}
      BY EmptySeq
    <2> QED BY <2>1, <2>2 DEF CommandKinds
  <1>2. CASE c \in [kind : {"sub"}, names : NameLists]
    <2>1. c.kind = "sub" /\ c.names \in NameLists
      BY <1>2
    <2>2. Cardinality(Names) \in Nat
      BY SubsLeft
    <2>3. PICK k \in 1..Cardinality(Names) : c.names \in [1..k -> Names]
      BY <2>1 DEF NameLists
    <2>4. k \in Nat /\ k # 0
      BY <2>2
    <2>5. PICK s : s = c.names
      OBVIOUS
    <2>6. s \in Seq(Names) /\ Len(s) = k
      BY <2>3, <2>4, <2>5, SeqDef, LenProperties
    <2>7. s # <<>>
      BY <2>4, <2>6, EmptySeq
    <2>8. \A i, l \in DOMAIN s : s[i] = s[l] => i = l
      BY <2>1, <2>5 DEF NameLists
    <2> QED BY <2>1, <2>5, <2>6, <2>7, <2>8 DEF CommandKinds
  <1>3. CASE c \in [kind : {"unsub"}, names : {<<n>> : n \in Names}]
    <2>1. PICK n \in Names : c.names = <<n>>
      BY <1>3
    <2>2. c.kind = "unsub"
      BY <1>3
    <2>3. <<n>> \in Seq(Names) /\ Len(<<n>>) = 1 /\ DOMAIN <<n>> = {1} /\ <<n>> # <<>>
      OBVIOUS
    <2> QED BY <2>1, <2>2, <2>3 DEF CommandKinds
  <1> QED BY <1>1, <1>2, <1>3 DEF AsyncCommands

LEMMA MaxIs ==
    ASSUME NEW m \in Nat, NEW T \in SUBSET (1..m), T # {}
    PROVE  Max(T) \in T /\ \A y \in T : y <= Max(T)
  <1> DEFINE R == {ss \in Nat \X Nat : ss[1] < ss[2]}  U == {k \in Nat : m - k \in T}
  <1>1. IsWellFoundedOn(R, Nat)
    BY NatLessThanWellFounded DEF OpToRel
  <1>2. U \subseteq Nat /\ U # {}
    <2>1. PICK t \in T : TRUE
      OBVIOUS
    <2>2. m - t \in Nat /\ m - (m - t) = t
      BY <2>1
    <2> QED BY <2>1, <2>2
  <1> HIDE DEF R, U
  <1>3. PICK x \in U : \A y \in U : ~ (<<y, x>> \in R)
    BY <1>1, <1>2, WFMin
  <1>4. \A y \in U : x <= y
    <2>1. \A y \in U : ~ (y < x)
      BY <1>2, <1>3 DEF R
    <2> QED BY <1>2, <2>1
  <1>5. \A t \in T : t <= m - x
    <2> SUFFICES ASSUME NEW t \in T PROVE t <= m - x
      OBVIOUS
    <2>1. m - t \in Nat /\ m - (m - t) = t
      OBVIOUS
    <2>2. x <= m - t /\ x \in Nat
      BY <1>4, <2>1 DEF U
    <2> QED BY <2>2
  <1> QED BY <1>3, <1>5 DEF Max, U

\* What a subscription makes of the callbacks: a new callback for each name, with one more to wait for.
LEMMA AddNamesIs ==
    ASSUME AsyncTypes, NEW names \in Seq(Names), NEW id \in Nat
    PROVE  /\ DOMAIN AddNames(names, id) = DOMAIN subs \cup Range(names)
           /\ \A n \in Range(names) : /\ AddNames(names, id)[n].id = id
                                      /\ AddNames(names, id)[n] \in [id : Nat, pending : Int]
           /\ \A n \in DOMAIN subs \ Range(names) : AddNames(names, id)[n] = subs[n]
           /\ \A n \in Range(names) :
                  /\ n \in DOMAIN subs => AddNames(names, id)[n].pending = subs[n].pending + 1
                  /\ (\A m \in DOMAIN subs : subs[m].pending >= 0) => AddNames(names, id)[n].pending >= 1
  <1> DEFINE at(n) == CHOOSE i \in DOMAIN names : names[i] = n
             made(n) == [id |-> id, pending |-> PendingSubs(names, at(n))]
  <1>1. /\ DOMAIN AddNames(names, id) = DOMAIN subs \cup Range(names)
        /\ \A n \in Range(names) : AddNames(names, id)[n] = made(n)
        /\ \A n \in DOMAIN subs \ Range(names) : AddNames(names, id)[n] = subs[n]
    BY DEF AddNames
  <1>2. \A n \in Range(names) : at(n) \in DOMAIN names /\ names[at(n)] = n
    BY DEF Range
  <1>3. DOMAIN names \subseteq Nat \ {0} /\ \A i \in DOMAIN names : 1..i \subseteq DOMAIN names
    <2>1. DOMAIN names = 1..Len(names) /\ Len(names) \in Nat
      BY LenProperties
    <2> QED BY <2>1
  <1> HIDE DEF at
  <1>4. ASSUME NEW i \in DOMAIN names
        PROVE  /\ PendingSubs(names, i) \in Int
               /\ (\A m \in DOMAIN subs : subs[m].pending >= 0) => PendingSubs(names, i) >= 1
               /\ names[i] \in DOMAIN subs => PendingSubs(names, i) = subs[names[i]].pending + 1
    <2>1. i \in Nat /\ KnownNames(names, i) \in SUBSET (1..i)
      BY <1>3 DEF KnownNames
    <2>2. CASE KnownNames(names, i) = {}
      <3>1. names[i] \notin DOMAIN subs
        BY <1>3, <2>1, <2>2 DEF KnownNames
      <3> QED BY <2>2, <3>1 DEF PendingSubs
    <2>3. CASE KnownNames(names, i) # {}
      <3>1. PICK x : x = Max(KnownNames(names, i))
        OBVIOUS
      <3>2. x \in KnownNames(names, i) /\ \A y \in KnownNames(names, i) : y <= x
        BY <2>1, <2>3, <3>1, MaxIs
      <3>3. PendingSubs(names, i) = subs[names[x]].pending + 1 /\ names[x] \in DOMAIN subs
        BY <2>3, <3>1, <3>2 DEF PendingSubs, KnownNames
      <3>4. subs[names[x]].pending \in Int
        BY <3>3 DEF AsyncTypes
      <3>5. names[i] \in DOMAIN subs => x = i
        BY <1>3, <2>1, <3>2 DEF KnownNames
      <3> QED BY <3>3, <3>4, <3>5
    <2> QED BY <2>2, <2>3
  <1>5. \A n \in Range(names) : PendingSubs(names, at(n)) \in Int
    BY <1>2, <1>4
  <1>6. \A n \in Range(names) : AddNames(names, id)[n].id = id /\ AddNames(names, id)[n] \in [id : Nat, pending : Int]
    BY <1>1, <1>5
  <1>7. \A n \in Range(names) :
            /\ n \in DOMAIN subs => AddNames(names, id)[n].pending = subs[n].pending + 1
            /\ (\A m \in DOMAIN subs : subs[m].pending >= 0) => AddNames(names, id)[n].pending >= 1
    BY <1>1, <1>2, <1>4
  <1> QED BY <1>1, <1>6, <1>7

LEMMA TypesStart == AsyncInitialize => AsyncTypes
  <1> SUFFICES ASSUME AsyncInitialize PROVE AsyncTypes
    OBVIOUS
  <1>1. \A S : <<>> \in Seq(S)
    BY EmptySeq
  <1>2. DOMAIN subs = {} /\ cb = 0
    BY DEF AsyncInitialize, NoFn
  <1> QED BY <1>1, <1>2 DEF AsyncInitialize, AsyncTypes, Servers, Issues

\* The types of what a callback gets.
LEMMA CallTypes ==
    ASSUME AsyncTypes, NEW id \in Nat, NEW reply \in Tokens, NEW y, RunCallback(id, reply, y)
    PROVE  ran' \in Seq([id : Nat, reply : Tokens])
  <1>1. ran \in Seq([id : Nat, reply : Tokens]) /\ [id |-> id, reply |-> reply] \in [id : Nat, reply : Tokens]
    BY DEF AsyncTypes
  <1>2. Append(ran, [id |-> id, reply |-> reply]) \in Seq([id : Nat, reply : Tokens])
    BY <1>1, AppendProperties
  <1> QED BY <1>1, <1>2 DEF RunCallback

LEMMA NullToken == NoCallback \in Tokens
  BY DEF NoCallback, Tokens

LEMMA AnsweredIs ==
    ASSUME AsyncTypes, NEW id
    PROVE  /\ Answered(id) \in Issues /\ DOMAIN Answered(id) = DOMAIN issued
           /\ \A i \in DOMAIN issued : /\ Answered(id)[i].kind = issued[i].kind /\ Answered(id)[i].names = issued[i].names
                                       /\ Answered(id)[i].open = (issued[i].open /\ (id = 0 \/ i # id))
  <1> DEFINE S == [kind : CommandKinds, names : Seq(Names), open : BOOLEAN]
  <1>1. issued \in Seq(S) /\ \A i \in DOMAIN issued : issued[i] \in S
    <2>1. issued \in Seq(S)
      BY DEF AsyncTypes, Issues
    <2> QED BY <2>1, ElementOfSeq, LenProperties
  <1>2. CASE id = 0
    BY <1>1, <1>2 DEF Answered, Issues
  <1>3. CASE id # 0
    <2>1. Answered(id) = [issued EXCEPT ![id].open = FALSE]
      BY <1>3 DEF Answered
    <2>2. CASE id \in DOMAIN issued
      <3>1. PICK e : e = [issued[id] EXCEPT !.open = FALSE]
        OBVIOUS
      <3>2. e \in S /\ e.kind = issued[id].kind /\ e.names = issued[id].names /\ e.open = FALSE
        BY <1>1, <2>2, <3>1
      <3>3. Answered(id) = [issued EXCEPT ![id] = e]
        BY <2>1, <3>1
      <3>4. id \in 1..Len(issued)
        BY <1>1, <2>2, LenProperties
      <3>5. Answered(id) \in Seq(S)
        BY ONLY <1>1, <3>2, <3>3, <3>4, ExceptSeq
      <3>6. DOMAIN Answered(id) = DOMAIN issued /\ \A i \in DOMAIN issued : Answered(id)[i] = IF i = id THEN e ELSE issued[i]
        BY ONLY <3>3
      <3>7. \A i \in DOMAIN issued : issued[i].open \in BOOLEAN
        BY <1>1
      <3> QED BY <1>3, <3>2, <3>5, <3>6, <3>7 DEF Issues
    <2>3. CASE id \notin DOMAIN issued
      <3>1. Answered(id) = issued
        <4>1. issued \in [1..Len(issued) -> S]
          BY <1>1, LenProperties
        <4>2. issued = [i \in DOMAIN issued |-> issued[i]]
          BY <4>1
        <4>3. Answered(id) = [i \in DOMAIN issued |-> issued[i]]
          BY <2>1, <2>3
        <4> QED BY ONLY <4>2, <4>3
      <3> QED BY <1>1, <2>3, <3>1 DEF Issues
    <2> QED BY <2>2, <2>3
  <1> QED BY <1>2, <1>3

Wire == got \o server.out
Asked == server.in \o obuf
\* What a step leaves that only moves bytes, or works on the frames.
Moves == /\ Wire' = Wire /\ Asked' = Asked /\ server'.subs = server.subs /\ server'.monitor = server.monitor
         /\ UNCHANGED <<replies, invalid, subs, ran, issued>>

\* Cutting a sequence in two and putting the first part behind another.
LEMMA CutIs ==
    ASSUME NEW S, NEW s \in Seq(S), NEW t \in Seq(S), NEW k \in 0..Len(t)
    PROVE  /\ (s \o SubSeq(t, 1, k)) \o SubSeq(t, k + 1, Len(t)) = s \o t
           /\ s \o SubSeq(t, 1, k) \in Seq(S) /\ SubSeq(t, k + 1, Len(t)) \in Seq(S)
  <1>0. Len(t) \in Nat /\ k \in Nat
    BY LenProperties
  <1>1. SubSeq(t, 1, k) \in Seq(S) /\ SubSeq(t, k + 1, Len(t)) \in Seq(S)
    <2>1. 1 \in Nat /\ k \in Int /\ 1 <= 1 /\ k <= Len(t) /\ k + 1 \in Nat /\ 1 <= k + 1 /\ Len(t) \in Int /\ Len(t) <= Len(t)
      BY <1>0
    <2> QED BY <2>1, SeqSub
  <1>2. SubSeq(t, 1, k) \o SubSeq(t, k + 1, Len(t)) = SubSeq(t, 1, Len(t))
    <2>1. 1 \in 1..Len(t) + 1 /\ k \in 1 - 1..Len(t) /\ Len(t) \in k..Len(t)
      BY <1>0
    <2> QED BY <2>1, ConcatAdjacentSubSeq
  <1>3. SubSeq(t, 1, Len(t)) = t
    BY SubSeqFull
  <1>4. PICK a, b : a = SubSeq(t, 1, k) /\ b = SubSeq(t, k + 1, Len(t))
    OBVIOUS
  <1>5. s \in Seq(S) /\ a \in Seq(S) /\ b \in Seq(S)
    BY <1>1, <1>4
  <1>6. (s \o a) \o b = s \o (a \o b)
    BY ONLY <1>5, ConcatAssociative, SMTT(60)
  <1>7. s \o a \in Seq(S)
    BY ONLY <1>5, ConcatProperties
  <1> QED BY <1>1, <1>2, <1>3, <1>4, <1>6, <1>7

LEMMA ReadMoves == ASSUME AsyncTypes, BufferRead PROVE Moves /\ AsyncTypes'
  <1>0. UNCHANGED <<replies, invalid, subs, obuf, ran, issued>>
    BY DEF BufferRead
  <1>1. CASE UNCHANGED <<got, server, cb>>
    BY <1>0, <1>1 DEF Moves, Wire, Asked, AsyncTypes
  <1>2. CASE ~ UNCHANGED <<got, server, cb>>
    <2>1. PICK k \in 0..Len(server.out) :
              got' = got \o SubSeq(server.out, 1, k) /\ server' = [server EXCEPT !.out = SubSeq(@, k + 1, Len(@))]
      BY <1>2 DEF BufferRead
    <2>2. cb' = 0
      BY <1>2 DEF BufferRead, NoFn
    <2>3. got \in Seq(Tokens) /\ server.out \in Seq(Tokens) /\ server \in Servers
      BY DEF AsyncTypes, Servers
    <2>4. /\ got' \o SubSeq(server.out, k + 1, Len(server.out)) = got \o server.out
          /\ got' \in Seq(Tokens) /\ SubSeq(server.out, k + 1, Len(server.out)) \in Seq(Tokens)
      BY <2>1, <2>3, CutIs
    <2>5. /\ server'.out = SubSeq(server.out, k + 1, Len(server.out)) /\ server'.in = server.in
          /\ server'.subs = server.subs /\ server'.monitor = server.monitor /\ server' \in Servers
      BY <2>1, <2>3, <2>4 DEF Servers
    <2> QED BY <1>0, <2>2, <2>4, <2>5 DEF Moves, Wire, Asked, AsyncTypes
  <1> QED BY <1>1, <1>2

LEMMA WriteMoves == ASSUME AsyncTypes, BufferWrite PROVE Moves /\ AsyncTypes'
  <1>0. UNCHANGED <<replies, invalid, subs, cb, got, ran, issued>>
    BY DEF BufferWrite
  <1>1. CASE UNCHANGED <<server, obuf>>
    BY <1>0, <1>1 DEF Moves, Wire, Asked, AsyncTypes
  <1>2. CASE ~ UNCHANGED <<server, obuf>>
    <2>1. PICK k \in 1..Len(obuf) :
              server' = [server EXCEPT !.in = @ \o SubSeq(obuf, 1, k)] /\ obuf' = SubSeq(obuf, k + 1, Len(obuf))
      BY <1>2 DEF BufferWrite
    <2>2. server.in \in Seq(Asks) /\ obuf \in Seq(Asks) /\ server \in Servers
      BY DEF AsyncTypes, Servers
    <2>3. k \in 0..Len(obuf)
      BY <2>1
    <2>4. /\ (server.in \o SubSeq(obuf, 1, k)) \o obuf' = server.in \o obuf
          /\ server.in \o SubSeq(obuf, 1, k) \in Seq(Asks) /\ obuf' \in Seq(Asks)
      BY <2>1, <2>2, <2>3, CutIs
    <2>5. /\ server'.in = server.in \o SubSeq(obuf, 1, k) /\ server'.out = server.out
          /\ server'.subs = server.subs /\ server'.monitor = server.monitor /\ server' \in Servers
      BY <2>1, <2>2, <2>4 DEF Servers
    <2> QED BY <1>0, <2>4, <2>5 DEF Moves, Wire, Asked, AsyncTypes
  <1> QED BY <1>1, <1>2

\* The other steps of the user and of the frames.
LEMMA FrameMoves ==
    ASSUME AsyncTypes, AsyncFree \/ AsyncDisconnect \/ DisconnectNow \/ CallbackReturns \/ FreeRepliesDone \/ ConnectFailed
               \/ HandleWrite \/ HandleRead \/ RanRegular \/ SubscribeAssert
    PROVE  Moves /\ AsyncTypes'
  <1>1. UNCHANGED <<replies, invalid, subs, cb, obuf, got, server, ran, issued>>
    BY DEF AsyncFree, AsyncDisconnect, DisconnectNow, CallbackReturns, FreeRepliesDone, ConnectFailed, HandleWrite, HandleRead,
           HandleConnect, RanRegular, SubscribeAssert, Rest
  <1> QED BY <1>1 DEF Moves, Wire, Asked, AsyncTypes

LEMMA NoMoreTypes == ASSUME AsyncTypes, NoMore PROVE AsyncTypes' /\ ("monitoring" \notin flags => Moves)
  <1>1. /\ UNCHANGED <<invalid, subs, cb, obuf, got, server, ran, issued>>
        /\ replies' = replies \/ ("monitoring" \in flags /\ replies' = Append(replies, cb))
    BY DEF NoMore
  <1>2. Append(replies, cb) \in Seq(Nat)
    BY AppendProperties DEF AsyncTypes
  <1> QED BY <1>1, <1>2 DEF Moves, Wire, Asked, AsyncTypes

LEMMA CatIs ==
    ASSUME NEW S, NEW s \in Seq(S), NEW t \in Seq(S)
    PROVE  /\ s \o t \in Seq(S) /\ DOMAIN (s \o t) = 1..Len(s) + Len(t) /\ Len(s \o t) = Len(s) + Len(t)
           /\ Len(s) \in Nat /\ Len(t) \in Nat
           /\ \A i \in 1..Len(s) : (s \o t)[i] = s[i]
           /\ \A i \in 1..Len(t) : (s \o t)[Len(s) + i] = t[i]
  <1>1. Len(s) \in Nat /\ Len(t) \in Nat
    BY LenProperties
  <1>2. s \o t \in Seq(S) /\ Len(s \o t) = Len(s) + Len(t) /\ \A i \in 1..Len(s) + Len(t) : (s \o t)[i] = IF i <= Len(s) THEN s[i] ELSE t[i - Len(s)]
    BY ConcatProperties
  <1>3. DOMAIN (s \o t) = 1..Len(s) + Len(t)
    BY <1>2, LenProperties
  <1>4. ASSUME NEW i \in 1..Len(s) PROVE (s \o t)[i] = s[i]
    BY <1>1, <1>2
  <1>5. ASSUME NEW i \in 1..Len(t) PROVE (s \o t)[Len(s) + i] = t[i]
    <2>1. Len(s) + i \in 1..Len(s) + Len(t) /\ ~ (Len(s) + i <= Len(s)) /\ Len(s) + i - Len(s) = i
      BY <1>1
    <2> QED BY <1>2, <2>1
  <1> QED BY <1>1, <1>2, <1>3, <1>4, <1>5

\* B is A without its first, and A with t at the end.
Taken(A, B) ==
    /\ Len(A) \in Nat \ {0} /\ DOMAIN A = 1..Len(A) /\ DOMAIN B = 1..Len(A) - 1
    /\ \A i \in 1..Len(A) - 1 : B[i] = A[i + 1]
Added(A, B, t) ==
    /\ Len(A) \in Nat /\ DOMAIN A = 1..Len(A) /\ DOMAIN B = 1..Len(A) + 1
    /\ B[Len(A) + 1] = t /\ \A i \in 1..Len(A) : B[i] = A[i]

LEMMA TailTaken ==
    ASSUME NEW S, NEW s \in Seq(S), NEW t \in Seq(S), s # <<>>
    PROVE  Taken(s \o t, Tail(s) \o t) /\ (s \o t)[1] = s[1]
  <1>1. PICK r : r = Tail(s)
    OBVIOUS
  <1>2. PICK n \in Nat, m \in Nat : n = Len(s) /\ m = Len(t)
    BY LenProperties
  <1>3. r \in Seq(S) /\ n # 0 /\ Len(r) = n - 1 /\ n - 1 \in Nat /\ \A i \in 1..n - 1 : r[i] = s[i + 1]
    BY <1>1, <1>2, SeqHead
  <1>4. PICK A, B : A = s \o t /\ B = r \o t
    OBVIOUS
  <1>5. /\ DOMAIN A = 1..n + m /\ Len(A) = n + m
        /\ \A i \in 1..n : A[i] = s[i]
        /\ \A i \in 1..m : A[n + i] = t[i]
    BY <1>2, <1>4, CatIs
  <1>6. /\ DOMAIN B = 1..n - 1 + m
        /\ \A i \in 1..n - 1 : B[i] = r[i]
        /\ \A i \in 1..m : B[n - 1 + i] = t[i]
    <2>1. r \in Seq(S) /\ t \in Seq(S)
      BY <1>3
    <2>2. /\ DOMAIN (r \o t) = 1..Len(r) + Len(t)
          /\ \A i \in 1..Len(r) : (r \o t)[i] = r[i]
          /\ \A i \in 1..Len(t) : (r \o t)[Len(r) + i] = t[i]
      BY ONLY <2>1, CatIs
    <2> QED BY ONLY <1>2, <1>3, <1>4, <2>2
  <1>7. ASSUME NEW i \in 1..n + m - 1 PROVE B[i] = A[i + 1]
    <2>1. CASE i <= n - 1
      <3>1. i \in 1..n - 1 /\ i + 1 \in 1..n
        BY ONLY <2>1, i \in 1..n + m - 1, n \in Nat, m \in Nat
      <3> QED BY ONLY <1>3, <1>5, <1>6, <3>1
    <2>2. CASE ~ (i <= n - 1)
      <3>1. PICK k \in 1..m : i = n - 1 + k
        <4>1. i - (n - 1) \in 1..m /\ n - 1 + (i - (n - 1)) = i
          BY ONLY <2>2, i \in 1..n + m - 1, n \in Nat, m \in Nat
        <4> QED BY ONLY <4>1
      <3>2. i + 1 = n + k
        BY ONLY <3>1, n \in Nat, m \in Nat
      <3>3. B[n - 1 + k] = t[k] /\ A[n + k] = t[k]
        BY ONLY <1>5, <1>6, <3>1
      <3> QED BY ONLY <3>1, <3>2, <3>3
    <2> QED BY <2>1, <2>2
  <1>8. n + m \in Nat \ {0} /\ n - 1 + m = n + m - 1 /\ 1 \in 1..n
    BY <1>3
  <1>9. Taken(A, B)
    BY <1>5, <1>6, <1>7, <1>8 DEF Taken
  <1>10. A[1] = s[1]
    BY <1>5, <1>8
  <1> QED BY <1>1, <1>4, <1>9, <1>10

LEMMA EndAdded ==
    ASSUME NEW S, NEW s \in Seq(S), NEW t \in Seq(S), NEW e \in S
    PROVE  Added(s \o t, s \o Append(t, e), e)
  <1>1. PICK n \in Nat, m \in Nat : n = Len(s) /\ m = Len(t)
    BY LenProperties
  <1>2. PICK u : u = Append(t, e)
    OBVIOUS
  <1>3. u \in Seq(S) /\ Len(u) = m + 1 /\ u[m + 1] = e /\ \A i \in 1..m : u[i] = t[i]
    BY <1>1, <1>2, AppendProperties
  <1>4. PICK A, B : A = s \o t /\ B = s \o u
    OBVIOUS
  <1>5. /\ DOMAIN A = 1..n + m /\ Len(A) = n + m
        /\ \A i \in 1..n : A[i] = s[i]
        /\ \A i \in 1..m : A[n + i] = t[i]
    BY <1>1, <1>4, CatIs
  <1>6. /\ DOMAIN B = 1..n + (m + 1)
        /\ \A i \in 1..n : B[i] = s[i]
        /\ \A i \in 1..m + 1 : B[n + i] = u[i]
    <2>1. s \in Seq(S) /\ u \in Seq(S)
      BY <1>3
    <2>2. /\ DOMAIN (s \o u) = 1..Len(s) + Len(u)
          /\ \A i \in 1..Len(s) : (s \o u)[i] = s[i]
          /\ \A i \in 1..Len(u) : (s \o u)[Len(s) + i] = u[i]
      BY ONLY <2>1, CatIs
    <2> QED BY ONLY <1>1, <1>3, <1>4, <2>2
  <1>7. ASSUME NEW i \in 1..n + m PROVE B[i] = A[i]
    <2>1. CASE i <= n
      BY <1>5, <1>6, <2>1
    <2>2. CASE ~ (i <= n)
      <3>1. PICK k \in 1..m : i = n + k
        <4>1. i - n \in 1..m /\ n + (i - n) = i
          BY ONLY <2>2, i \in 1..n + m, n \in Nat, m \in Nat
        <4> QED BY ONLY <4>1
      <3>2. k \in 1..m + 1
        BY <3>1
      <3> QED BY ONLY <1>3, <1>5, <1>6, <3>1, <3>2
    <2> QED BY <2>1, <2>2
  <1>8. n + m \in Nat /\ n + (m + 1) = n + m + 1 /\ m + 1 \in 1..m + 1
    BY <1>1
  <1>9. B[n + m + 1] = e
    BY ONLY <1>3, <1>6, <1>8
  <1> QED BY <1>2, <1>4, <1>5, <1>6, <1>7, <1>8, <1>9 DEF Added

\* Taking the next reply out of the reader.
LEMMA TakesReply ==
    ASSUME AsyncTypes, got # <<>>, got' = Tail(got), server' = server, obuf' = obuf
    PROVE  /\ Taken(Wire, Wire') /\ Wire[1] = Head(got) /\ Asked' = Asked
           /\ Head(got) \in Tokens /\ got' \in Seq(Tokens)
  <1>1. got \in Seq(Tokens) /\ server.out \in Seq(Tokens)
    BY DEF AsyncTypes, Servers
  <1>2. Head(got) \in Tokens /\ Tail(got) \in Seq(Tokens) /\ Head(got) = got[1]
    BY <1>1, SeqHead
  <1>3. Taken(got \o server.out, Tail(got) \o server.out) /\ (got \o server.out)[1] = got[1]
    BY <1>1, TailTaken
  <1> QED BY <1>1, <1>2, <1>3 DEF Wire, Asked

LEMMA NumberHead ==
    ASSUME NEW s \in Seq(Nat), s # <<>>
    PROVE  Head(s) \in Nat /\ Tail(s) \in Seq(Nat)
  BY SeqHead

LEMMA RegularTypes == ASSUME AsyncTypes, RegularReply PROVE AsyncTypes'
  <1>1. /\ got # <<>> /\ replies # <<>> /\ cb' = Head(replies) /\ replies' = Tail(replies) /\ got' = Tail(got)
        /\ RunCallback(Head(replies), Head(got), "ranregular")
        /\ issued' = IF Head(got).kind = "line" THEN issued ELSE Answered(Head(got).of)
        /\ UNCHANGED <<invalid, subs, obuf, server>>
    BY DEF RegularReply
  <1>2. Head(got) \in Tokens /\ got' \in Seq(Tokens)
    BY <1>1, TakesReply
  <1>3. Head(replies) \in Nat /\ replies' \in Seq(Nat)
    BY <1>1, NumberHead DEF AsyncTypes
  <1>4. ran' \in Seq([id : Nat, reply : Tokens])
    BY <1>1, <1>2, <1>3, CallTypes
  <1>5. issued' \in Issues
    BY <1>1, AnsweredIs DEF AsyncTypes
  <1> QED BY <1>1, <1>2, <1>3, <1>4, <1>5 DEF AsyncTypes

LEMMA SpontaneousTypes == ASSUME AsyncTypes, SpontaneousError PROVE AsyncTypes'
  <1>1. got # <<>> /\ got' = Tail(got) /\ UNCHANGED <<replies, invalid, subs, cb, obuf, server, ran, issued>>
    BY DEF SpontaneousError
  <1>2. got' \in Seq(Tokens)
    BY <1>1, TakesReply
  <1> QED BY <1>1, <1>2 DEF AsyncTypes

\* The subscriptions after the name of one has gone, or been answered.
LEMMA SubsWithout ==
    ASSUME AsyncTypes, NEW n
    PROVE  /\ DOMAIN [m \in DOMAIN subs \ {n} |-> subs[m]] = DOMAIN subs \ {n}
           /\ \A m \in DOMAIN subs \ {n} : [k \in DOMAIN subs \ {n} |-> subs[k]][m] = subs[m]
  OBVIOUS
LEMMA SubsOneLess ==
    ASSUME AsyncTypes, NEW n \in DOMAIN subs, NEW D, D = [subs EXCEPT ![n].pending = @ - 1]
    PROVE  /\ DOMAIN D = DOMAIN subs /\ \A m \in DOMAIN subs \ {n} : D[m] = subs[m]
           /\ D[n] \in [id : Nat, pending : Int] /\ D[n].id = subs[n].id /\ D[n].pending = subs[n].pending - 1
  <1>1. PICK e : e = [subs[n] EXCEPT !.pending = @ - 1]
    OBVIOUS
  <1>2. subs[n] \in [id : Nat, pending : Int]
    BY DEF AsyncTypes
  <1>3. e \in [id : Nat, pending : Int] /\ e.id = subs[n].id /\ e.pending = subs[n].pending - 1
    BY <1>1, <1>2
  <1>4. D = [subs EXCEPT ![n] = e]
    BY <1>1
  <1>5. DOMAIN D = DOMAIN subs /\ D[n] = e /\ \A m \in DOMAIN subs \ {n} : D[m] = subs[m]
    BY <1>4
  <1> QED BY <1>3, <1>5

LEMMA FreeTypes == ASSUME AsyncTypes, FreeReplies \/ FreeInvalid \/ FreeSubs PROVE AsyncTypes'
  <1>0. UNCHANGED <<cb, obuf, got, server, issued>>
    BY DEF FreeReplies, FreeInvalid, FreeSubs
  <1>1. CASE FreeReplies
    <2>1. /\ replies # <<>> /\ RunCallback(Head(replies), NoCallback, "free") /\ replies' = Tail(replies)
          /\ UNCHANGED <<invalid, subs>>
      BY <1>1 DEF FreeReplies
    <2>2. Head(replies) \in Nat /\ replies' \in Seq(Nat)
      BY <2>1, NumberHead DEF AsyncTypes
    <2>3. ran' \in Seq([id : Nat, reply : Tokens])
      BY <2>1, <2>2, CallTypes, NullToken
    <2> QED BY <1>0, <2>1, <2>2, <2>3 DEF AsyncTypes
  <1>2. CASE FreeInvalid
    <2>1. UNCHANGED <<replies, subs>>
      BY <1>2 DEF FreeInvalid
    <2>2. CASE invalid = <<>>
      BY <1>0, <1>2, <2>1, <2>2 DEF FreeInvalid, AsyncTypes
    <2>3. CASE invalid # <<>>
      <3>1. RunCallback(Head(invalid), NoCallback, "freeinvalid") /\ invalid' = Tail(invalid)
        BY <1>2, <2>3 DEF FreeInvalid
      <3>2. Head(invalid) \in Nat /\ invalid' \in Seq(Nat)
        BY <2>3, <3>1, NumberHead DEF AsyncTypes
      <3>3. ran' \in Seq([id : Nat, reply : Tokens])
        BY <3>1, <3>2, CallTypes, NullToken
      <3> QED BY <1>0, <2>1, <3>2, <3>3 DEF AsyncTypes
    <2> QED BY <2>2, <2>3
  <1>3. CASE FreeSubs
    <2>1. PICK n \in DOMAIN subs : /\ RunCallback(subs[n].id, NoCallback, "freesubs")
                                   /\ subs' = [m \in DOMAIN subs \ {n} |-> subs[m]]
      BY <1>3 DEF FreeSubs
    <2>2. UNCHANGED <<replies, invalid>>
      BY <1>3 DEF FreeSubs
    <2>3. subs[n].id \in Nat
      BY DEF AsyncTypes
    <2>4. ran' \in Seq([id : Nat, reply : Tokens])
      BY <2>1, <2>3, CallTypes, NullToken
    <2>5. DOMAIN subs' = DOMAIN subs \ {n} /\ \A m \in DOMAIN subs \ {n} : subs'[m] = subs[m]
      BY <2>1
    <2> QED BY <1>0, <2>2, <2>4, <2>5 DEF AsyncTypes
  <1> QED BY <1>1, <1>2, <1>3

LEMMA FreedTypes == ASSUME AsyncTypes, Freed PROVE AsyncTypes'
  <1>1. /\ server' = [in |-> <<>>, out |-> <<>>, subs |-> {}, monitor |-> FALSE, sent |-> server.sent]
        /\ obuf' = <<>> /\ got' = <<>> /\ UNCHANGED <<replies, invalid, subs, cb, ran, issued>>
    BY DEF Freed
  <1>2. \A S : <<>> \in Seq(S)
    BY EmptySeq
  <1>3. server' \in Servers
    BY <1>1, <1>2 DEF AsyncTypes, Servers
  <1> QED BY <1>1, <1>2, <1>3 DEF AsyncTypes

-----------------------------------------------------------------------------
(* What a reply in subscribed mode does. *)

\* The callback that a reply in subscribed or monitor mode is given to.
SubscribeCallback(reply) ==
    IF "subscribed" \notin flags THEN cb
    ELSE IF reply.kind \in {"reply", "line"} THEN (IF invalid = <<>> THEN cb ELSE Head(invalid))
    ELSE IF reply.name \in DOMAIN subs THEN subs[reply.name].id ELSE cb
Gone(reply) == reply.kind = "unsub" /\ reply.name \in DOMAIN subs /\ Unsubscribed(reply.name)
Ended(reply) == reply.kind = "unsub" /\ reply.name \in DOMAIN subs /\ reply.left = 0
\* What becomes of the subscriptions.
SubsAfter(reply, D) ==
    IF "subscribed" \notin flags THEN D = subs
    ELSE IF reply.kind = "sub" /\ reply.name \in DOMAIN subs THEN D = [subs EXCEPT ![reply.name].pending = @ - 1]
    ELSE IF Gone(reply) THEN D = [n \in DOMAIN subs \ {reply.name} |-> subs[n]] ELSE D = subs

LEMMA SubscribeIs ==
    ASSUME SubscribeReply, NEW t, t = Head(got)
    PROVE  /\ Top = "process" /\ got # <<>> /\ got' = Tail(got) /\ replies = <<>> /\ t.kind # "error"
           /\ flags \cap {"subscribed", "monitoring"} # {}
           /\ cb' = SubscribeCallback(t) /\ SubsAfter(t, subs')
           /\ invalid' = IF "subscribed" \in flags /\ t.kind \in {"reply", "line"} /\ invalid # <<>> THEN Tail(invalid) ELSE invalid
           /\ LET left == IF Ended(t) /\ DOMAIN subs' = {} THEN flags \ {"subscribed"} ELSE flags
              IN  \/ cb' = NoFn /\ Replace("process") /\ flags' = left /\ UNCHANGED ran
                  \/ /\ cb' # NoFn /\ frames' = SubSeq(frames, 1, Len(frames) - 1) \o <<"ranregular", "callback">>
                     /\ flags' = left \cup {"incallback"} /\ ran' = Append(ran, [id |-> cb', reply |-> t])
           /\ issued' = IF t.kind \in {"message", "line"} THEN issued ELSE Answered(t.of)
           /\ UNCHANGED <<acErr, replies, obuf, socket, server, told, careless, aborted>>
  <1>1. /\ Top = "process" /\ got # <<>> /\ got' = Tail(got) /\ replies = <<>> /\ t.kind # "error"
        /\ flags \cap {"subscribed", "monitoring"} # {}
        /\ issued' = IF t.kind \in {"message", "line"} THEN issued ELSE Answered(t.of)
        /\ UNCHANGED <<acErr, replies, obuf, socket, server, told, careless, aborted>>
    BY DEF SubscribeReply
  <1>2. cb' = SubscribeCallback(t)
    BY DEF SubscribeReply, SubscribeCallback
  <1>3. invalid' = IF "subscribed" \in flags /\ t.kind \in {"reply", "line"} /\ invalid # <<>> THEN Tail(invalid) ELSE invalid
    BY DEF SubscribeReply
  <1>4. SubsAfter(t, subs')
    BY DEF SubscribeReply, SubsAfter, Gone
  <1>5. PICK left : left = IF Ended(t) /\ DOMAIN subs' = {} THEN flags \ {"subscribed"} ELSE flags
    OBVIOUS
  <1>6. \/ cb' = NoFn /\ Replace("process") /\ flags' = left /\ UNCHANGED ran
        \/ /\ cb' # NoFn /\ frames' = SubSeq(frames, 1, Len(frames) - 1) \o <<"ranregular", "callback">>
           /\ flags' = left \cup {"incallback"} /\ ran' = Append(ran, [id |-> cb', reply |-> t])
    <2>1. left = IF t.kind = "unsub" /\ t.name \in DOMAIN subs /\ t.left = 0 /\ DOMAIN subs' = {} THEN flags \ {"subscribed"} ELSE flags
      BY <1>5 DEF Ended
    <2> QED BY <1>2, <2>1 DEF SubscribeReply, SubscribeCallback
  <1> QED BY <1>1, <1>2, <1>3, <1>4, <1>5, <1>6

LEMMA SubscribeTypes == ASSUME AsyncTypes, SubscribeReply PROVE AsyncTypes'
  <1>1. PICK t : t = Head(got)
    OBVIOUS
  <1>2. /\ got # <<>> /\ got' = Tail(got) /\ cb' = SubscribeCallback(t) /\ SubsAfter(t, subs')
        /\ invalid' = IF "subscribed" \in flags /\ t.kind \in {"reply", "line"} /\ invalid # <<>> THEN Tail(invalid) ELSE invalid
        /\ ran' = ran \/ ran' = Append(ran, [id |-> cb', reply |-> t])
        /\ issued' = IF t.kind \in {"message", "line"} THEN issued ELSE Answered(t.of)
        /\ UNCHANGED <<replies, obuf, server>>
    BY <1>1, SubscribeIs
  <1>3. t \in Tokens /\ got' \in Seq(Tokens)
    BY <1>1, <1>2, TakesReply
  <1>4. cb' \in Nat
    <2>1. CASE invalid # <<>>
      <3>1. Head(invalid) \in Nat
        BY <2>1, NumberHead DEF AsyncTypes
      <3> QED BY <1>2, <2>1, <3>1 DEF SubscribeCallback, AsyncTypes
    <2>2. CASE invalid = <<>>
      BY <1>2, <2>2 DEF SubscribeCallback, AsyncTypes
    <2> QED BY <2>1, <2>2
  <1>5. invalid' \in Seq(Nat)
    <2>1. CASE invalid # <<>>
      <3>1. Tail(invalid) \in Seq(Nat)
        BY <2>1, NumberHead DEF AsyncTypes
      <3> QED BY <1>2, <2>1, <3>1 DEF AsyncTypes
    <2>2. CASE invalid = <<>>
      BY <1>2, <2>2 DEF AsyncTypes
    <2> QED BY <2>1, <2>2
  <1>6. ran' \in Seq([id : Nat, reply : Tokens])
    <2>1. PICK e : e = [id |-> cb', reply |-> t]
      OBVIOUS
    <2>2. e \in [id : Nat, reply : Tokens] /\ ran \in Seq([id : Nat, reply : Tokens])
      BY <1>3, <1>4, <2>1 DEF AsyncTypes
    <2>3. Append(ran, e) \in Seq([id : Nat, reply : Tokens])
      BY <2>2, AppendProperties
    <2> QED BY <1>2, <2>1, <2>2, <2>3
  <1>7. issued' \in Issues
    BY <1>2, AnsweredIs DEF AsyncTypes
  <1>8. DOMAIN subs' \subseteq Names /\ \A n \in DOMAIN subs' : subs'[n] \in [id : Nat, pending : Int]
    <2>0. DOMAIN subs \subseteq Names /\ \A n \in DOMAIN subs : subs[n] \in [id : Nat, pending : Int]
      BY DEF AsyncTypes
    <2>1. CASE subs' = subs
      BY <2>0, <2>1
    <2>2. CASE t.name \in DOMAIN subs /\ subs' = [subs EXCEPT ![t.name].pending = @ - 1]
      <3>1. PICK D : D = subs'
        OBVIOUS
      <3>2. /\ DOMAIN D = DOMAIN subs /\ \A m \in DOMAIN subs \ {t.name} : D[m] = subs[m]
            /\ D[t.name] \in [id : Nat, pending : Int]
        BY <2>2, <3>1, SubsOneLess
      <3> QED BY <2>0, <2>2, <3>1, <3>2
    <2>3. CASE subs' = [n \in DOMAIN subs \ {t.name} |-> subs[n]]
      BY <2>0, <2>3
    <2> QED BY <1>2, <2>1, <2>2, <2>3 DEF SubsAfter
  <1> QED BY <1>2, <1>3, <1>4, <1>5, <1>6, <1>7, <1>8 DEF AsyncTypes

\* A new command.
LEMMA CommandTypes == ASSUME AsyncTypes, NEW c \in AsyncCommands, AsyncCommand(c) PROVE AsyncTypes'
  <1>1. PICK id : id = Len(issued) + 1
    OBVIOUS
  <1>2. /\ issued' = Append(issued, [kind |-> c.kind, names |-> c.names, open |-> TRUE])
        /\ obuf' = Append(obuf, [kind |-> c.kind, names |-> c.names, id |-> id])
        /\ subs' = subs \/ subs' = AddNames(c.names, id)
        /\ replies' = replies \/ replies' = Append(replies, id)
        /\ invalid' = invalid \/ invalid' = Append(invalid, id)
        /\ UNCHANGED <<cb, got, server, ran>>
    BY <1>1 DEF AsyncCommand
  <1>3. c.kind \in CommandKinds /\ c.names \in Seq(Names)
    BY NamesAre
  <1>4. id \in Nat
    BY <1>1, LenProperties DEF AsyncTypes, Issues
  <1>5. issued' \in Issues
    <2>1. PICK e : e = [kind |-> c.kind, names |-> c.names, open |-> TRUE]
      OBVIOUS
    <2>2. e \in [kind : CommandKinds, names : Seq(Names), open : BOOLEAN]
      BY <1>3, <2>1
    <2>3. issued \in Seq([kind : CommandKinds, names : Seq(Names), open : BOOLEAN])
      BY DEF AsyncTypes, Issues
    <2> QED BY <1>2, <2>1, <2>2, <2>3, AppendProperties DEF Issues
  <1>6. obuf' \in Seq(Asks)
    <2>1. PICK e : e = [kind |-> c.kind, names |-> c.names, id |-> id]
      OBVIOUS
    <2>2. e \in Asks
      BY <1>3, <1>4, <2>1 DEF Asks
    <2> QED BY <1>2, <2>1, <2>2, AppendProperties DEF AsyncTypes
  <1>7. replies' \in Seq(Nat) /\ invalid' \in Seq(Nat)
    <2>1. replies \in Seq(Nat) /\ invalid \in Seq(Nat)
      BY DEF AsyncTypes
    <2>2. Append(replies, id) \in Seq(Nat) /\ Append(invalid, id) \in Seq(Nat)
      BY <1>4, <2>1, AppendProperties
    <2> QED BY <1>2, <2>1, <2>2
  <1>8. DOMAIN subs' \subseteq Names /\ \A n \in DOMAIN subs' : subs'[n] \in [id : Nat, pending : Int]
    <2>1. PICK D : D = AddNames(c.names, id)
      OBVIOUS
    <2>2. /\ DOMAIN D = DOMAIN subs \cup Range(c.names) /\ \A n \in Range(c.names) : D[n] \in [id : Nat, pending : Int]
          /\ \A n \in DOMAIN subs \ Range(c.names) : D[n] = subs[n]
      BY <1>3, <1>4, <2>1, AddNamesIs
    <2>3. Range(c.names) \subseteq Names
      BY <1>3, RangeOfSeq DEF Range
    <2> QED BY <1>2, <2>1, <2>2, <2>3 DEF AsyncTypes
  <1> QED BY <1>2, <1>5, <1>6, <1>7, <1>8 DEF AsyncTypes

\* P is Q with another first.
Led(Q, P) ==
    /\ Len(Q) \in Nat \ {0} /\ DOMAIN Q = 1..Len(Q) /\ DOMAIN P = DOMAIN Q
    /\ \A j \in 1..Len(Q) : j # 1 => P[j] = Q[j]

LEMMA HeadLed ==
    ASSUME NEW S, NEW s \in Seq(S), NEW t \in Seq(S), s # <<>>, NEW e \in S
    PROVE  Led(s \o t, (<<e>> \o Tail(s)) \o t) /\ ((<<e>> \o Tail(s)) \o t)[1] = e /\ <<e>> \o Tail(s) \in Seq(S)
  <1>1. PICK r : r = <<e>> \o Tail(s)
    OBVIOUS
  <1>2. PICK n \in Nat, m \in Nat : n = Len(s) /\ m = Len(t)
    BY LenProperties
  <1>3. Tail(s) \in Seq(S) /\ n # 0 /\ Len(Tail(s)) = n - 1 /\ n - 1 \in Nat /\ \A i \in 1..n - 1 : Tail(s)[i] = s[i + 1]
    BY <1>2, SeqHead
  <1>4. <<e>> \in Seq(S) /\ Len(<<e>>) = 1 /\ <<e>>[1] = e
    OBVIOUS
  <1>5. /\ r \in Seq(S) /\ Len(r) = 1 + (n - 1)
        /\ \A i \in 1..1 : r[i] = <<e>>[i]
        /\ \A i \in 1..n - 1 : r[1 + i] = Tail(s)[i]
    <2>1. PICK a, b : a = <<e>> /\ b = Tail(s)
      OBVIOUS
    <2>2. a \in Seq(S) /\ b \in Seq(S)
      BY <1>3, <1>4, <2>1
    <2>3. /\ a \o b \in Seq(S) /\ Len(a \o b) = Len(a) + Len(b)
          /\ \A i \in 1..Len(a) : (a \o b)[i] = a[i]
          /\ \A i \in 1..Len(b) : (a \o b)[Len(a) + i] = b[i]
      BY ONLY <2>2, CatIs
    <2> QED BY ONLY <1>1, <1>3, <1>4, <2>1, <2>3
  <1>6. Len(r) = n /\ r[1] = e /\ \A i \in 1..n : i # 1 => r[i] = s[i]
    <2>1. Len(r) = n
      BY ONLY <1>3, <1>5, n \in Nat
    <2>2. r[1] = e
      BY ONLY <1>4, <1>5
    <2>3. ASSUME NEW i \in 1..n, i # 1 PROVE r[i] = s[i]
      <3>1. i - 1 \in 1..n - 1 /\ 1 + (i - 1) = i /\ i - 1 + 1 = i
        BY ONLY <2>3, n \in Nat
      <3> QED BY ONLY <1>3, <1>5, <3>1
    <2> QED BY <2>1, <2>2, <2>3
  <1>7. PICK A, B : A = s \o t /\ B = r \o t
    OBVIOUS
  <1>8. /\ DOMAIN A = 1..n + m /\ Len(A) = n + m
        /\ \A i \in 1..n : A[i] = s[i]
        /\ \A i \in 1..m : A[n + i] = t[i]
    BY <1>2, <1>7, CatIs
  <1>9. /\ DOMAIN B = 1..n + m
        /\ \A i \in 1..n : B[i] = r[i]
        /\ \A i \in 1..m : B[n + i] = t[i]
    <2>1. r \in Seq(S) /\ t \in Seq(S)
      BY <1>5
    <2>2. /\ DOMAIN (r \o t) = 1..Len(r) + Len(t)
          /\ \A i \in 1..Len(r) : (r \o t)[i] = r[i]
          /\ \A i \in 1..Len(t) : (r \o t)[Len(r) + i] = t[i]
      BY ONLY <2>1, CatIs
    <2> QED BY ONLY <1>2, <1>6, <1>7, <2>2
  <1>10. ASSUME NEW i \in 1..n + m, i # 1 PROVE B[i] = A[i]
    <2>1. CASE i <= n
      BY <1>6, <1>8, <1>9, <1>10, <2>1
    <2>2. CASE ~ (i <= n)
      <3>1. i - n \in 1..m /\ n + (i - n) = i
        BY ONLY <2>2, i \in 1..n + m, n \in Nat, m \in Nat
      <3> QED BY ONLY <1>8, <1>9, <3>1
    <2> QED BY <2>1, <2>2
  <1>11. n + m \in Nat \ {0} /\ 1 \in 1..n
    BY <1>3
  <1>12. Led(A, B)
    BY ONLY <1>8, <1>9, <1>10, <1>11 DEF Led
  <1>13. B[1] = e
    BY <1>6, <1>9, <1>11
  <1> QED BY <1>1, <1>5, <1>7, <1>12, <1>13

\* The server answers one more of a command, or the whole of it.
ServedOne(c, name) ==
    /\ Asked[1] = c /\ c \in Asks /\ c.names # <<>> /\ name = c.names[1] /\ name \in Names
    /\ IF Len(c.names) = 1 THEN Taken(Asked, Asked')
       ELSE Led(Asked, Asked') /\ Asked'[1] = [kind |-> c.kind, names |-> Tail(c.names), id |-> c.id]
    /\ \E left \in Nat : Added(Wire, Wire', ServerReply(c.kind, c.id, name, left))
    /\ server'.subs = IF c.kind = "sub" THEN server.subs \cup {name} ELSE server.subs \ {name}
    /\ server'.monitor = server.monitor
ServedWhole(c) ==
    /\ Asked[1] = c /\ c \in Asks /\ Taken(Asked, Asked')
    /\ \E kind \in {"reply", "error"} : Added(Wire, Wire', ServerReply(kind, c.id, "", 0))
    /\ server'.subs = server.subs /\ (server'.monitor => server.monitor \/ c.kind = "monitor")

LEMMA ServesIs ==
    ASSUME AsyncTypes, Serves
    PROVE  /\ socket = "open" /\ UNCHANGED <<flags, acErr, replies, invalid, subs, frames, cb, obuf, got, socket, ran, issued, told, careless, aborted>>
           /\ \E c : \/ c.kind \in {"sub", "unsub"} /\ \E name : ServedOne(c, name)
                     \/ c.kind \in {"get", "monitor"} /\ ServedWhole(c)
           /\ AsyncTypes'
  <1>1. /\ socket = "open" /\ server.in # <<>>
        /\ UNCHANGED <<flags, acErr, replies, invalid, subs, frames, cb, obuf, got, socket, ran, issued, told, careless, aborted>>
    BY DEF Serves
  <1>2. /\ server.in \in Seq(Asks) /\ server.out \in Seq(Tokens) /\ server \in Servers /\ got \in Seq(Tokens) /\ obuf \in Seq(Asks)
        /\ server.subs \in SUBSET Names
    BY DEF AsyncTypes, Servers
  <1>3. PICK c : c = Head(server.in)
    OBVIOUS
  <1>4. c \in Asks /\ c = server.in[1] /\ Tail(server.in) \in Seq(Asks)
    BY <1>1, <1>2, <1>3, SeqHead
  <1>5. Taken(server.in \o obuf, Tail(server.in) \o obuf) /\ (server.in \o obuf)[1] = c
    BY <1>1, <1>2, <1>4, TailTaken
  <1>6. CASE c.kind \in {"sub", "unsub"}
    <2>1. PICK name : name = Head(c.names)
      OBVIOUS
    <2>2. PICK after : after = IF c.kind = "sub" THEN server.subs \cup {name} ELSE server.subs \ {name}
      OBVIOUS
    <2>3. PICK t : t = ServerReply(c.kind, c.id, name, Cardinality(after))
      OBVIOUS
    <2>4. PICK rest : rest = IF Len(c.names) = 1 THEN Tail(server.in) ELSE <<[c EXCEPT !.names = Tail(@)]>> \o Tail(server.in)
      OBVIOUS
    <2>5. c.names # <<>> /\ server' = [server EXCEPT !.subs = after, !.in = rest, !.out = Append(@, t)]
      BY <1>3, <1>6, <2>1, <2>2, <2>3, <2>4 DEF Serves
    <2>6. c.names \in Seq(Names) /\ c.id \in Nat
      BY <1>4 DEF Asks
    <2>7. name \in Names /\ name = c.names[1] /\ Tail(c.names) \in Seq(Names)
      BY <2>1, <2>5, <2>6, SeqHead
    <2>8. after \in SUBSET Names
      BY <1>2, <2>2, <2>7
    <2>9. Cardinality(after) \in Nat
      BY <2>8, SubsLeft
    <2>10. t \in Tokens
      BY <1>6, <2>3, <2>6, <2>7, <2>9, TokenIs
    <2>11. Append(server.out, t) \in Seq(Tokens)
      BY <1>2, <2>10, AppendProperties
    <2>12. PICK e : e = [c EXCEPT !.names = Tail(@)]
      OBVIOUS
    <2>13. e \in Asks /\ e = [kind |-> c.kind, names |-> Tail(c.names), id |-> c.id]
      BY <1>4, <2>7, <2>12 DEF Asks
    <2>14. /\ rest \in Seq(Asks)
           /\ IF Len(c.names) = 1 THEN Taken(Asked, rest \o obuf) ELSE Led(Asked, rest \o obuf) /\ (rest \o obuf)[1] = e
      <3>1. CASE Len(c.names) = 1
        BY <1>4, <1>5, <2>4, <3>1 DEF Asked
      <3>2. CASE Len(c.names) # 1
        <4>1. PICK in : in = server.in
          OBVIOUS
        <4>2. in \in Seq(Asks) /\ obuf \in Seq(Asks) /\ in # <<>> /\ e \in Asks
          BY <1>1, <1>2, <2>13, <4>1
        <4>3. Led(in \o obuf, (<<e>> \o Tail(in)) \o obuf) /\ ((<<e>> \o Tail(in)) \o obuf)[1] = e /\ <<e>> \o Tail(in) \in Seq(Asks)
          BY ONLY <4>2, HeadLed
        <4> QED BY <2>4, <2>12, <3>2, <4>1, <4>3 DEF Asked
      <3> QED BY <3>1, <3>2
    <2>15. /\ server' \in Servers /\ server'.in = rest /\ server'.out = Append(server.out, t) /\ server'.subs = after
           /\ server'.monitor = server.monitor
      BY <1>2, <2>5, <2>8, <2>11, <2>14 DEF Servers
    <2>16. AsyncTypes'
      BY <1>1, <2>15 DEF AsyncTypes
    <2>17. Asked' = rest \o obuf
      BY <1>1, <2>15 DEF Asked
    <2>18. Added(Wire, Wire', t)
      <3>1. Added(got \o server.out, got \o Append(server.out, t), t)
        BY <1>2, <2>10, EndAdded
      <3> QED BY <1>1, <2>15, <3>1 DEF Wire
    <2>19. ServedOne(c, name)
      BY <1>4, <1>5, <2>2, <2>3, <2>5, <2>7, <2>9, <2>13, <2>14, <2>15, <2>17, <2>18 DEF ServedOne, Asked
    <2> QED BY <1>1, <1>6, <2>16, <2>19
  <1>7. CASE c.kind \notin {"sub", "unsub"}
    <2>1. PICK kind \in {"reply", "error"}, monitor \in BOOLEAN :
              /\ server' = [server EXCEPT !.in = Tail(@), !.monitor = monitor, !.out = Append(@, ServerReply(kind, c.id, "", 0))]
              /\ monitor => server.monitor \/ c.kind = "monitor"
      <3>1. CASE c.kind = "get"
        <4>1. server.monitor \in BOOLEAN /\ server = [server EXCEPT !.monitor = server.monitor]
          BY <1>2 DEF Servers
        <4>2. PICK kind \in {"reply", "error"} :
                  server' = [server EXCEPT !.in = Tail(@), !.out = Append(@, ServerReply(kind, c.id, "", 0))]
          BY <1>3, <3>1 DEF Serves
        <4>3. [server EXCEPT !.in = Tail(@), !.out = Append(@, ServerReply(kind, c.id, "", 0))]
              = [server EXCEPT !.in = Tail(@), !.monitor = server.monitor, !.out = Append(@, ServerReply(kind, c.id, "", 0))]
          BY <1>2 DEF Servers
        <4> QED BY <4>1, <4>2, <4>3
      <3>2. CASE c.kind = "monitor"
        BY <1>3, <3>2 DEF Serves
      <3> QED BY <1>3, <1>7, <3>1, <3>2 DEF Serves
    <2>2. c.kind \in {"get", "monitor"} /\ c.id \in Nat
      BY <1>4, <1>7 DEF Asks, CommandKinds
    <2>3. PICK t : t = ServerReply(kind, c.id, "", 0)
      OBVIOUS
    <2>4. t \in Tokens
      BY <2>2, <2>3, TokenIs
    <2>5. Append(server.out, t) \in Seq(Tokens)
      BY <1>2, <2>4, AppendProperties
    <2>6. /\ server' \in Servers /\ server'.in = Tail(server.in) /\ server'.out = Append(server.out, t)
          /\ server'.subs = server.subs /\ server'.monitor = monitor
      BY <1>2, <1>4, <2>1, <2>3, <2>5 DEF Servers
    <2>7. AsyncTypes'
      BY <1>1, <2>6 DEF AsyncTypes
    <2>8. Taken(Asked, Asked') /\ Asked[1] = c
      BY <1>1, <1>5, <2>6 DEF Asked
    <2>9. Added(Wire, Wire', t)
      <3>1. Added(got \o server.out, got \o Append(server.out, t), t)
        BY <1>2, <2>4, EndAdded
      <3> QED BY <1>1, <2>6, <3>1 DEF Wire
    <2>10. ServedWhole(c)
      BY <1>4, <2>1, <2>3, <2>6, <2>8, <2>9 DEF ServedWhole
    <2> QED BY <1>1, <2>2, <2>7, <2>10
  <1> QED BY <1>6, <1>7

\* The server sends what nobody has asked for.
LEMMA PublishesIs ==
    ASSUME AsyncTypes, Publishes
    PROVE  /\ socket = "open" /\ UNCHANGED <<flags, acErr, replies, invalid, subs, frames, cb, obuf, got, socket, ran, issued, told, careless, aborted>>
           /\ \/ \E name \in server.subs : Added(Wire, Wire', ServerReply("message", 0, name, 0))
              \/ server.monitor /\ Added(Wire, Wire', ServerReply("line", 0, "", 0))
           /\ Asked' = Asked /\ server'.subs = server.subs /\ server'.monitor = server.monitor
           /\ AsyncTypes'
  <1>1. /\ socket = "open"
        /\ UNCHANGED <<flags, acErr, replies, invalid, subs, frames, cb, obuf, got, socket, ran, issued, told, careless, aborted>>
    BY DEF Publishes
  <1>2. /\ server.out \in Seq(Tokens) /\ server \in Servers /\ got \in Seq(Tokens) /\ server.subs \in SUBSET Names /\ server.sent \in Nat
    BY DEF AsyncTypes, Servers
  <1>3. ASSUME NEW t \in Tokens, server' = [server EXCEPT !.sent = @ + 1, !.out = Append(@, t)]
        PROVE  /\ Added(Wire, Wire', t) /\ Asked' = Asked /\ server'.subs = server.subs /\ server'.monitor = server.monitor
               /\ AsyncTypes'
    <2>1. Append(server.out, t) \in Seq(Tokens)
      BY <1>2, AppendProperties
    <2>2. /\ server' \in Servers /\ server'.in = server.in /\ server'.out = Append(server.out, t) /\ server'.subs = server.subs
          /\ server'.monitor = server.monitor
      <3>0. PICK out : out = Append(server.out, t)
        OBVIOUS
      <3>1. PICK sent \in Nat : sent = server.sent + 1
        BY <1>2
      <3>2. server' = [server EXCEPT !.sent = sent, !.out = out] /\ out \in Seq(Tokens)
        BY <1>3, <2>1, <3>0, <3>1
      <3> QED BY ONLY <1>2, <3>0, <3>1, <3>2 DEF Servers
    <2>3. Added(got \o server.out, got \o Append(server.out, t), t)
      BY <1>2, EndAdded
    <2> QED BY <1>1, <2>2, <2>3 DEF Wire, Asked, AsyncTypes
  <1>4. CASE \E name \in server.subs :
                 server' = [server EXCEPT !.sent = @ + 1, !.out = Append(@, ServerReply("message", 0, name, 0))]
    <2>1. PICK name \in server.subs :
                 server' = [server EXCEPT !.sent = @ + 1, !.out = Append(@, ServerReply("message", 0, name, 0))]
      BY <1>4
    <2>2. PICK t : t = ServerReply("message", 0, name, 0)
      OBVIOUS
    <2>3. t \in Tokens
      BY <1>2, <2>2, TokenIs
    <2>4. server' = [server EXCEPT !.sent = @ + 1, !.out = Append(@, t)]
      BY <2>1, <2>2
    <2>5. Added(Wire, Wire', t) /\ Asked' = Asked /\ server'.subs = server.subs /\ server'.monitor = server.monitor /\ AsyncTypes'
      BY <1>3, <2>3, <2>4
    <2> QED BY <1>1, <2>2, <2>5
  <1>5. CASE server.monitor /\ server' = [server EXCEPT !.sent = @ + 1, !.out = Append(@, ServerReply("line", 0, "", 0))]
    <2>2. PICK t : t = ServerReply("line", 0, "", 0)
      OBVIOUS
    <2>3. t \in Tokens
      BY <2>2, TokenIs
    <2>5. Added(Wire, Wire', t) /\ Asked' = Asked /\ server'.subs = server.subs /\ server'.monitor = server.monitor /\ AsyncTypes'
      BY <1>3, <1>5, <2>2, <2>3
    <2> QED BY <1>1, <1>5, <2>2, <2>5
  <1> QED BY <1>4, <1>5 DEF Publishes

LEMMA ClosesIs ==
    ASSUME AsyncTypes, Closes
    PROVE  /\ socket = "open" /\ socket' = "closed"
           /\ UNCHANGED <<flags, acErr, replies, invalid, subs, frames, cb, obuf, got, ran, issued, told, careless, aborted>>
           /\ \/ Wire' = Wire
              \/ Added(Wire, Wire', ServerReply("error", 0, "", 0))
           /\ Asked' = Asked /\ server'.subs = server.subs /\ server'.monitor = server.monitor
           /\ AsyncTypes'
  <1>1. /\ socket = "open" /\ socket' = "closed"
        /\ UNCHANGED <<flags, acErr, replies, invalid, subs, frames, cb, obuf, got, ran, issued, told, careless, aborted>>
    BY DEF Closes
  <1>2. /\ server.out \in Seq(Tokens) /\ server \in Servers /\ got \in Seq(Tokens)
    BY DEF AsyncTypes, Servers
  <1>3. CASE UNCHANGED server
    BY <1>1, <1>3 DEF Wire, Asked, AsyncTypes
  <1>4. CASE server' = [server EXCEPT !.out = Append(@, ServerReply("error", 0, "", 0))]
    <2>1. PICK t : t = ServerReply("error", 0, "", 0)
      OBVIOUS
    <2>2. t \in Tokens
      BY <2>1, TokenIs
    <2>3. Append(server.out, t) \in Seq(Tokens)
      BY <1>2, <2>2, AppendProperties
    <2>4. /\ server' \in Servers /\ server'.in = server.in /\ server'.out = Append(server.out, t) /\ server'.subs = server.subs
          /\ server'.monitor = server.monitor
      BY <1>2, <1>4, <2>1, <2>3 DEF Servers
    <2>5. Added(got \o server.out, got \o Append(server.out, t), t)
      BY <1>2, <2>2, EndAdded
    <2>6. Added(Wire, Wire', t) /\ Asked' = Asked /\ AsyncTypes'
      BY <1>1, <2>4, <2>5 DEF Wire, Asked, AsyncTypes
    <2> QED BY <1>1, <2>1, <2>4, <2>6
  <1> QED BY <1>3, <1>4 DEF Closes

\* All steps keep the types.
LEMMA TypesStep == AsyncTypes /\ [AsyncNext]_acVars => AsyncTypes'
  <1> SUFFICES ASSUME AsyncTypes, [AsyncNext]_acVars PROVE AsyncTypes'
    OBVIOUS
  <1>1. CASE \E c \in AsyncCommands : AsyncCommand(c)
    BY <1>1, CommandTypes
  <1>2. CASE AsyncFree \/ AsyncDisconnect \/ DisconnectNow \/ CallbackReturns \/ FreeRepliesDone \/ ConnectFailed
               \/ HandleWrite \/ HandleRead \/ RanRegular \/ SubscribeAssert
    BY <1>2, FrameMoves
  <1>3. CASE FreeReplies \/ FreeInvalid \/ FreeSubs
    BY <1>3, FreeTypes
  <1>4. CASE Freed
    BY <1>4, FreedTypes
  <1>5. CASE BufferWrite
    BY <1>5, WriteMoves
  <1>6. CASE BufferRead
    BY <1>6, ReadMoves
  <1>7. CASE NoMore
    BY <1>7, NoMoreTypes
  <1>8. CASE RegularReply
    BY <1>8, RegularTypes
  <1>9. CASE SpontaneousError
    BY <1>9, SpontaneousTypes
  <1>10. CASE SubscribeReply
    BY <1>10, SubscribeTypes
  <1>11. CASE Serves
    BY <1>11, ServesIs
  <1>12. CASE Publishes
    BY <1>12, PublishesIs
  <1>13. CASE Closes
    BY <1>13, ClosesIs
  <1>14. CASE UNCHANGED acVars
    BY <1>14 DEF acVars, AsyncTypes
  <1> QED BY <1>1, <1>2, <1>3, <1>4, <1>5, <1>6, <1>7, <1>8, <1>9, <1>10, <1>11, <1>12, <1>13, <1>14 DEF AsyncNext, Library

-----------------------------------------------------------------------------
(* Who the numbers belong to. *)

\* Who the numbers belong to, for all callers.
Ids == DOMAIN issued
Kind(id) == issued[id].kind
Numbered ==
    /\ \A r \in Range(replies) \cup Range(invalid) \cup {cb} : r = 0 \/ r \in Ids
    /\ \A i \in DOMAIN ran : ran[i].id \in Ids
    /\ \A n \in DOMAIN subs : subs[n].id \in Ids /\ Kind(subs[n].id) = "sub"
AskedKinds == \A j \in DOMAIN Asked : Asked[j].id \in Ids /\ Asked[j].kind = Kind(Asked[j].id)
HeardKinds ==
    /\ server.subs # {} => \E id \in Ids : Kind(id) = "sub"
    /\ server.monitor => \E id \in Ids : Kind(id) = "monitor"
Modes ==
    /\ "monitoring" \in flags => \A id \in Ids : Kind(id) = "monitor"
    /\ "monitoring" \notin flags => \A id \in Ids : Kind(id) # "monitor"
KindsInv == Numbered /\ AskedKinds /\ HeardKinds /\ Modes

OtherStep == AsyncFree \/ AsyncDisconnect \/ Library \/ Serves \/ Publishes \/ Closes \/ UNCHANGED acVars
SameKinds == DOMAIN issued' = DOMAIN issued /\ \A id \in DOMAIN issued : issued'[id].kind = issued[id].kind

LEMMA RangeParts ==
    ASSUME NEW S, NEW s \in Seq(S)
    PROVE  /\ s # <<>> => Head(s) \in Range(s) /\ Range(Tail(s)) \subseteq Range(s)
           /\ \A e \in S : Range(Append(s, e)) = Range(s) \cup {e}
           /\ Range(s) \subseteq S
  <1>1. PICK n \in Nat : n = Len(s)
    BY LenProperties
  <1>2. DOMAIN s = 1..n /\ \A i \in 1..n : s[i] \in S
    BY <1>1, LenProperties, ElementOfSeq
  <1>3. ASSUME s # <<>> PROVE Head(s) \in Range(s) /\ Range(Tail(s)) \subseteq Range(s)
    <2>1. PICK r : r = Tail(s)
      OBVIOUS
    <2>2. Head(s) = s[1] /\ n # 0 /\ r \in Seq(S) /\ Len(r) = n - 1 /\ \A i \in 1..n - 1 : r[i] = s[i + 1]
      BY <1>1, <1>3, <2>1, SeqHead
    <2>3. DOMAIN r = 1..n - 1
      BY <2>2, LenProperties
    <2>4. Head(s) \in Range(s)
      BY <1>2, <2>2 DEF Range
    <2>5. \A i \in 1..n - 1 : i + 1 \in 1..n
      BY <1>1
    <2>6. Range(r) \subseteq Range(s)
      BY <1>2, <2>2, <2>3, <2>5 DEF Range
    <2> QED BY <2>1, <2>4, <2>6
  <1>4. ASSUME NEW e \in S PROVE Range(Append(s, e)) = Range(s) \cup {e}
    <2>1. PICK r : r = Append(s, e)
      OBVIOUS
    <2>2. r \in Seq(S) /\ Len(r) = n + 1 /\ r[n + 1] = e /\ \A i \in 1..n : r[i] = s[i]
      BY <1>1, <2>1, AppendProperties
    <2>3. DOMAIN r = 1..n + 1
      BY <2>2, LenProperties
    <2>4. \A i \in 1..n + 1 : i \in 1..n \/ i = n + 1
      BY <1>1
    <2>5. n + 1 \in 1..n + 1 /\ \A i \in 1..n : i \in 1..n + 1
      BY <1>1
    <2>6. Range(r) = Range(s) \cup {e}
      BY <1>2, <2>2, <2>3, <2>4, <2>5 DEF Range
    <2> QED BY <2>1, <2>6
  <1>5. Range(s) \subseteq S
    BY <1>2 DEF Range
  <1> QED BY <1>3, <1>4, <1>5

LEMMA OtherKinds == ASSUME AsyncTypes, OtherStep PROVE SameKinds
  <1>1. CASE RegularReply \/ SubscribeReply
    <2>1. issued' = issued \/ issued' = Answered(Head(got).of)
      BY <1>1 DEF RegularReply, SubscribeReply
    <2>2. PICK id : id = Head(got).of
      OBVIOUS
    <2>3. DOMAIN Answered(id) = DOMAIN issued /\ \A i \in DOMAIN issued : Answered(id)[i].kind = issued[i].kind
      BY AnsweredIs
    <2> QED BY <2>1, <2>2, <2>3 DEF SameKinds
  <1>2. CASE ~ (RegularReply \/ SubscribeReply)
    <2>1. issued' = issued
      BY <1>2 DEF OtherStep, Library, AsyncFree, AsyncDisconnect, DisconnectNow, CallbackReturns, FreeReplies, FreeRepliesDone,
         FreeInvalid, FreeSubs, Freed, ConnectFailed, HandleWrite, BufferWrite, HandleRead, BufferRead, HandleConnect, NoMore,
         RanRegular, SpontaneousError, SubscribeAssert, Serves, Publishes, Closes, Rest, acVars
    <2> QED BY <2>1 DEF SameKinds
  <1> QED BY <1>1, <1>2

\* Only the command itself begins to monitor.
SameMode == "monitoring" \in flags' <=> "monitoring" \in flags
LEMMA CallMode == ASSUME NEW id, NEW reply, NEW y, RunCallback(id, reply, y) PROVE SameMode
  BY DEF RunCallback, SameMode
LEMMA OtherMode == ASSUME OtherStep PROVE SameMode
  <1>1. CASE FreeReplies \/ FreeInvalid \/ FreeSubs \/ RegularReply
    <2>1. (\E id, reply, y : RunCallback(id, reply, y)) \/ flags' = flags
      BY <1>1 DEF FreeReplies, FreeInvalid, FreeSubs, RegularReply
    <2> QED BY <2>1, CallMode DEF SameMode
  <1>2. CASE SubscribeReply
    <2>1. PICK t : t = Head(got)
      OBVIOUS
    <2>2. PICK left : /\ left = flags \/ left = flags \ {"subscribed"}
                      /\ flags' = left \/ flags' = left \cup {"incallback"}
      BY <1>2, <2>1, SubscribeIs
    <2> QED BY <2>2 DEF SameMode
  <1>3. CASE AsyncFree \/ AsyncDisconnect \/ CallbackReturns \/ FreeRepliesDone \/ Freed \/ RanRegular \/ SubscribeAssert
    BY <1>3 DEF AsyncFree, AsyncDisconnect, CallbackReturns, FreeRepliesDone, Freed, RanRegular, SubscribeAssert, SameMode
  <1>4. CASE DisconnectNow \/ ConnectFailed \/ SpontaneousError \/ NoMore
    BY <1>4 DEF DisconnectNow, ConnectFailed, SpontaneousError, NoMore, Disconnect, SameMode
  <1>5. CASE HandleWrite \/ HandleRead \/ BufferWrite \/ BufferRead
    BY <1>5 DEF HandleWrite, HandleRead, HandleConnect, BufferWrite, BufferRead, Disconnect, SameMode
  <1>6. CASE Serves \/ Publishes \/ Closes \/ UNCHANGED acVars
    BY <1>6 DEF Serves, Publishes, Closes, acVars, SameMode
  <1> QED BY <1>1, <1>2, <1>3, <1>4, <1>5, <1>6 DEF OtherStep, Library

\* What was asked is asked on, or answered, from the front.
AskedOn ==
    /\ \/ Asked' = Asked \/ Taken(Asked, Asked') \/ Asked' = <<>>
       \/ Led(Asked, Asked') /\ Asked'[1].id = Asked[1].id /\ Asked'[1].kind = Asked[1].kind
    /\ server'.subs # {} => server.subs # {} \/ (1 \in DOMAIN Asked /\ Asked[1].kind = "sub")
    /\ server'.monitor => server.monitor \/ (1 \in DOMAIN Asked /\ Asked[1].kind = "monitor")
LEMMA OtherAsked == ASSUME AsyncTypes, OtherStep PROVE AskedOn
  <1>1. CASE Serves
    <2>1. PICK c : \/ c.kind \in {"sub", "unsub"} /\ \E name : ServedOne(c, name)
                   \/ c.kind \in {"get", "monitor"} /\ ServedWhole(c)
      BY <1>1, ServesIs
    <2>2. CASE c.kind \in {"sub", "unsub"}
      <3>1. PICK name : ServedOne(c, name)
        BY <2>1, <2>2
      <3>2. Asked[1] = c /\ server'.monitor = server.monitor
            /\ server'.subs = IF c.kind = "sub" THEN server.subs \cup {name} ELSE server.subs \ {name}
        BY <3>1 DEF ServedOne
      <3>3. \/ Taken(Asked, Asked')
            \/ Led(Asked, Asked') /\ Asked'[1] = [kind |-> c.kind, names |-> Tail(c.names), id |-> c.id]
        BY <3>1 DEF ServedOne
      <3>4. 1 \in DOMAIN Asked
        BY <3>3 DEF Taken, Led
      <3> QED BY <3>2, <3>3, <3>4 DEF AskedOn
    <2>3. CASE c.kind \in {"get", "monitor"}
      <3>1. Asked[1] = c /\ Taken(Asked, Asked') /\ server'.subs = server.subs /\ (server'.monitor => server.monitor \/ c.kind = "monitor")
        BY <2>1, <2>3 DEF ServedWhole
      <3>2. 1 \in DOMAIN Asked
        BY <3>1 DEF Taken
      <3> QED BY <3>1, <3>2 DEF AskedOn
    <2> QED BY <2>1, <2>2, <2>3
  <1>2. CASE Publishes \/ Closes
    <2>1. Asked' = Asked /\ server'.subs = server.subs /\ server'.monitor = server.monitor
      BY <1>2, PublishesIs, ClosesIs
    <2> QED BY <2>1 DEF AskedOn
  <1>3. CASE BufferWrite \/ BufferRead
    <2>1. Moves
      BY <1>3, ReadMoves, WriteMoves
    <2> QED BY <2>1 DEF Moves, AskedOn
  <1>4. CASE Freed
    <2>1. /\ server' = [in |-> <<>>, out |-> <<>>, subs |-> {}, monitor |-> FALSE, sent |-> server.sent]
          /\ obuf' = <<>>
      BY <1>4 DEF Freed
    <2>2. Asked' = <<>> \o <<>>
      BY <2>1 DEF Asked
    <2> QED BY <2>1, <2>2 DEF AskedOn
  <1>5. CASE ~ (Serves \/ Publishes \/ Closes \/ BufferWrite \/ BufferRead \/ Freed)
    <2>1. server' = server /\ obuf' = obuf
      BY <1>5 DEF OtherStep, Library, AsyncFree, AsyncDisconnect, DisconnectNow, CallbackReturns, FreeReplies, FreeRepliesDone,
         FreeInvalid, FreeSubs, ConnectFailed, HandleWrite, HandleRead, HandleConnect, NoMore,
         RegularReply, RanRegular, SpontaneousError, SubscribeReply, SubscribeAssert, Rest, acVars
    <2> QED BY <2>1 DEF AskedOn, Asked
  <1> QED BY <1>1, <1>2, <1>3, <1>4, <1>5

LEMMA OtherKeepsKinds ==
    ASSUME AsyncTypes, KindsInv, OtherStep
    PROVE  AskedKinds' /\ HeardKinds' /\ Modes'
  <1>1. SameKinds /\ SameMode /\ AskedOn
    BY OtherKinds, OtherMode, OtherAsked
  <1>2. \A j \in DOMAIN Asked' : \E i \in DOMAIN Asked : Asked'[j].id = Asked[i].id /\ Asked'[j].kind = Asked[i].kind
    <2>1. PICK Q, P : Q = Asked /\ P = Asked'
      OBVIOUS
    <2>2. CASE Taken(Q, P)
      <3>1. \A j \in 1..Len(Q) - 1 : j + 1 \in 1..Len(Q)
        BY <2>2 DEF Taken
      <3> QED BY <2>1, <2>2, <3>1 DEF Taken
    <2>3. CASE Led(Q, P) /\ P[1].id = Q[1].id /\ P[1].kind = Q[1].kind
      BY <2>1, <2>3 DEF Led
    <2>4. CASE P = Q
      BY <2>1, <2>4
    <2>5. CASE P = <<>>
      BY <2>1, <2>5
    <2> QED BY <1>1, <2>1, <2>2, <2>3, <2>4, <2>5 DEF AskedOn
  <1>3. AskedKinds'
    BY <1>1, <1>2 DEF AskedKinds, KindsInv, SameKinds, Ids, Kind
  <1>4. HeardKinds'
    <2>1. server'.subs # {} => \E id \in Ids : Kind(id) = "sub"
      BY <1>1 DEF KindsInv, AskedKinds, HeardKinds, AskedOn
    <2>2. server'.monitor => \E id \in Ids : Kind(id) = "monitor"
      BY <1>1 DEF KindsInv, AskedKinds, HeardKinds, AskedOn
    <2> QED BY <1>1, <2>1, <2>2 DEF HeardKinds, SameKinds, Ids, Kind
  <1>5. Modes'
    BY <1>1 DEF KindsInv, Modes, SameKinds, SameMode, Ids, Kind
  <1> QED BY <1>3, <1>4, <1>5

\* A callback is called, or there is none to call.
Called(id, t) == \/ id = 0 /\ ran' = ran
                 \/ id # 0 /\ ran' = Append(ran, [id |-> id, reply |-> t])
LEMMA CallIs == ASSUME NEW id, NEW reply, NEW y, RunCallback(id, reply, y) PROVE Called(id, reply)
  BY DEF RunCallback, Called, NoFn

LEMMA RanIs ==
    ASSUME AsyncTypes, NEW id \in Nat, NEW t \in Tokens, Called(id, t)
    PROVE  /\ DOMAIN ran = 1..Len(ran) /\ Len(ran) \in Nat
           /\ id = 0 => ran' = ran
           /\ id # 0 => /\ DOMAIN ran' = 1..Len(ran) + 1 /\ \A i \in 1..Len(ran) : ran'[i] = ran[i]
                        /\ ran'[Len(ran) + 1].id = id /\ ran'[Len(ran) + 1].reply = t
  <1>1. PICK e : e = [id |-> id, reply |-> t]
    OBVIOUS
  <1>2. e \in [id : Nat, reply : Tokens] /\ e.id = id /\ e.reply = t
    BY <1>1
  <1>3. ran \in Seq([id : Nat, reply : Tokens])
    BY DEF AsyncTypes
  <1>0. PICK n \in Nat : n = Len(ran)
    BY <1>3, LenProperties
  <1>4. PICK r : r = Append(ran, e)
    OBVIOUS
  <1>5. r \in Seq([id : Nat, reply : Tokens]) /\ Len(r) = n + 1 /\ r[n + 1] = e /\ \A i \in 1..n : r[i] = ran[i]
    BY <1>0, <1>2, <1>3, <1>4, AppendProperties
  <1>6. DOMAIN ran = 1..n /\ DOMAIN r = 1..n + 1
    BY <1>0, <1>3, <1>4, <1>5, LenProperties
  <1>7. id # 0 => ran' = r
    BY <1>1, <1>4 DEF Called
  <1> QED BY <1>0, <1>2, <1>4, <1>5, <1>6, <1>7 DEF Called

\* The number of a callback called belongs to a command.
LEMMA RanNumbered ==
    ASSUME AsyncTypes, KindsInv, NEW id \in Nat, NEW t \in Tokens, Called(id, t), id = 0 \/ id \in Ids
    PROVE  \A i \in DOMAIN ran' : ran'[i].id \in Ids
  <1>1. PICK n \in Nat : n = Len(ran)
    BY LenProperties DEF AsyncTypes
  <1>2. \A i \in DOMAIN ran : ran[i].id \in Ids
    BY DEF KindsInv, Numbered
  <1>3. CASE id = 0
    BY <1>2, <1>3, RanIs
  <1>4. CASE id # 0
    <2>1. /\ DOMAIN ran = 1..n /\ DOMAIN ran' = 1..n + 1 /\ \A i \in 1..n : ran'[i] = ran[i]
          /\ ran'[n + 1].id = id
      BY <1>1, <1>4, RanIs
    <2>2. \A i \in 1..n + 1 : i \in 1..n \/ i = n + 1
      BY <1>1
    <2> QED BY <1>2, <1>4, <2>1, <2>2
  <1> QED BY <1>3, <1>4

\* The replies that wait, and the callback last run, are numbers of commands.
Known(S) == \A r \in S : r = 0 \/ r \in Ids
Subbed(D) == \A n \in DOMAIN D : D[n].id \in Ids /\ Kind(D[n].id) = "sub"

LEMMA NumberedParts ==
    ASSUME AsyncTypes, KindsInv
    PROVE  /\ Known(Range(replies)) /\ Known(Range(invalid)) /\ Known({cb}) /\ Subbed(subs)
           /\ replies # <<>> => /\ Head(replies) \in Nat /\ Known({Head(replies)}) /\ Known(Range(Tail(replies)))
           /\ invalid # <<>> => /\ Head(invalid) \in Nat /\ Known({Head(invalid)}) /\ Known(Range(Tail(invalid)))
           /\ Known(Range(Append(replies, cb)))
           /\ \A i \in DOMAIN ran : ran[i].id \in Ids
  <1>1. /\ Known(Range(replies)) /\ Known(Range(invalid)) /\ Known({cb}) /\ Subbed(subs)
        /\ \A i \in DOMAIN ran : ran[i].id \in Ids
    BY DEF KindsInv, Numbered, Known, Subbed
  <1>2. replies \in Seq(Nat) /\ invalid \in Seq(Nat) /\ cb \in Nat
    BY DEF AsyncTypes
  <1>3. /\ replies # <<>> => /\ Head(replies) \in Nat /\ Head(replies) \in Range(replies) /\ Range(Tail(replies)) \subseteq Range(replies)
        /\ invalid # <<>> => /\ Head(invalid) \in Nat /\ Head(invalid) \in Range(invalid) /\ Range(Tail(invalid)) \subseteq Range(invalid)
    BY <1>2, RangeParts, NumberHead
  <1>4. Range(Append(replies, cb)) = Range(replies) \cup {cb}
    BY <1>2, RangeParts
  <1> QED BY <1>1, <1>3, <1>4 DEF Known

LEMMA NumberedLater ==
    ASSUME SameKinds, Known(Range(replies')), Known(Range(invalid')), Known({cb'}), Subbed(subs'),
           \A i \in DOMAIN ran' : ran'[i].id \in Ids
    PROVE  Numbered'
  BY DEF SameKinds, Known, Subbed, Numbered, Ids, Kind

LEMMA FreeNumbered == ASSUME AsyncTypes, KindsInv, FreeReplies \/ FreeInvalid \/ FreeSubs PROVE Numbered'
  <1>0. SameKinds /\ cb' = cb
    BY OtherKinds DEF OtherStep, Library, FreeReplies, FreeInvalid, FreeSubs
  <1>1. CASE FreeReplies
    <2>1. PICK id : id = Head(replies)
      OBVIOUS
    <2>2. Called(id, NoCallback) /\ replies # <<>> /\ replies' = Tail(replies) /\ UNCHANGED <<invalid, subs>>
      BY <1>1, <2>1, CallIs DEF FreeReplies
    <2>3. id \in Nat /\ (id = 0 \/ id \in Ids)
      BY <2>1, <2>2, NumberedParts DEF Known
    <2>4. \A i \in DOMAIN ran' : ran'[i].id \in Ids
      BY <2>2, <2>3, NullToken, RanNumbered
    <2> QED BY <1>0, <2>2, <2>4, NumberedParts, NumberedLater
  <1>2. CASE FreeInvalid
    <2>1. CASE invalid = <<>>
      BY <1>0, <1>2, <2>1, NumberedParts, NumberedLater DEF FreeInvalid
    <2>2. CASE invalid # <<>>
      <3>1. PICK id : id = Head(invalid)
        OBVIOUS
      <3>2. Called(id, NoCallback) /\ invalid' = Tail(invalid) /\ UNCHANGED <<replies, subs>>
        BY <1>2, <2>2, <3>1, CallIs DEF FreeInvalid
      <3>3. id \in Nat /\ (id = 0 \/ id \in Ids)
        BY <2>2, <3>1, NumberedParts DEF Known
      <3>4. \A i \in DOMAIN ran' : ran'[i].id \in Ids
        BY <3>2, <3>3, NullToken, RanNumbered
      <3> QED BY <1>0, <2>2, <3>2, <3>4, NumberedParts, NumberedLater
    <2> QED BY <2>1, <2>2
  <1>3. CASE FreeSubs
    <2>1. PICK n \in DOMAIN subs : /\ RunCallback(subs[n].id, NoCallback, "freesubs")
                                   /\ subs' = [m \in DOMAIN subs \ {n} |-> subs[m]]
      BY <1>3 DEF FreeSubs
    <2>2. PICK id : id = subs[n].id
      OBVIOUS
    <2>3. Called(id, NoCallback) /\ UNCHANGED <<replies, invalid>>
      BY <1>3, <2>1, <2>2, CallIs DEF FreeSubs
    <2>4. id \in Nat /\ id \in Ids
      BY <2>2, NumberedParts DEF Subbed, AsyncTypes
    <2>5. \A i \in DOMAIN ran' : ran'[i].id \in Ids
      BY <2>3, <2>4, NullToken, RanNumbered
    <2>6. Subbed(subs')
      BY <2>1, NumberedParts DEF Subbed
    <2> QED BY <1>0, <2>3, <2>5, <2>6, NumberedParts, NumberedLater
  <1> QED BY <1>1, <1>2, <1>3

LEMMA ReplyNumbered == ASSUME AsyncTypes, KindsInv, RegularReply PROVE Numbered'
  <1>0. SameKinds
    BY OtherKinds DEF OtherStep, Library
  <1>1. PICK id, t : id = Head(replies) /\ t = Head(got)
    OBVIOUS
  <1>2. /\ Called(id, t) /\ replies # <<>> /\ replies' = Tail(replies) /\ cb' = id /\ UNCHANGED <<invalid, subs, obuf, server>>
        /\ got # <<>> /\ got' = Tail(got)
    BY <1>1, CallIs DEF RegularReply
  <1>3. id \in Nat /\ (id = 0 \/ id \in Ids) /\ Known({id})
    BY <1>1, <1>2, NumberedParts DEF Known
  <1>4. t \in Tokens
    BY <1>1, <1>2, TakesReply
  <1>5. \A i \in DOMAIN ran' : ran'[i].id \in Ids
    BY <1>2, <1>3, <1>4, RanNumbered
  <1> QED BY <1>0, <1>2, <1>3, <1>5, NumberedParts, NumberedLater

LEMMA SubscribeNumbered == ASSUME AsyncTypes, KindsInv, SubscribeReply PROVE Numbered'
  <1>0. SameKinds
    BY OtherKinds DEF OtherStep, Library
  <1>1. PICK t : t = Head(got)
    OBVIOUS
  <1>2. /\ got # <<>> /\ got' = Tail(got) /\ UNCHANGED <<replies, obuf, server>>
        /\ cb' = SubscribeCallback(t) /\ SubsAfter(t, subs') /\ Called(cb', t)
        /\ invalid' = invalid \/ (invalid # <<>> /\ invalid' = Tail(invalid))
    BY <1>1, SubscribeIs DEF Called, NoFn
  <1>3. t \in Tokens
    BY <1>1, <1>2, TakesReply
  <1>4. cb' \in Nat /\ Known({cb'})
    <2>1. cb' = cb \/ (invalid # <<>> /\ cb' = Head(invalid)) \/ (t.name \in DOMAIN subs /\ cb' = subs[t.name].id)
      BY <1>2 DEF SubscribeCallback
    <2>2. cb' \in Nat
      BY SubscribeTypes DEF AsyncTypes
    <2> QED BY <2>1, <2>2, NumberedParts DEF Known, Subbed
  <1>5. \A i \in DOMAIN ran' : ran'[i].id \in Ids
    <2>1. PICK id : id = cb'
      OBVIOUS
    <2>2. id \in Nat /\ Called(id, t) /\ (id = 0 \/ id \in Ids)
      BY <1>2, <1>4, <2>1 DEF Known
    <2> QED BY <1>3, <2>2, RanNumbered
  <1>6. Subbed(subs')
    <2>1. CASE subs' = subs
      BY <2>1, NumberedParts
    <2>2. CASE t.name \in DOMAIN subs /\ subs' = [subs EXCEPT ![t.name].pending = @ - 1]
      <3>1. PICK D : D = subs'
        OBVIOUS
      <3>2. /\ DOMAIN D = DOMAIN subs /\ \A m \in DOMAIN subs \ {t.name} : D[m] = subs[m]
            /\ D[t.name].id = subs[t.name].id
        BY <2>2, <3>1, SubsOneLess
      <3>3. \A m \in DOMAIN subs : D[m].id = subs[m].id
        BY <3>2
      <3> QED BY <3>1, <3>2, <3>3, NumberedParts DEF Subbed
    <2>3. CASE subs' = [n \in DOMAIN subs \ {t.name} |-> subs[n]]
      BY <2>3, NumberedParts DEF Subbed
    <2> QED BY <1>2, <2>1, <2>2, <2>3 DEF SubsAfter
  <1>7. Known(Range(invalid'))
    BY <1>2, NumberedParts
  <1> QED BY <1>0, <1>2, <1>4, <1>5, <1>6, <1>7, NumberedParts, NumberedLater

LEMMA OtherNumbered == ASSUME AsyncTypes, KindsInv, OtherStep PROVE Numbered'
  <1>0. SameKinds
    BY OtherKinds
  <1>1. CASE FreeReplies \/ FreeInvalid \/ FreeSubs \/ RegularReply \/ SubscribeReply
    BY <1>1, FreeNumbered, ReplyNumbered, SubscribeNumbered
  <1>2. CASE NoMore
    <2>1. UNCHANGED <<invalid, subs, cb, ran>> /\ (replies' = replies \/ replies' = Append(replies, cb))
      BY <1>2 DEF NoMore
    <2> QED BY <1>0, <2>1, NumberedParts, NumberedLater
  <1>3. CASE BufferRead
    <2>1. UNCHANGED <<replies, invalid, subs, ran>> /\ (cb' = cb \/ cb' = 0)
      BY <1>3 DEF BufferRead, NoFn
    <2>2. Known({cb'})
      BY <2>1, NumberedParts DEF Known
    <2> QED BY <1>0, <2>1, <2>2, NumberedParts, NumberedLater
  <1>4. CASE ~ (FreeReplies \/ FreeInvalid \/ FreeSubs \/ RegularReply \/ SubscribeReply \/ NoMore \/ BufferRead)
    <2>1. UNCHANGED <<replies, invalid, subs, cb, ran>>
      BY <1>4 DEF OtherStep, Library, AsyncFree, AsyncDisconnect, DisconnectNow, CallbackReturns, FreeRepliesDone,
         Freed, ConnectFailed, HandleWrite, BufferWrite, HandleRead, HandleConnect,
         RanRegular, SpontaneousError, SubscribeAssert, Serves, Publishes, Closes, Rest, acVars
    <2> QED BY <1>0, <2>1, NumberedParts, NumberedLater
  <1> QED BY <1>1, <1>2, <1>3, <1>4

\* What a new command does to the numbers.
CommandEffect(c, id) ==
    /\ id = Len(issued) + 1 /\ id \in Nat /\ id \notin Ids /\ DOMAIN issued' = Ids \cup {id} /\ (\A i \in Ids : i < id /\ i > 0) /\ id > 0
    /\ issued'[id].kind = c.kind /\ issued'[id].names = c.names /\ issued'[id].open
    /\ \A i \in Ids : issued'[i] = issued[i]
    /\ Added(Asked, Asked', [kind |-> c.kind, names |-> c.names, id |-> id])
    /\ Wire' = Wire /\ server' = server

LEMMA CommandIs ==
    ASSUME AsyncTypes, NEW c \in AsyncCommands, AsyncCommand(c)
    PROVE  \E id : CommandEffect(c, id)
  <1>1. PICK id : id = Len(issued) + 1
    OBVIOUS
  <1>2. /\ issued' = Append(issued, [kind |-> c.kind, names |-> c.names, open |-> TRUE])
        /\ obuf' = Append(obuf, [kind |-> c.kind, names |-> c.names, id |-> id])
        /\ UNCHANGED <<got, server>>
    BY <1>1 DEF AsyncCommand
  <1>3. c.kind \in CommandKinds /\ c.names \in Seq(Names)
    BY NamesAre
  <1>4. PICK n \in Nat : n = Len(issued)
    BY LenProperties DEF AsyncTypes, Issues
  <1>5. id \in Nat /\ id = n + 1
    BY <1>1, <1>4
  <1>6. PICK e : e = [kind |-> c.kind, names |-> c.names, open |-> TRUE]
    OBVIOUS
  <1>7. e \in [kind : CommandKinds, names : Seq(Names), open : BOOLEAN] /\ e.kind = c.kind /\ e.names = c.names /\ e.open
    BY <1>3, <1>6
  <1>8. issued \in Seq([kind : CommandKinds, names : Seq(Names), open : BOOLEAN])
    BY DEF AsyncTypes, Issues
  <1>9. PICK J : J = Append(issued, e)
    OBVIOUS
  <1>10. /\ J \in Seq([kind : CommandKinds, names : Seq(Names), open : BOOLEAN]) /\ Len(J) = n + 1 /\ J[n + 1] = e
         /\ \A i \in 1..n : J[i] = issued[i]
    BY <1>4, <1>7, <1>8, <1>9, AppendProperties
  <1>11. DOMAIN J = 1..n + 1 /\ DOMAIN issued = 1..n
    BY <1>4, <1>8, <1>10, LenProperties
  <1>12. 1..n + 1 = 1..n \cup {n + 1} /\ n + 1 \notin 1..n /\ (\A i \in 1..n : i < n + 1 /\ i > 0) /\ n + 1 > 0
    BY ONLY n \in Nat
  <1>13. issued' = J
    BY <1>2, <1>6, <1>9
  <1>14. Added(Asked, Asked', [kind |-> c.kind, names |-> c.names, id |-> id])
    <2>1. PICK a : a = [kind |-> c.kind, names |-> c.names, id |-> id]
      OBVIOUS
    <2>2. a \in Asks /\ server.in \in Seq(Asks) /\ obuf \in Seq(Asks)
      BY <1>3, <1>5, <2>1 DEF Asks, AsyncTypes, Servers
    <2>3. Added(server.in \o obuf, server.in \o Append(obuf, a), a)
      BY <2>2, EndAdded
    <2> QED BY <1>2, <2>1, <2>3 DEF Asked
  <1>15. /\ id \notin Ids /\ DOMAIN issued' = Ids \cup {id} /\ (\A i \in Ids : i < id /\ i > 0) /\ id > 0
         /\ issued'[id].kind = c.kind /\ issued'[id].names = c.names /\ issued'[id].open
         /\ \A i \in Ids : issued'[i] = issued[i]
    BY <1>5, <1>7, <1>10, <1>11, <1>12, <1>13 DEF Ids
  <1>16. Wire' = Wire /\ server' = server
    BY <1>2 DEF Wire
  <1>17. CommandEffect(c, id)
    BY <1>1, <1>5, <1>14, <1>15, <1>16 DEF CommandEffect
  <1> QED BY <1>17

LEMMA CommandKeepsKinds ==
    ASSUME AsyncTypes, KindsInv, NEW c \in AsyncCommands, AsyncCommand(c)
    PROVE  KindsInv'
  <1>1. PICK id : CommandEffect(c, id)
    BY CommandIs
  <1>2. /\ id = Len(issued) + 1 /\ id \in Nat /\ id \notin Ids /\ Ids' = Ids \cup {id} /\ Kind(id)' = c.kind
        /\ \A i \in Ids : issued'[i] = issued[i]
    BY <1>1 DEF CommandEffect, Ids, Kind
  <1>3. \A i \in Ids : issued'[i].kind = Kind(i)
    BY <1>2 DEF Kind
  <1>4. Numbered'
    <2>1. /\ subs' = subs \/ (c.kind = "sub" /\ subs' = AddNames(c.names, id))
          /\ replies' = replies \/ replies' = Append(replies, id)
          /\ invalid' = invalid \/ invalid' = Append(invalid, id)
          /\ UNCHANGED <<cb, ran>>
      BY <1>2 DEF AsyncCommand
    <2>2. Range(Append(replies, id)) = Range(replies) \cup {id} /\ Range(Append(invalid, id)) = Range(invalid) \cup {id}
      <3>1. replies \in Seq(Nat) /\ invalid \in Seq(Nat)
        BY DEF AsyncTypes
      <3> QED BY <1>2, <3>1, RangeParts
    <2>3. \A r \in Range(replies') \cup Range(invalid') \cup {cb'} : r = 0 \/ r \in Ids'
      BY <1>2, <2>1, <2>2 DEF KindsInv, Numbered
    <2>4. \A i \in DOMAIN ran' : ran'[i].id \in Ids'
      BY <1>2, <2>1 DEF KindsInv, Numbered
    <2>5. \A n \in DOMAIN subs' : subs'[n].id \in Ids' /\ issued'[subs'[n].id].kind = "sub"
      <3>1. \A n \in DOMAIN subs : subs[n].id \in Ids' /\ issued'[subs[n].id].kind = "sub"
        BY <1>2, <1>3 DEF KindsInv, Numbered
      <3>2. CASE subs' = subs
        BY <3>1, <3>2
      <3>3. CASE c.kind = "sub" /\ subs' = AddNames(c.names, id)
        <4>1. PICK D : D = AddNames(c.names, id)
          OBVIOUS
        <4>2. c.names \in Seq(Names)
          BY NamesAre
        <4>3. /\ DOMAIN D = DOMAIN subs \cup Range(c.names) /\ \A n \in Range(c.names) : D[n].id = id
              /\ \A n \in DOMAIN subs \ Range(c.names) : D[n] = subs[n]
          BY <1>2, <4>1, <4>2, AddNamesIs
        <4>4. id \in Ids' /\ issued'[id].kind = "sub"
          BY <1>2, <3>3 DEF Kind
        <4> QED BY <3>1, <3>3, <4>1, <4>3, <4>4
      <3> QED BY <2>1, <3>2, <3>3
    <2> QED BY <2>3, <2>4, <2>5 DEF Numbered, Kind
  <1>5. AskedKinds'
    <2>1. Added(Asked, Asked', [kind |-> c.kind, names |-> c.names, id |-> id])
      BY <1>1 DEF CommandEffect
    <2>2. PICK Q, P, e : Q = Asked /\ P = Asked' /\ e = [kind |-> c.kind, names |-> c.names, id |-> id]
      OBVIOUS
    <2>3. Len(Q) \in Nat /\ DOMAIN Q = 1..Len(Q) /\ DOMAIN P = 1..Len(Q) + 1 /\ P[Len(Q) + 1] = e /\ \A i \in 1..Len(Q) : P[i] = Q[i]
      BY <2>1, <2>2 DEF Added
    <2>4. \A i \in 1..Len(Q) + 1 : i \in 1..Len(Q) \/ i = Len(Q) + 1
      BY ONLY <2>3
    <2>5. e.kind = c.kind /\ e.id = id
      BY <2>2
    <2>6. \A j \in DOMAIN Q : Q[j].id \in Ids /\ Q[j].kind = Kind(Q[j].id)
      BY <2>2 DEF KindsInv, AskedKinds
    <2>7. \A j \in DOMAIN P : P[j].id \in Ids' /\ P[j].kind = issued'[P[j].id].kind
      BY <1>2, <1>3, <2>3, <2>4, <2>5, <2>6 DEF Kind
    <2> QED BY <2>2, <2>7 DEF AskedKinds, Kind
  <1>6. HeardKinds'
    <2>1. server' = server
      BY <1>1 DEF CommandEffect
    <2> QED BY <1>2, <1>3, <2>1 DEF KindsInv, HeardKinds, Kind
  <1>7. Modes'
    <2>1. "monitoring" \notin flags /\ (c.kind = "monitor" => issued = <<>>)
      BY DEF AsyncCommand, Careful
    <2>2. \A i \in Ids : Kind(i) # "monitor"
      BY <2>1 DEF KindsInv, Modes
    <2>3. CASE c.kind = "monitor"
      <3>1. issued = <<>> /\ "monitoring" \in flags'
        BY <2>1, <2>3 DEF AsyncCommand
      <3>2. Ids = {}
        BY <3>1 DEF Ids
      <3> QED BY <1>2, <2>3, <3>1, <3>2 DEF Modes, Kind
    <2>4. CASE c.kind # "monitor"
      <3>1. "monitoring" \notin flags'
        BY <2>1, <2>4 DEF AsyncCommand
      <3> QED BY <1>2, <1>3, <2>2, <2>4, <3>1 DEF Modes, Kind
    <2> QED BY <2>3, <2>4
  <1> QED BY <1>4, <1>5, <1>6, <1>7 DEF KindsInv

LEMMA KindsStart == AsyncInitialize => KindsInv
  <1> SUFFICES ASSUME AsyncInitialize PROVE KindsInv
    OBVIOUS
  <1>1. /\ flags = {} /\ replies = <<>> /\ invalid = <<>> /\ DOMAIN subs = {} /\ cb = 0 /\ obuf = <<>> /\ issued = <<>> /\ ran = <<>>
        /\ server.in = <<>> /\ server.subs = {} /\ server.monitor = FALSE
    BY DEF AsyncInitialize, NoFn
  <1>2. DOMAIN issued = {} /\ DOMAIN ran = {} /\ Range(replies) = {} /\ Range(invalid) = {}
    BY <1>1 DEF Range
  <1>3. DOMAIN Asked = {}
    BY <1>1 DEF Asked
  <1> QED BY <1>1, <1>2, <1>3 DEF KindsInv, Numbered, AskedKinds, HeardKinds, Modes, Ids

LEMMA StepIs == [AsyncNext]_acVars => OtherStep \/ \E c \in AsyncCommands : AsyncCommand(c)
  BY DEF AsyncNext, OtherStep
LEMMA KindsStep == AsyncTypes /\ KindsInv /\ [AsyncNext]_acVars => KindsInv'
  <1> SUFFICES ASSUME AsyncTypes, KindsInv, [AsyncNext]_acVars PROVE KindsInv'
    OBVIOUS
  <1>1. CASE OtherStep
    BY <1>1, OtherKeepsKinds, OtherNumbered DEF KindsInv
  <1>2. CASE \E c \in AsyncCommands : AsyncCommand(c)
    BY <1>2, CommandKeepsKinds
  <1> QED BY <1>1, <1>2, StepIs

-----------------------------------------------------------------------------
(* What a teardown has done. *)

\* What is at the bottom of the frames, and what a teardown has already done.
Base == IF frames = <<>> THEN "none" ELSE frames[1]
FreedInv ==
    /\ Base \in {"freeinvalid", "freesubs"} \/ socket = "freed" => replies = <<>>
    /\ Base = "freesubs" \/ socket = "freed" => invalid = <<>>

LEMMA BaseIs ==
    /\ frames = <<>> => Base = "none"
    /\ \A x : frames = <<x>> \/ frames = <<x, "callback">> \/ frames = <<x, "callback", "disconnect">> => Base = x
  <1>1. ASSUME NEW x PROVE frames = <<x>> \/ frames = <<x, "callback">> \/ frames = <<x, "callback", "disconnect">> => Base = x
    <2>1. <<x>> # <<>> /\ <<x>>[1] = x
      OBVIOUS
    <2>2. <<x, "callback">> # <<>> /\ <<x, "callback">>[1] = x
      OBVIOUS
    <2>3. <<x, "callback", "disconnect">> # <<>> /\ <<x, "callback", "disconnect">>[1] = x
      OBVIOUS
    <2> QED BY <2>1, <2>2, <2>3 DEF Base
  <1> QED BY <1>1 DEF Base
BaseFacts ==
    /\ frames = <<>> => Base = "none"
    /\ \A x : frames = <<x>> \/ frames = <<x, "callback">> \/ frames = <<x, "callback", "disconnect">> => Base = x
LEMMA BaseLater == BaseFacts /\ BaseFacts'
  <1>1. BaseFacts
    BY BaseIs DEF BaseFacts
  <1> QED BY <1>1, PTL

Kept == /\ UNCHANGED <<replies, invalid>> /\ (socket' = "freed" => socket = "freed")
        /\ Base' = Base \/ Base' \notin {"freeinvalid", "freesubs"}

\* Steps of an event.
LEMMA BaseRuns ==
    ASSUME FrameInv, NEW x \in Events, x # "disconnect", Top = x,
           Pop \/ (\E y : Replace(y) /\ y \notin {"freeinvalid", "freesubs"})
               \/ frames' = SubSeq(frames, 1, Len(frames) - 1) \o <<"ranregular", "callback">>
    PROVE  Base' \notin {"freeinvalid", "freesubs"} /\ Base = x
  <1>1. /\ frames = <<x>> /\ (Pop => frames' = <<>>) /\ (\A y : Replace(y) => frames' = <<y>>)
        /\ SubSeq(frames, 1, Len(frames) - 1) \o <<"ranregular", "callback">> = <<"ranregular", "callback">>
    BY AtTop
  <1> QED BY <1>1, BaseLater DEF BaseFacts

LEMMA EventKept ==
    ASSUME FrameInv, ToldInv, ConnectFailed \/ HandleWrite \/ BufferWrite \/ HandleRead \/ BufferRead \/ RanRegular \/ SpontaneousError
    PROVE  Kept
  <1>0. {"connectfailed", "write", "read", "process", "ranregular"} \subseteq Events
    BY DEF Events, Runners
  <1>1. UNCHANGED <<replies, invalid>> /\ (socket' = "freed" => socket = "freed")
    BY DEF ConnectFailed, HandleWrite, HandleConnect, BufferWrite, HandleRead, BufferRead, RanRegular, SpontaneousError, Rest
  <1>2. CASE ConnectFailed \/ BufferWrite \/ BufferRead \/ RanRegular \/ SpontaneousError
    <2>1. /\ Top \in {"connectfailed", "write", "read", "process", "ranregular"}
          /\ Pop \/ \E y : Replace(y) /\ y \notin {"freeinvalid", "freesubs"}
      <3>1. ASSUME NEW err, Disconnect(err, flags) PROVE Replace("free")
        BY <3>1 DEF Disconnect
      <3>2. CASE ConnectFailed
        <4>1. Top = "connectfailed" /\ ((\E err : Disconnect(err, flags)))
          BY <3>2 DEF ConnectFailed
        <4>2. Top = "connectfailed" /\ (Replace("free"))
          BY <3>1, <4>1
        <4> QED BY <4>2
      <3>3. CASE BufferWrite
        <4>1. Top = "write" /\ ((\E err : Disconnect(err, flags)) \/ Pop)
          BY <3>3 DEF BufferWrite
        <4>2. Top = "write" /\ (Replace("free") \/ Pop)
          BY <3>1, <4>1
        <4> QED BY <4>2
      <3>4. CASE BufferRead
        <4>1. Top = "read" /\ ((\E err : Disconnect(err, flags)) \/ Replace("process"))
          BY <3>4 DEF BufferRead
        <4>2. Top = "read" /\ (Replace("free") \/ Replace("process"))
          BY <3>1, <4>1
        <4> QED BY <4>2
      <3>5. CASE RanRegular
        <4>1. Top = "ranregular" /\ (Replace("free") \/ Replace("process"))
          BY <3>5 DEF RanRegular
        <4> QED BY <4>1
      <3>6. CASE SpontaneousError
        <4>1. Top = "process" /\ ((\E err : Disconnect(err, flags)))
          BY <3>6 DEF SpontaneousError
        <4>2. Top = "process" /\ (Replace("free"))
          BY <3>1, <4>1
        <4> QED BY <4>2
      <3> QED BY <1>2, <3>2, <3>3, <3>4, <3>5, <3>6
    <2>2. Base' \notin {"freeinvalid", "freesubs"}
      BY <1>0, <2>1, BaseRuns
    <2> QED BY <1>1, <2>2 DEF Kept
  <1>3. CASE HandleWrite \/ HandleRead
    <2>1. PICK y : frames = <<>> /\ (frames' = <<y>> \/ Push(y)) /\ y \in {"write", "read", "connectfailed"}
      BY <1>3 DEF HandleWrite, HandleRead, HandleConnect, Event
    <2>2. frames' = <<y>>
      BY <2>1, Frames0
    <2>3. Base' = y
      BY <2>2, BaseLater DEF BaseFacts
    <2> QED BY <1>1, <2>1, <2>3 DEF Kept
  <1> QED BY <1>2, <1>3

\* Steps of the user, and the server.
LEMMA UserKept ==
    ASSUME FrameInv, ToldInv, AsyncFree \/ AsyncDisconnect \/ DisconnectNow \/ CallbackReturns
    PROVE  Kept
  <1>1. UNCHANGED <<replies, invalid, socket>>
    BY DEF AsyncFree, AsyncDisconnect, DisconnectNow, CallbackReturns, Rest
  <1>2. CASE AsyncFree
    <2>1. Top \in {"none", "callback"} /\ (frames' = frames \/ (Push("free") /\ "incallback" \notin flags))
      BY <1>2 DEF AsyncFree, UserRuns
    <2>2. CASE frames' = frames
      BY <1>1, <2>2 DEF Kept, Base
    <2>3. CASE Push("free") /\ "incallback" \notin flags
      <3>1. frames = <<>>
        <4>1. Top = "callback" => \E x \in Runners : frames = <<x, "callback">>
          BY TopIs
        <4>2. \A x : frames = <<x, "callback">> => Len(frames) = 2
          BY Frames2
        <4>3. Top # "callback"
          BY <2>3, <4>1, <4>2 DEF FrameInv
        <4> QED BY <2>1, <4>3, TopIs
      <3>2. frames' = <<"free">>
        BY <2>3, <3>1, Frames0
      <3>3. Base' = "free"
        BY <3>2, BaseLater DEF BaseFacts
      <3> QED BY <1>1, <3>3 DEF Kept
    <2> QED BY <2>1, <2>2, <2>3
  <1>3. CASE AsyncDisconnect
    <2>1. Top \in {"none", "callback"} /\ Push("disconnect")
      BY <1>3 DEF AsyncDisconnect, UserRuns
    <2>2. CASE Top = "none"
      <3>1. frames = <<>>
        BY <2>2, TopIs
      <3>2. frames' = <<"disconnect">>
        BY <2>1, <3>1, Frames0
      <3>3. Base' = "disconnect"
        BY <3>2, BaseLater DEF BaseFacts
      <3> QED BY <1>1, <3>3 DEF Kept
    <2>3. CASE Top = "callback"
      <3>1. PICK x \in Runners : frames = <<x, "callback">>
        BY <2>3, TopIs
      <3>2. frames' = <<x, "callback", "disconnect">>
        BY <2>1, <3>1, Frames2
      <3>3. Base' = x /\ Base = x
        BY <3>1, <3>2, BaseLater DEF BaseFacts
      <3> QED BY <1>1, <3>3 DEF Kept
    <2> QED BY <2>1, <2>2, <2>3
  <1>4. CASE DisconnectNow
    <2>1. Top = "disconnect" /\ (Pop \/ Replace("free"))
      BY <1>4 DEF DisconnectNow, Disconnect
    <2>2. CASE frames = <<"disconnect">>
      <3>1. frames' = <<>> \/ frames' = <<"free">>
        BY <2>1, <2>2, Frames1
      <3>2. Base' \in {"none", "free"}
        BY <3>1, BaseLater DEF BaseFacts
      <3> QED BY <1>1, <3>2 DEF Kept
    <2>3. CASE \E x \in Runners : frames = <<x, "callback", "disconnect">>
      <3>1. PICK x \in Runners : frames = <<x, "callback", "disconnect">>
        BY <2>3
      <3>2. Len(frames) = 3 /\ (Pop => frames' = <<x, "callback">>)
        BY <3>1, Frames3
      <3>3. "incallback" \in flags
        BY <3>2 DEF FrameInv
      <3>4. frames' = <<x, "callback">>
        BY <1>4, <3>2, <3>3 DEF DisconnectNow
      <3>5. Base' = x /\ Base = x
        BY <3>1, <3>4, BaseLater DEF BaseFacts
      <3> QED BY <1>1, <3>5 DEF Kept
    <2> QED BY <2>1, <2>2, <2>3, TopIs
  <1>5. CASE CallbackReturns
    <2>1. Top = "callback" /\ Pop
      BY <1>5 DEF CallbackReturns
    <2>2. PICK x \in Runners : frames = <<x, "callback">>
      BY <2>1, TopIs
    <2>3. frames' = <<x>>
      BY <2>1, <2>2, Frames2
    <2>4. Base' = x /\ Base = x
      BY <2>2, <2>3, BaseLater DEF BaseFacts
    <2> QED BY <1>1, <2>4 DEF Kept
  <1> QED BY <1>2, <1>3, <1>4, <1>5

\* Steps of a teardown.
LEMMA FreeFreed ==
    ASSUME FrameInv, ToldInv, FreedInv, FreeReplies \/ FreeRepliesDone \/ FreeInvalid \/ FreeSubs \/ Freed
    PROVE  FreedInv'
  <1>0. {"free", "freeinvalid", "freesubs"} \subseteq Events
    BY DEF Events, Runners
  <1>1. Top \in {"free", "freeinvalid", "freesubs"}
    BY DEF FreeReplies, FreeRepliesDone, FreeInvalid, FreeSubs, Freed
  <1>2. PICK x \in {"free", "freeinvalid", "freesubs"} : Top = x
    BY <1>1
  <1>3. /\ frames = <<x>> /\ (\A y : Replace(y) => frames' = <<y>>)
        /\ \A y : SubSeq(frames, 1, Len(frames) - 1) \o <<y, "callback">> = <<y, "callback">>
    BY <1>0, <1>2, AtTop
  <1>4. Base = x
    BY <1>3, BaseLater DEF BaseFacts
  <1>5. ASSUME NEW id, NEW reply, NEW y, RunCallback(id, reply, y) PROVE Base' = y
    <2>1. frames' = <<y>> \/ frames' = <<y, "callback">>
      BY <1>3, <1>5 DEF RunCallback
    <2> QED BY <2>1, BaseLater DEF BaseFacts
  <1>6. socket # "freed"
    BY <1>1, TopAlive
  <1>7. CASE FreeReplies
    <2>1. Base' = "free" /\ socket' = socket
      BY <1>5, <1>7 DEF FreeReplies
    <2> QED BY <1>6, <2>1 DEF FreedInv
  <1>8. CASE FreeRepliesDone
    <2>1. replies = <<>> /\ replies' = <<>> /\ frames' = <<"freeinvalid">> /\ socket' = socket
      BY <1>3, <1>8 DEF FreeRepliesDone, Rest
    <2>2. Base' = "freeinvalid"
      BY <2>1, BaseLater DEF BaseFacts
    <2> QED BY <1>6, <2>1, <2>2 DEF FreedInv
  <1>9. CASE FreeInvalid
    <2>1. replies' = replies /\ socket' = socket /\ Base = "freeinvalid"
      BY <1>2, <1>4, <1>9 DEF FreeInvalid
    <2>2. CASE invalid = <<>>
      <3>1. invalid' = <<>>
        BY <1>9, <2>2 DEF FreeInvalid
      <3> QED BY <1>6, <2>1, <3>1 DEF FreedInv
    <2>3. CASE invalid # <<>>
      <3>1. Base' = "freeinvalid"
        BY <1>5, <1>9, <2>3 DEF FreeInvalid
      <3> QED BY <1>6, <2>1, <3>1 DEF FreedInv
    <2> QED BY <2>2, <2>3
  <1>10. CASE FreeSubs \/ Freed
    <2>1. replies' = replies /\ invalid' = invalid /\ Base = "freesubs"
      BY <1>2, <1>4, <1>10 DEF FreeSubs, Freed
    <2> QED BY <2>1 DEF FreedInv
  <1> QED BY <1>7, <1>8, <1>9, <1>10

\* No command is taken in a teardown, and no reply read.
LEMMA CommandFreed ==
    ASSUME FrameInv, ToldInv, FreedInv, NEW c \in AsyncCommands, AsyncCommand(c)
    PROVE  FreedInv'
  <1>1. ~ Teardown /\ socket # "freed" /\ socket' = socket
    BY CommandFrames
  <1>2. frames' = frames /\ Top \in {"none", "callback"}
    BY DEF AsyncCommand, UserRuns
  <1>3. Base \notin {"freeinvalid", "freesubs"}
    <2>1. CASE Top = "none"
      BY <2>1, TopIs, BaseLater DEF BaseFacts
    <2>2. CASE Top = "callback"
      <3>1. PICK x \in Runners : frames = <<x, "callback">>
        BY <2>2, TopIs
      <3>2. Base = x /\ x \notin Freeing
        BY <1>1, <3>1, Frames2, BaseLater DEF BaseFacts
      <3> QED BY <3>2 DEF Freeing
    <2> QED BY <1>2, <2>1, <2>2
  <1>4. Base' = Base
    BY <1>2 DEF Base
  <1> QED BY <1>1, <1>3, <1>4 DEF FreedInv
LEMMA ReplyFreed ==
    ASSUME FrameInv, ToldInv, FreedInv, NoMore \/ RegularReply \/ SubscribeReply
    PROVE  FreedInv'
  <1>0. "process" \in Events /\ "process" # "disconnect"
    BY DEF Events
  <1>1. Top = "process" /\ socket' = socket
    BY DEF NoMore, RegularReply, SubscribeReply
  <1>2. \/ Pop \/ \E y : Replace(y) /\ y \notin {"freeinvalid", "freesubs"}
        \/ frames' = SubSeq(frames, 1, Len(frames) - 1) \o <<"ranregular", "callback">>
    <2>1. CASE NoMore
      <3>1. Pop \/ Replace("free")
        BY <2>1 DEF NoMore, Disconnect
      <3> QED BY <3>1
    <2>2. CASE RegularReply
      <3>1. RunCallback(Head(replies), Head(got), "ranregular")
        BY <2>2 DEF RegularReply
      <3>2. Replace("ranregular") \/ frames' = SubSeq(frames, 1, Len(frames) - 1) \o <<"ranregular", "callback">>
        BY <3>1 DEF RunCallback
      <3> QED BY <3>2
    <2>3. CASE SubscribeReply
      <3>1. PICK t : t = Head(got)
        OBVIOUS
      <3>2. Replace("process") \/ frames' = SubSeq(frames, 1, Len(frames) - 1) \o <<"ranregular", "callback">>
        BY <2>3, <3>1, SubscribeIs
      <3> QED BY <3>2
    <2> QED BY <2>1, <2>2, <2>3
  <1>3. Base' \notin {"freeinvalid", "freesubs"}
    BY <1>0, <1>1, <1>2, BaseRuns
  <1>4. socket # "freed"
    BY <1>1, TopAlive
  <1> QED BY <1>1, <1>3, <1>4 DEF FreedInv

LEMMA FreeingStep == FrameInv /\ ToldInv /\ FreedInv /\ [AsyncNext]_acVars => FreedInv'
  <1> SUFFICES ASSUME FrameInv, ToldInv, FreedInv, [AsyncNext]_acVars PROVE FreedInv'
    OBVIOUS
  <1>1. CASE Kept
    BY <1>1 DEF Kept, FreedInv
  <1>2. CASE Serves \/ Publishes \/ Closes \/ SubscribeAssert \/ UNCHANGED acVars
    <2>1. UNCHANGED <<replies, invalid, frames>> /\ (socket' = "freed" => socket = "freed")
      BY <1>2 DEF Serves, Publishes, Closes, SubscribeAssert, Rest, acVars
    <2>2. Base' = Base
      BY <2>1 DEF Base
    <2> QED BY <2>1, <2>2 DEF FreedInv
  <1> QED BY <1>1, <1>2, EventKept, UserKept, FreeFreed, CommandFreed, ReplyFreed DEF AsyncNext, Library
LEMMA FreedStart == AsyncInitialize => FreedInv
  BY BaseLater DEF AsyncInitialize, FreedInv, BaseFacts

-----------------------------------------------------------------------------
(* What is on its way. *)

(* What is on its way, while the context is not being torn down: A is what comes from the server, Q what is
   asked of it, R and V the numbers of the callbacks that wait, I the commands, D the subscriptions the library
   knows, H those of the server. *)
GetsOf(I) == {id \in DOMAIN I : I[id].kind = "get"}
SubTalk(t) == t.kind \in {"sub", "unsub", "message"}
Positive(I) == \A id \in DOMAIN I : id \in Nat /\ id > 0
Meant(A, I) == \A i \in DOMAIN A :
    \/ A[i].of \in GetsOf(I) /\ A[i].kind \in {"reply", "error"}
    \/ A[i].of \in DOMAIN I /\ A[i].kind = I[A[i].of].kind /\ A[i].kind \in {"sub", "unsub"}
    \/ A[i].of = 0 /\ A[i].kind \in {"message", "error"}
Asking(Q, I) == \A j \in DOMAIN Q :
    /\ Q[j].id \in DOMAIN I /\ Q[j].kind = I[Q[j].id].kind
    /\ Q[j].kind = "get" => Range(Q[j].names) = {}
    /\ Q[j].kind # "get" => Range(Q[j].names) # {}
    /\ Q[j].kind = "unsub" => Len(Q[j].names) = 1
    /\ \A k, l \in DOMAIN Q[j].names : Q[j].names[k] = Q[j].names[l] => k = l

\* Answers come in the order of the commands; a subscription has one answer a name.
AnswersInOrder(A) == \A i, k \in DOMAIN A : i < k /\ A[i].of # 0 /\ A[k].of # 0 =>
    \/ A[i].of < A[k].of
    \/ A[i].of = A[k].of /\ A[i].kind = "sub" /\ A[i].name # A[k].name
AnsweredFirst(A, Q) == \A i \in DOMAIN A, j \in DOMAIN Q :
    \/ A[i].of < Q[j].id
    \/ A[i].of = Q[j].id /\ A[i].kind = "sub" /\ A[i].name \notin Range(Q[j].names)
AskedInOrder(Q) == \A j, k \in DOMAIN Q : j < k => Q[j].id < Q[k].id

\* What waits is on its way, and what is on its way waits.
OnWay(A, Q, W) == \A w \in W : (\E i \in DOMAIN A : A[i].of = w) \/ \E j \in DOMAIN Q : Q[j].id = w
Waits(A, I, W) == \A i \in DOMAIN A : A[i].of \in GetsOf(I) => A[i].of \in W
WaitsYet(Q, I, W, closed) == ~ closed => \A j \in DOMAIN Q : Q[j].id \in GetsOf(I) => Q[j].id \in W
ErrorLast(A, closed) == \A i \in DOMAIN A : A[i].of = 0 /\ A[i].kind = "error" => closed /\ \A k \in DOMAIN A : k <= i

\* The replies to regular commands come before all that is published.
RepliesFirst(A, R) == \A i \in DOMAIN A, r \in R : SubTalk(A[i]) => \E k \in DOMAIN A : k < i /\ A[k].of = r
RepliesSent(A, R, H, closed) == ~ closed /\ H # {} => \A r \in R : \E i \in DOMAIN A : A[i].of = r
RepliesAsked(Q, R) == \A j \in DOMAIN Q, r \in R : Q[j].kind # "get" => r < Q[j].id

\* The subscriptions to n that are unanswered, as many as are counted at most.
SubIds(A, Q, n) == {A[i].of : i \in {k \in DOMAIN A : A[k].kind = "sub" /\ A[k].name = n}}
                   \cup {Q[j].id : j \in {k \in DOMAIN Q : Q[k].kind = "sub" /\ n \in Range(Q[k].names)}}
Counted(A, Q, D) == \A n \in DOMAIN D : IsFiniteSet(SubIds(A, Q, n)) /\ Cardinality(SubIds(A, Q, n)) <= D[n].pending
TalkKnown(A, D) == \A i \in DOMAIN A : SubTalk(A[i]) => A[i].name \in DOMAIN D
AskedKnown(Q, D) == \A j \in DOMAIN Q : Range(Q[j].names) \subseteq DOMAIN D
\* After an unsubscribe, until the next subscription, nothing comes of that name.
Quiet(A, H) == \A i \in DOMAIN A :
    A[i].kind = "unsub" /\ (\A k \in DOMAIN A : i < k /\ A[k].kind = "sub" => A[k].name # A[i].name) =>
        A[i].name \notin H /\ \A k \in DOMAIN A : i < k /\ A[k].kind = "message" => A[k].name # A[i].name
\* One unsubscribe is under way, and nothing but subscriptions after it.
OneUnsub(A, Q, I) ==
    /\ \A i \in DOMAIN A : A[i].kind = "unsub" => I[A[i].of].open
    /\ \A j \in DOMAIN Q : Q[j].kind = "unsub" => I[Q[j].id].open
    /\ \A u, id \in DOMAIN I : I[u].kind = "unsub" /\ I[u].open /\ u < id => I[id].kind = "sub"

\* I with one command answered.
AnsweredOf(I, J, id) ==
    /\ DOMAIN J = DOMAIN I
    /\ \A i \in DOMAIN I : J[i].kind = I[i].kind /\ J[i].names = I[i].names /\ J[i].open = (I[i].open /\ (id = 0 \/ i # id))

LEMMA ShiftIs ==
    ASSUME NEW A, NEW B, Taken(A, B)
    PROVE  /\ 1 \in DOMAIN A /\ DOMAIN A \subseteq Nat \ {0} /\ DOMAIN B \subseteq Nat \ {0}
           /\ \A i \in DOMAIN B : i + 1 \in DOMAIN A /\ B[i] = A[i + 1] /\ 1 < i + 1
           /\ \A k \in DOMAIN A : k # 1 => k - 1 \in DOMAIN B /\ B[k - 1] = A[k]
  <1>1. PICK n \in Nat \ {0} : n = Len(A)
    BY DEF Taken
  <1>2. DOMAIN A = 1..n /\ DOMAIN B = 1..n - 1 /\ \A i \in 1..n - 1 : B[i] = A[i + 1]
    BY <1>1 DEF Taken
  <1>3. \A i \in 1..n - 1 : i + 1 \in 1..n /\ 1 < i + 1
    BY ONLY n \in Nat \ {0}
  <1>4. \A k \in 1..n : k # 1 => k - 1 \in 1..n - 1 /\ k - 1 + 1 = k
    BY ONLY n \in Nat \ {0}
  <1>5. 1 \in 1..n /\ 1..n \subseteq Nat \ {0} /\ 1..n - 1 \subseteq Nat \ {0}
    BY ONLY n \in Nat \ {0}
  <1> QED BY ONLY <1>2, <1>3, <1>4, <1>5

\* The next answer is taken from the front.
LEMMA TakeMeant == ASSUME NEW A, NEW B, NEW I, Taken(A, B), Meant(A, I) PROVE Meant(B, I)
  BY ShiftIs DEF Meant
LEMMA TakeOrder == ASSUME NEW A, NEW B, Taken(A, B), AnswersInOrder(A) PROVE AnswersInOrder(B)
  <1> SUFFICES ASSUME NEW i \in DOMAIN B, NEW k \in DOMAIN B, i < k, B[i].of # 0, B[k].of # 0
               PROVE  \/ B[i].of < B[k].of
                      \/ B[i].of = B[k].of /\ B[i].kind = "sub" /\ B[i].name # B[k].name
    BY DEF AnswersInOrder
  <1>1. i + 1 \in DOMAIN A /\ k + 1 \in DOMAIN A /\ B[i] = A[i + 1] /\ B[k] = A[k + 1] /\ i \in Nat /\ k \in Nat
    BY ShiftIs
  <1>2. i + 1 < k + 1
    BY ONLY <1>1, i < k
  <1> QED BY <1>1, <1>2 DEF AnswersInOrder
LEMMA TakeFirst == ASSUME NEW A, NEW B, NEW Q, Taken(A, B), AnsweredFirst(A, Q) PROVE AnsweredFirst(B, Q)
  BY ShiftIs DEF AnsweredFirst
LEMMA TakeErrorLast == ASSUME NEW A, NEW B, NEW closed, Taken(A, B), ErrorLast(A, closed) PROVE ErrorLast(B, closed)
  <1> SUFFICES ASSUME NEW i \in DOMAIN B, B[i].of = 0, B[i].kind = "error"
               PROVE  closed /\ \A k \in DOMAIN B : k <= i
    BY DEF ErrorLast
  <1>1. i + 1 \in DOMAIN A /\ B[i] = A[i + 1] /\ i \in Nat
    BY ShiftIs
  <1>2. closed /\ \A k \in DOMAIN A : k <= i + 1
    BY <1>1 DEF ErrorLast
  <1>3. ASSUME NEW k \in DOMAIN B PROVE k <= i
    <2>1. k + 1 \in DOMAIN A /\ k \in Nat
      BY ShiftIs
    <2>2. k + 1 <= i + 1
      BY <1>2, <2>1
    <2> QED BY ONLY <1>1, <2>1, <2>2
  <1> QED BY <1>2, <1>3
LEMMA TakeQuiet == ASSUME NEW A, NEW B, NEW H, Taken(A, B), Quiet(A, H) PROVE Quiet(B, H)
  <1> SUFFICES ASSUME NEW i \in DOMAIN B, B[i].kind = "unsub",
                      \A k \in DOMAIN B : i < k /\ B[k].kind = "sub" => B[k].name # B[i].name
               PROVE  B[i].name \notin H /\ \A k \in DOMAIN B : i < k /\ B[k].kind = "message" => B[k].name # B[i].name
    BY DEF Quiet
  <1>1. i + 1 \in DOMAIN A /\ B[i] = A[i + 1] /\ i \in Nat
    BY ShiftIs
  <1>2. ASSUME NEW k \in DOMAIN A, i + 1 < k PROVE k - 1 \in DOMAIN B /\ B[k - 1] = A[k] /\ i < k - 1
    <2>1. k \in Nat /\ k # 1
      BY <1>1, <1>2, ShiftIs
    <2>2. k - 1 \in DOMAIN B /\ B[k - 1] = A[k]
      BY <2>1, ShiftIs
    <2> QED BY <1>1, <1>2, <2>1, <2>2
  <1>3. \A k \in DOMAIN A : i + 1 < k /\ A[k].kind = "sub" => A[k].name # A[i + 1].name
    BY <1>1, <1>2
  <1>4. A[i + 1].name \notin H /\ \A k \in DOMAIN A : i + 1 < k /\ A[k].kind = "message" => A[k].name # A[i + 1].name
    BY <1>1, <1>3 DEF Quiet
  <1>5. ASSUME NEW k \in DOMAIN B, i < k, B[k].kind = "message" PROVE B[k].name # B[i].name
    <2>1. k + 1 \in DOMAIN A /\ B[k] = A[k + 1] /\ k \in Nat
      BY ShiftIs
    <2>2. i + 1 < k + 1
      BY <1>1, <1>5, <2>1
    <2> QED BY <1>1, <1>4, <1>5, <2>1, <2>2
  <1> QED BY <1>1, <1>4, <1>5
LEMMA TakeKnown == ASSUME NEW A, NEW B, NEW D, Taken(A, B), TalkKnown(A, D) PROVE TalkKnown(B, D)
  BY ShiftIs DEF TalkKnown

\* Of the answers that are left only one to the same subscription has the same number.
LEMMA TakeOther ==
    ASSUME NEW A, NEW B, NEW I, Taken(A, B), Meant(A, I), AnswersInOrder(A), Positive(I), A[1].of # 0
    PROVE  \A i \in DOMAIN B : B[i].of # 0 =>
               \/ A[1].of < B[i].of
               \/ A[1].of = B[i].of /\ A[1].kind = "sub" /\ B[i].kind = "sub" /\ A[1].name # B[i].name
  <1> SUFFICES ASSUME NEW i \in DOMAIN B, B[i].of # 0, ~ (A[1].of < B[i].of)
               PROVE  A[1].of = B[i].of /\ A[1].kind = "sub" /\ B[i].kind = "sub" /\ A[1].name # B[i].name
    OBVIOUS
  <1>1. 1 \in DOMAIN A /\ i + 1 \in DOMAIN A /\ 1 < i + 1 /\ B[i] = A[i + 1]
    BY ShiftIs
  <1>2. A[1].of = B[i].of /\ A[1].kind = "sub" /\ A[1].name # B[i].name
    BY <1>1 DEF AnswersInOrder
  <1>3. A[1].of \in DOMAIN I /\ I[A[1].of].kind = "sub"
    BY <1>1, <1>2 DEF Meant, GetsOf
  <1>4. B[i].kind = "sub"
    BY <1>1, <1>2, <1>3 DEF Meant, GetsOf
  <1> QED BY <1>2, <1>4

LEMMA TakeOnWay ==
    ASSUME NEW A, NEW B, NEW Q, NEW W, NEW W2, Taken(A, B), OnWay(A, Q, W), W2 \subseteq W, A[1].of \notin W2
    PROVE  OnWay(B, Q, W2)
  <1> SUFFICES ASSUME NEW w \in W2 PROVE (\E i \in DOMAIN B : B[i].of = w) \/ \E j \in DOMAIN Q : Q[j].id = w
    BY DEF OnWay
  <1>1. CASE \E i \in DOMAIN A : A[i].of = w
    <2>1. PICK i \in DOMAIN A : A[i].of = w
      BY <1>1
    <2>2. i # 1
      BY <2>1
    <2> QED BY <2>1, <2>2, ShiftIs
  <1> QED BY <1>1 DEF OnWay

LEMMA TakeWaits ==
    ASSUME NEW A, NEW B, NEW I, NEW W, NEW W2, Taken(A, B), Meant(A, I), AnswersInOrder(A), Positive(I),
           Waits(A, I, W), W \ {A[1].of} \subseteq W2
    PROVE  Waits(B, I, W2)
  <1> SUFFICES ASSUME NEW i \in DOMAIN B, B[i].of \in GetsOf(I) PROVE B[i].of \in W2
    BY DEF Waits
  <1>1. B[i].of \in W
    BY ShiftIs DEF Waits
  <1>2. B[i].of \in Nat /\ B[i].of # 0 /\ I[B[i].of].kind = "get"
    BY DEF GetsOf, Positive
  <1>3. B[i].of # A[1].of
    <2>1. CASE A[1].of = 0
      BY <1>2, <2>1
    <2>2. CASE A[1].of # 0 /\ B[i].of = A[1].of
      <3>1. B[i].kind = "sub"
        BY <1>2, <2>2, TakeOther
      <3>2. Meant(B, I)
        BY TakeMeant
      <3> QED BY <1>2, <3>1, <3>2 DEF Meant, GetsOf
    <2> QED BY <2>1, <2>2
  <1> QED BY <1>1, <1>3

LEMMA TakeWaitsYet ==
    ASSUME NEW A, NEW B, NEW Q, NEW I, NEW W, NEW W2, NEW closed, Taken(A, B), Meant(A, I), Asking(Q, I), Positive(I),
           AnsweredFirst(A, Q), WaitsYet(Q, I, W, closed), W \ {A[1].of} \subseteq W2
    PROVE  WaitsYet(Q, I, W2, closed)
  <1> SUFFICES ASSUME ~ closed, NEW j \in DOMAIN Q, Q[j].id \in GetsOf(I) PROVE Q[j].id \in W2
    BY DEF WaitsYet
  <1>1. Q[j].id \in W
    BY DEF WaitsYet
  <1>2. 1 \in DOMAIN A
    BY ShiftIs
  <1>3. Q[j].id \in Nat /\ Q[j].id # 0 /\ I[Q[j].id].kind = "get"
    BY DEF GetsOf, Positive
  <1>4. A[1].of # Q[j].id
    <2>1. SUFFICES ASSUME A[1].of = Q[j].id PROVE FALSE
      OBVIOUS
    <2>2. A[1].kind = "sub"
      BY <1>2, <1>3, <2>1 DEF AnsweredFirst
    <2> QED BY <1>2, <1>3, <2>1, <2>2 DEF Meant, GetsOf
  <1> QED BY <1>1, <1>4

\* The two halves: what is on its way, and the subscriptions.
Way(A, Q, R, V, I, H, closed) ==
    /\ Positive(I) /\ Meant(A, I) /\ Asking(Q, I)
    /\ AnswersInOrder(A) /\ AnsweredFirst(A, Q) /\ AskedInOrder(Q)
    /\ R \cup V \subseteq GetsOf(I)
    /\ OnWay(A, Q, R \cup V) /\ Waits(A, I, R \cup V) /\ WaitsYet(Q, I, R \cup V, closed) /\ ErrorLast(A, closed)
    /\ RepliesFirst(A, R) /\ RepliesSent(A, R, H, closed) /\ RepliesAsked(Q, R)
    /\ Quiet(A, H) /\ OneUnsub(A, Q, I)
Subbing(A, Q, V, D, H, subscribed) ==
    /\ Counted(A, Q, D) /\ TalkKnown(A, D) /\ AskedKnown(Q, D) /\ H \subseteq DOMAIN D
    /\ ~ subscribed => DOMAIN D = {} /\ V = {}

LEMMA TakeReplies ==
    ASSUME NEW A, NEW B, NEW Q, NEW R, NEW R2, NEW H, NEW closed, Taken(A, B), R2 \subseteq R, A[1].of \notin R2,
           RepliesFirst(A, R), RepliesSent(A, R, H, closed), RepliesAsked(Q, R)
    PROVE  RepliesFirst(B, R2) /\ RepliesSent(B, R2, H, closed) /\ RepliesAsked(Q, R2)
  <1>1. RepliesFirst(B, R2)
    <2> SUFFICES ASSUME NEW i \in DOMAIN B, NEW r \in R2, SubTalk(B[i]) PROVE \E k \in DOMAIN B : k < i /\ B[k].of = r
      BY DEF RepliesFirst
    <2>1. i + 1 \in DOMAIN A /\ B[i] = A[i + 1] /\ i \in Nat
      BY ShiftIs
    <2>2. PICK k \in DOMAIN A : k < i + 1 /\ A[k].of = r
      BY <2>1 DEF RepliesFirst
    <2>3. k # 1 /\ k \in Nat
      BY <2>2, ShiftIs
    <2>4. k - 1 \in DOMAIN B /\ B[k - 1] = A[k]
      BY <2>3, ShiftIs
    <2>5. k - 1 < i
      BY ONLY <2>1, <2>2, <2>3
    <2> QED BY <2>2, <2>4, <2>5
  <1>2. RepliesSent(B, R2, H, closed)
    <2> SUFFICES ASSUME ~ closed, H # {}, NEW r \in R2 PROVE \E i \in DOMAIN B : B[i].of = r
      BY DEF RepliesSent
    <2>1. PICK i \in DOMAIN A : A[i].of = r
      BY DEF RepliesSent
    <2>2. i # 1
      BY <2>1
    <2> QED BY <2>1, <2>2, ShiftIs
  <1>3. RepliesAsked(Q, R2)
    BY DEF RepliesAsked
  <1> QED BY <1>1, <1>2, <1>3

\* A command answered keeps its kind.
LEMMA SameGets == ASSUME NEW I, NEW J, NEW id, AnsweredOf(I, J, id)
                  PROVE  /\ GetsOf(J) = GetsOf(I) /\ DOMAIN J = DOMAIN I /\ (Positive(I) => Positive(J))
                         /\ \A i \in DOMAIN I : J[i].kind = I[i].kind
  BY DEF AnsweredOf, GetsOf, Positive
LEMMA SameMeaning ==
    ASSUME NEW I, NEW J, NEW id, AnsweredOf(I, J, id), NEW A, NEW Q, NEW W, NEW closed
    PROVE  /\ Meant(A, I) => Meant(A, J)
           /\ Asking(Q, I) => Asking(Q, J)
           /\ Waits(A, I, W) => Waits(A, J, W)
           /\ WaitsYet(Q, I, W, closed) => WaitsYet(Q, J, W, closed)
  <1>1. Meant(A, I) => Meant(A, J)
    BY SameGets DEF Meant
  <1>2. Asking(Q, I) => Asking(Q, J)
    BY SameGets DEF Asking
  <1>3. (Waits(A, I, W) => Waits(A, J, W)) /\ (WaitsYet(Q, I, W, closed) => WaitsYet(Q, J, W, closed))
    BY SameGets DEF Waits, WaitsYet
  <1> QED BY <1>1, <1>2, <1>3

LEMMA TakeOneUnsub ==
    ASSUME NEW A, NEW B, NEW Q, NEW I, NEW J, Taken(A, B), Meant(A, I), Asking(Q, I), AnswersInOrder(A), Positive(I),
           AnsweredFirst(A, Q), OneUnsub(A, Q, I), AnsweredOf(I, J, A[1].of)
    PROVE  OneUnsub(B, Q, J)
  <1>0. 1 \in DOMAIN A
    BY ShiftIs
  <1>1. ASSUME NEW i \in DOMAIN B, B[i].kind = "unsub" PROVE J[B[i].of].open
    <2>1. I[B[i].of].open
      BY <1>1, ShiftIs DEF OneUnsub
    <2>2. B[i].of \in DOMAIN I /\ B[i].of \in Nat /\ B[i].of # 0
      <3>1. Meant(B, I)
        BY TakeMeant
      <3> QED BY <1>1, <3>1 DEF Meant, Positive
    <2>3. A[1].of = 0 \/ B[i].of # A[1].of
      <3>1. CASE A[1].of # 0
        <4>1. A[1].of < B[i].of
          BY <1>1, <2>2, <3>1, TakeOther
        <4>2. ~ (B[i].of < B[i].of)
          BY <2>2
        <4> QED BY <4>1, <4>2
      <3> QED BY <3>1
    <2> QED BY <2>1, <2>2, <2>3 DEF AnsweredOf
  <1>2. ASSUME NEW j \in DOMAIN Q, Q[j].kind = "unsub" PROVE J[Q[j].id].open
    <2>1. I[Q[j].id].open /\ Q[j].id \in DOMAIN I /\ I[Q[j].id].kind = "unsub" /\ Q[j].id \in Nat
      BY <1>2 DEF OneUnsub, Asking, Positive
    <2>2. Q[j].id # A[1].of
      <3> SUFFICES ASSUME Q[j].id = A[1].of PROVE FALSE
        OBVIOUS
      <3>1. ~ (A[1].of < Q[j].id)
        BY <2>1
      <3>2. A[1].kind = "sub"
        BY <1>0, <3>1 DEF AnsweredFirst
      <3> QED BY <1>0, <2>1, <3>2 DEF Meant, GetsOf
    <2> QED BY <2>1, <2>2 DEF AnsweredOf
  <1>3. ASSUME NEW u \in DOMAIN J, NEW id \in DOMAIN J, J[u].kind = "unsub", J[u].open, u < id PROVE J[id].kind = "sub"
    <2>1. u \in DOMAIN I /\ id \in DOMAIN I /\ I[u].kind = "unsub" /\ J[id].kind = I[id].kind
      BY <1>3, SameGets
    <2>2. I[u].open
      BY <1>3, <2>1 DEF AnsweredOf
    <2> QED BY <1>3, <2>1, <2>2 DEF OneUnsub
  <1> QED BY <1>1, <1>2, <1>3 DEF OneUnsub

\* An answer is taken: what waited for it does not wait any more, or the connection has ended.
LEMMA TakeWay ==
    ASSUME NEW A, NEW B, NEW Q, NEW R, NEW V, NEW R2, NEW V2, NEW I, NEW J, NEW H, NEW closed,
           Way(A, Q, R, V, I, H, closed), Taken(A, B), AnsweredOf(I, J, A[1].of), R2 \subseteq R, V2 \subseteq V,
           A[1].of \notin R2 \cup V2,
           (R \cup V) \ {A[1].of} \subseteq R2 \cup V2 \/ (closed /\ DOMAIN B = {})
    PROVE  Way(B, Q, R2, V2, J, H, closed)
  <1> DEFINE W == R \cup V
             W2 == R2 \cup V2
  <1>0. W2 \subseteq W /\ A[1].of \notin W2
    OBVIOUS
  <1>1. Positive(I) /\ Meant(A, I) /\ Asking(Q, I) /\ AnswersInOrder(A) /\ AnsweredFirst(A, Q) /\ AskedInOrder(Q)
    BY DEF Way
  <1>2. W \subseteq GetsOf(I) /\ OnWay(A, Q, W) /\ Waits(A, I, W) /\ WaitsYet(Q, I, W, closed) /\ ErrorLast(A, closed)
    BY DEF Way
  <1>3. RepliesFirst(A, R) /\ RepliesSent(A, R, H, closed) /\ RepliesAsked(Q, R) /\ Quiet(A, H) /\ OneUnsub(A, Q, I)
    BY DEF Way
  <1>4. Meant(B, I) /\ AnswersInOrder(B) /\ AnsweredFirst(B, Q) /\ ErrorLast(B, closed) /\ Quiet(B, H)
    BY <1>1, <1>2, <1>3, TakeMeant, TakeOrder, TakeFirst, TakeErrorLast, TakeQuiet
  <1>5. OnWay(B, Q, W2)
    BY <1>0, <1>2, TakeOnWay
  <1>6. RepliesFirst(B, R2) /\ RepliesSent(B, R2, H, closed) /\ RepliesAsked(Q, R2)
    BY <1>3, TakeReplies
  <1>7. OneUnsub(B, Q, J)
    BY <1>1, <1>3, TakeOneUnsub
  <1>8. Waits(B, I, W2)
    <2>1. CASE W \ {A[1].of} \subseteq W2
      BY <1>1, <1>2, <2>1, TakeWaits
    <2>2. CASE DOMAIN B = {}
      BY <2>2 DEF Waits
    <2> QED BY <2>1, <2>2
  <1>9. WaitsYet(Q, I, W2, closed)
    <2>1. CASE W \ {A[1].of} \subseteq W2
      BY <1>1, <1>2, <2>1, TakeWaitsYet
    <2>2. CASE closed
      BY <2>2 DEF WaitsYet
    <2> QED BY <2>1, <2>2
  <1>10. Meant(B, J) /\ Asking(Q, J) /\ Waits(B, J, W2) /\ WaitsYet(Q, J, W2, closed)
    BY <1>1, <1>4, <1>8, <1>9, SameMeaning
  <1>11. Positive(J) /\ W2 \subseteq GetsOf(J)
    BY <1>0, <1>1, <1>2, SameGets
  <1> QED BY <1>1, <1>4, <1>5, <1>6, <1>7, <1>10, <1>11 DEF Way

\* Whose answer comes next.
LEMMA NextIs ==
    ASSUME NEW A, NEW B, NEW Q, NEW R, NEW V, NEW I, NEW H, NEW closed, Way(A, Q, R, V, I, H, closed), Taken(A, B),
           NEW w \in R \cup V, \A v \in R \cup V : w <= v, A[1].of \in GetsOf(I)
    PROVE  A[1].of = w
  <1>0. 1 \in DOMAIN A
    BY ShiftIs
  <1>1. A[1].of \in R \cup V /\ A[1].of \in Nat /\ w \in Nat /\ I[A[1].of].kind = "get"
    BY <1>0 DEF Way, Waits, GetsOf, Positive
  <1>2. w <= A[1].of
    BY <1>1
  <1>3. A[1].kind # "sub"
    BY <1>0, <1>1 DEF Way, Meant, GetsOf
  <1>4. CASE \E i \in DOMAIN A : A[i].of = w
    <2>1. PICK i \in DOMAIN A : A[i].of = w
      BY <1>4
    <2>2. CASE i = 1
      BY <2>1, <2>2
    <2>3. CASE i # 1
      <3>1. i \in Nat /\ 1 < i
        <4>1. i \in Nat \ {0}
          BY <2>1, ShiftIs
        <4> QED BY <4>1, <2>3
      <3>2. A[1].of # 0 /\ A[i].of # 0
        BY <1>1, <2>1 DEF Way, GetsOf, Positive
      <3>3. A[1].of < w
        BY <1>0, <1>3, <2>1, <3>1, <3>2 DEF Way, AnswersInOrder
      <3> QED BY <1>1, <1>2, <3>3
    <2> QED BY <2>2, <2>3
  <1>5. CASE \E j \in DOMAIN Q : Q[j].id = w
    <2>1. A[1].of < w
      BY <1>0, <1>3, <1>5 DEF Way, AnsweredFirst
    <2> QED BY <1>1, <1>2, <2>1
  <1> QED BY <1>4, <1>5 DEF Way, OnWay

\* Nothing published comes before a regular reply.
LEMMA NoTalkYet ==
    ASSUME NEW A, NEW B, NEW Q, NEW R, NEW V, NEW I, NEW H, NEW closed, Way(A, Q, R, V, I, H, closed), Taken(A, B),
           R # {}
    PROVE  ~ SubTalk(A[1])
  <1>0. 1 \in DOMAIN A /\ DOMAIN A \subseteq Nat \ {0}
    BY ShiftIs
  <1>1. \A k \in Nat \ {0} : ~ (k < 1)
    OBVIOUS
  <1> QED BY <1>0, <1>1 DEF Way, RepliesFirst

-----------------------------------------------------------------------------
(* A reply is taken. *)

LEMMA TakeSubIds ==
    ASSUME NEW A, NEW B, NEW Q, NEW n, Taken(A, B)
    PROVE  SubIds(B, Q, n) \subseteq SubIds(A, Q, n)
  <1> SUFFICES ASSUME NEW x \in SubIds(B, Q, n) PROVE x \in SubIds(A, Q, n)
    OBVIOUS
  <1>1. CASE \E i \in DOMAIN B : B[i].of = x /\ B[i].kind = "sub" /\ B[i].name = n
    <2>1. PICK i \in DOMAIN B : B[i].of = x /\ B[i].kind = "sub" /\ B[i].name = n
      BY <1>1
    <2>2. i + 1 \in DOMAIN A /\ A[i + 1].of = x /\ A[i + 1].kind = "sub" /\ A[i + 1].name = n
      BY <2>1, ShiftIs
    <2> QED BY <2>2 DEF SubIds
  <1> QED BY <1>1 DEF SubIds

\* Fewer subscriptions are on their way.
LEMMA FewerCounted ==
    ASSUME NEW A, NEW B, NEW P, NEW Q, NEW D, Counted(A, Q, D), \A n \in DOMAIN D : SubIds(B, P, n) \subseteq SubIds(A, Q, n),
           \A n \in DOMAIN D : D[n].pending \in Int
    PROVE  Counted(B, P, D)
  <1> SUFFICES ASSUME NEW n \in DOMAIN D
               PROVE  IsFiniteSet(SubIds(B, P, n)) /\ Cardinality(SubIds(B, P, n)) <= D[n].pending
    BY DEF Counted
  <1>1. IsFiniteSet(SubIds(A, Q, n)) /\ Cardinality(SubIds(A, Q, n)) <= D[n].pending /\ SubIds(B, P, n) \subseteq SubIds(A, Q, n)
    BY DEF Counted
  <1>2. IsFiniteSet(SubIds(B, P, n)) /\ Cardinality(SubIds(B, P, n)) <= Cardinality(SubIds(A, Q, n))
    BY <1>1, FS_Subset
  <1>3. Cardinality(SubIds(B, P, n)) \in Nat /\ Cardinality(SubIds(A, Q, n)) \in Nat /\ D[n].pending \in Int
    BY <1>1, <1>2, FS_CardinalityType
  <1> QED BY <1>1, <1>2, <1>3

\* An answer that is none to a subscription, or a message, is taken.
LEMMA TakeSubbing ==
    ASSUME NEW A, NEW B, NEW Q, NEW V, NEW V2, NEW D, NEW H, NEW subscribed, Subbing(A, Q, V, D, H, subscribed),
           Taken(A, B), V2 \subseteq V, \A n \in DOMAIN D : D[n].pending \in Int
    PROVE  Subbing(B, Q, V2, D, H, subscribed)
  <1>1. Counted(A, Q, D) /\ TalkKnown(A, D) /\ AskedKnown(Q, D) /\ H \subseteq DOMAIN D /\ (~ subscribed => DOMAIN D = {} /\ V2 = {})
    BY DEF Subbing
  <1>2. \A n : SubIds(B, Q, n) \subseteq SubIds(A, Q, n)
    BY TakeSubIds
  <1>3. Counted(B, Q, D)
    BY <1>1, <1>2, FewerCounted
  <1>4. TalkKnown(B, D)
    BY <1>1, TakeKnown
  <1> QED BY <1>1, <1>3, <1>4 DEF Subbing

\* The answer to a subscription.
LEMMA TakeSub ==
    ASSUME NEW A, NEW B, NEW Q, NEW R, NEW V, NEW I, NEW D, NEW D2, NEW H, NEW closed, NEW subscribed,
           Way(A, Q, R, V, I, H, closed), Subbing(A, Q, V, D, H, subscribed), Taken(A, B), NEW n,
           A[1].kind = "sub", n = A[1].name, n \in DOMAIN D,
           DOMAIN D2 = DOMAIN D, \A m \in DOMAIN D \ {n} : D2[m] = D[m], D2[n].pending = D[n].pending - 1,
           \A m \in DOMAIN D : D[m].pending \in Int
    PROVE  Subbing(B, Q, V, D2, H, subscribed)
  <1>0. 1 \in DOMAIN A
    BY ShiftIs
  <1> DEFINE x == A[1].of
  <1>1. x \in DOMAIN I /\ x # 0 /\ x \in Nat /\ I[x].kind = "sub"
    BY <1>0 DEF Way, Meant, Positive, GetsOf
  <1>2. Counted(A, Q, D) /\ TalkKnown(A, D) /\ AskedKnown(Q, D) /\ H \subseteq DOMAIN D /\ (~ subscribed => DOMAIN D = {} /\ V = {})
    BY DEF Subbing
  <1>3. x \in SubIds(A, Q, n)
    BY <1>0 DEF SubIds
  <1>4. x \notin SubIds(B, Q, n)
    <2> SUFFICES ASSUME x \in SubIds(B, Q, n) PROVE FALSE
      OBVIOUS
    <2>1. CASE \E i \in DOMAIN B : B[i].of = x /\ B[i].kind = "sub" /\ B[i].name = n
      <3>1. PICK i \in DOMAIN B : B[i].of = x /\ B[i].kind = "sub" /\ B[i].name = n
        BY <2>1
      <3>2. x < x \/ A[1].name # B[i].name
        BY <1>1, <3>1, TakeOther DEF Way
      <3>3. ~ (x < x)
        BY <1>1
      <3> QED BY <3>1, <3>2, <3>3
    <2>2. CASE \E j \in DOMAIN Q : Q[j].id = x /\ n \in Range(Q[j].names)
      <3>1. PICK j \in DOMAIN Q : Q[j].id = x /\ n \in Range(Q[j].names)
        BY <2>2
      <3>2. x < x \/ n \notin Range(Q[j].names)
        BY <1>0, <3>1 DEF Way, AnsweredFirst
      <3>3. ~ (x < x)
        BY <1>1
      <3> QED BY <3>1, <3>2, <3>3
    <2> QED BY <2>1, <2>2 DEF SubIds
  <1>5. ASSUME NEW m \in DOMAIN D2
        PROVE  IsFiniteSet(SubIds(B, Q, m)) /\ Cardinality(SubIds(B, Q, m)) <= D2[m].pending
    <2> DEFINE S == SubIds(A, Q, m)
               T == SubIds(B, Q, m)
    <2>1. IsFiniteSet(S) /\ Cardinality(S) <= D[m].pending /\ D[m].pending \in Int
      BY <1>2, <1>5 DEF Counted
    <2>2. T \subseteq S
      BY TakeSubIds
    <2>3. IsFiniteSet(T) /\ Cardinality(T) <= Cardinality(S) /\ Cardinality(T) \in Nat /\ Cardinality(S) \in Nat
      BY <2>1, <2>2, FS_Subset, FS_CardinalityType
    <2>4. CASE m # n
      BY <1>5, <2>1, <2>3, <2>4
    <2>5. CASE m = n
      <3>1. x \in S /\ x \notin T
        BY <1>3, <1>4, <2>5
      <3>2. Cardinality(T) # Cardinality(S)
        BY <2>1, <2>2, <3>1, FS_Subset
      <3>3. D2[m].pending = D[m].pending - 1
        BY <2>5
      <3>4. PICK s, t \in Nat : s = Cardinality(S) /\ t = Cardinality(T)
        BY <2>3
      <3>5. PICK p \in Int : p = D[m].pending
        BY <2>1
      <3>6. t <= p - 1
        BY ONLY s \in Nat, t \in Nat, p \in Int, <2>1, <2>3, <3>2, <3>4, <3>5
      <3> QED BY <2>3, <3>3, <3>4, <3>5, <3>6
    <2> QED BY <2>4, <2>5
  <1>6. Counted(B, Q, D2)
    BY <1>5 DEF Counted
  <1>7. TalkKnown(B, D2) /\ AskedKnown(Q, D2)
    <2>1. TalkKnown(B, D)
      BY <1>2, TakeKnown
    <2> QED BY <1>2, <2>1 DEF TalkKnown, AskedKnown
  <1> QED BY <1>2, <1>6, <1>7 DEF Subbing

\* After an unsubscribe there is nothing but subscriptions.
LEMMA AfterUnsub ==
    ASSUME NEW A, NEW B, NEW Q, NEW R, NEW V, NEW I, NEW H, NEW closed, Way(A, Q, R, V, I, H, closed), Taken(A, B),
           A[1].kind = "unsub"
    PROVE  /\ R \cup V = {}
           /\ \A i \in DOMAIN B : B[i].kind # "unsub"
           /\ \A j \in DOMAIN Q : Q[j].kind = "sub"
  <1>0. 1 \in DOMAIN A
    BY ShiftIs
  <1> DEFINE x == A[1].of
  <1>1. x \in DOMAIN I /\ x # 0 /\ x \in Nat /\ I[x].kind = "unsub" /\ I[x].open
    BY <1>0 DEF Way, Meant, Positive, GetsOf, OneUnsub
  <1>2. \A id \in DOMAIN I : x < id => I[id].kind = "sub"
    BY <1>1 DEF Way, OneUnsub
  <1>3. ASSUME NEW i \in DOMAIN B, B[i].of # 0 PROVE B[i].of \in DOMAIN I /\ I[B[i].of].kind = "sub"
    <2>1. x < B[i].of
      BY <1>1, <1>3, TakeOther DEF Way
    <2>2. Meant(B, I)
      BY TakeMeant DEF Way
    <2>3. B[i].of \in DOMAIN I
      BY <1>3, <2>2 DEF Meant, GetsOf
    <2> QED BY <1>2, <2>1, <2>3
  <1>4. ASSUME NEW j \in DOMAIN Q PROVE Q[j].kind = "sub" /\ I[Q[j].id].kind = "sub"
    <2>1. x < Q[j].id
      BY <1>0 DEF Way, AnsweredFirst
    <2>2. Q[j].id \in DOMAIN I /\ Q[j].kind = I[Q[j].id].kind
      BY DEF Way, Asking
    <2> QED BY <1>2, <2>1, <2>2
  <1>5. ASSUME NEW w \in R \cup V PROVE FALSE
    <2>1. w \in DOMAIN I /\ I[w].kind = "get" /\ w # 0
      BY DEF Way, GetsOf, Positive
    <2>2. CASE \E i \in DOMAIN A : A[i].of = w
      <3>1. PICK i \in DOMAIN A : A[i].of = w
        BY <2>2
      <3>2. i # 1
        BY <1>1, <2>1, <3>1
      <3>3. i - 1 \in DOMAIN B /\ B[i - 1] = A[i]
        BY <3>2, ShiftIs
      <3> QED BY <1>3, <2>1, <3>1, <3>3
    <2>3. CASE \E j \in DOMAIN Q : Q[j].id = w
      BY <1>4, <2>1, <2>3
    <2> QED BY <2>2, <2>3 DEF Way, OnWay
  <1>6. ASSUME NEW i \in DOMAIN B, B[i].kind = "unsub" PROVE FALSE
    <2>1. Meant(B, I)
      BY TakeMeant DEF Way
    <2>2. B[i].of \in DOMAIN I /\ I[B[i].of].kind = "unsub" /\ B[i].of # 0
      BY <1>6, <2>1 DEF Meant, Way, Positive
    <2> QED BY <1>3, <2>2
  <1> QED BY <1>4, <1>5, <1>6

\* The answer to an unsubscribe takes the name away that no subscription is on its way for.
LEMMA TakeUnsub ==
    ASSUME NEW A, NEW B, NEW Q, NEW R, NEW V, NEW I, NEW D, NEW D2, NEW H, NEW closed, NEW subscribed, NEW later,
           Way(A, Q, R, V, I, H, closed), Subbing(A, Q, V, D, H, subscribed), Taken(A, B), NEW n,
           A[1].kind = "unsub", n = A[1].name, n \in DOMAIN D, D[n].pending = 0,
           DOMAIN D2 = DOMAIN D \ {n}, \A m \in DOMAIN D \ {n} : D2[m] = D[m],
           \A m \in DOMAIN D : D[m].pending \in Int, later = subscribed \/ DOMAIN D2 = {}
    PROVE  Subbing(B, Q, V, D2, H, later)
  <1>0. 1 \in DOMAIN A /\ DOMAIN A \subseteq Nat \ {0}
    BY ShiftIs
  <1>1. Counted(A, Q, D) /\ TalkKnown(A, D) /\ AskedKnown(Q, D) /\ H \subseteq DOMAIN D /\ (~ subscribed => DOMAIN D = {} /\ V = {})
    BY DEF Subbing
  <1>2. SubIds(A, Q, n) = {}
    <2>1. IsFiniteSet(SubIds(A, Q, n)) /\ Cardinality(SubIds(A, Q, n)) <= 0
      BY <1>1 DEF Counted
    <2>2. Cardinality(SubIds(A, Q, n)) = 0
      BY <2>1, FS_CardinalityType
    <2> QED BY <2>1, <2>2, FS_EmptySet
  <1>3. V = {} /\ (\A i \in DOMAIN B : B[i].kind # "unsub") /\ \A j \in DOMAIN Q : Q[j].kind = "sub"
    BY AfterUnsub
  <1>4. \A k \in DOMAIN A : A[k].kind = "sub" => A[k].name # n
    BY <1>2 DEF SubIds
  <1>5. n \notin H /\ \A k \in DOMAIN A : 1 < k /\ A[k].kind = "message" => A[k].name # n
    BY <1>0, <1>4 DEF Way, Quiet
  <1>6. ASSUME NEW i \in DOMAIN B, SubTalk(B[i]) PROVE B[i].name \in DOMAIN D2
    <2>1. i + 1 \in DOMAIN A /\ B[i] = A[i + 1] /\ 1 < i + 1
      BY ShiftIs
    <2>2. B[i].name \in DOMAIN D
      BY <1>1, <1>6, <2>1 DEF TalkKnown
    <2>3. B[i].name # n
      BY <1>3, <1>4, <1>5, <1>6, <2>1 DEF SubTalk
    <2> QED BY <2>2, <2>3
  <1>7. ASSUME NEW j \in DOMAIN Q PROVE Range(Q[j].names) \subseteq DOMAIN D2
    <2>1. n \notin Range(Q[j].names)
      BY <1>2, <1>3 DEF SubIds
    <2> QED BY <1>1, <2>1 DEF AskedKnown
  <1>8. Counted(B, Q, D2)
    <2>1. Counted(A, Q, D2)
      BY <1>1 DEF Counted
    <2>2. \A m \in DOMAIN D2 : SubIds(B, Q, m) \subseteq SubIds(A, Q, m)
      BY TakeSubIds
    <2>3. \A m \in DOMAIN D2 : D2[m].pending \in Int
      OBVIOUS
    <2> QED BY <2>1, <2>2, <2>3, FewerCounted
  <1>9. TalkKnown(B, D2) /\ AskedKnown(Q, D2) /\ H \subseteq DOMAIN D2
    BY <1>1, <1>5, <1>6, <1>7 DEF TalkKnown, AskedKnown
  <1>10. ~ later => DOMAIN D2 = {} /\ V = {}
    BY <1>1, <1>3
  <1> QED BY <1>8, <1>9, <1>10 DEF Subbing

-----------------------------------------------------------------------------
(* The server answers and publishes. *)

\* What the server leaves of what it is asked, having answered the first, or one name of it.
LeftOf(Q, P, I, name) ==
    /\ 1 \in DOMAIN Q /\ DOMAIN Q \subseteq Nat \ {0}
    /\ \A j \in DOMAIN P : \E l \in DOMAIN Q :
          /\ P[j].id = Q[l].id /\ P[j].kind = Q[l].kind /\ Range(P[j].names) \subseteq Range(Q[l].names)
          /\ l = 1 => name \notin Range(P[j].names) /\ Q[1].kind = "sub"
    /\ \A l \in DOMAIN Q : l # 1 => \E j \in DOMAIN P : P[j].id = Q[l].id
    /\ AskedInOrder(P) /\ Asking(P, I)

AskedRight(c, I) ==
    /\ c.id \in DOMAIN I /\ c.kind = I[c.id].kind
    /\ c.kind = "get" => Range(c.names) = {}
    /\ c.kind # "get" => Range(c.names) # {}
    /\ c.kind = "unsub" => Len(c.names) = 1
    /\ \A k, l \in DOMAIN c.names : c.names[k] = c.names[l] => k = l
LEMMA AskingIs == ASSUME NEW Q, NEW I PROVE Asking(Q, I) <=> \A j \in DOMAIN Q : AskedRight(Q[j], I)
  <1>1. ASSUME Asking(Q, I), NEW j \in DOMAIN Q PROVE AskedRight(Q[j], I)
    BY <1>1 DEF Asking, AskedRight
  <1>2. ASSUME \A j \in DOMAIN Q : AskedRight(Q[j], I) PROVE Asking(Q, I)
    BY <1>2 DEF Asking, AskedRight
  <1> QED BY <1>1, <1>2

LEMMA TakenLeaves ==
    ASSUME NEW Q, NEW P, NEW I, NEW name, Taken(Q, P), Asking(Q, I), AskedInOrder(Q)
    PROVE  LeftOf(Q, P, I, name)
  <1>1. AskedInOrder(P)
    <2> SUFFICES ASSUME NEW j \in DOMAIN P, NEW k \in DOMAIN P, j < k PROVE P[j].id < P[k].id
      BY DEF AskedInOrder
    <2>1. j + 1 \in DOMAIN Q /\ k + 1 \in DOMAIN Q /\ P[j] = Q[j + 1] /\ P[k] = Q[k + 1] /\ j \in Nat /\ k \in Nat
      BY ShiftIs
    <2>2. j + 1 < k + 1
      BY ONLY <2>1, j < k
    <2> QED BY <2>1, <2>2 DEF AskedInOrder
  <1>2. Asking(P, I)
    BY ShiftIs, AskingIs
  <1>3. ASSUME NEW j \in DOMAIN P
        PROVE  \E l \in DOMAIN Q : /\ P[j].id = Q[l].id /\ P[j].kind = Q[l].kind /\ Range(P[j].names) \subseteq Range(Q[l].names)
                                   /\ l = 1 => name \notin Range(P[j].names) /\ Q[1].kind = "sub"
    <2>1. j + 1 \in DOMAIN Q /\ P[j] = Q[j + 1] /\ 1 < j + 1 /\ j + 1 \in Nat
      BY ShiftIs
    <2>2. j + 1 # 1
      BY ONLY <2>1
    <2> QED BY <2>1, <2>2
  <1>4. ASSUME NEW l \in DOMAIN Q, l # 1 PROVE \E j \in DOMAIN P : P[j].id = Q[l].id
    BY <1>4, ShiftIs
  <1> QED BY <1>1, <1>2, <1>3, <1>4, ShiftIs DEF LeftOf

LEMMA TailNames ==
    ASSUME NEW ns \in Seq(Names), ns # <<>>, Len(ns) # 1, \A k, l \in DOMAIN ns : ns[k] = ns[l] => k = l
    PROVE  /\ Range(Tail(ns)) \subseteq Range(ns) /\ Range(Tail(ns)) # {} /\ ns[1] \notin Range(Tail(ns))
           /\ \A k, l \in DOMAIN Tail(ns) : Tail(ns)[k] = Tail(ns)[l] => k = l
  <1>1. Tail(ns) \in Seq(Names) /\ Len(ns) \in Nat \ {0} /\ Len(Tail(ns)) = Len(ns) - 1
        /\ \A i \in 1..Len(ns) - 1 : Tail(ns)[i] = ns[i + 1]
    BY SeqHead
  <1>2. DOMAIN ns = 1..Len(ns) /\ DOMAIN Tail(ns) = 1..Len(ns) - 1
    BY <1>1
  <1>3. PICK m \in Nat \ {0} : m = Len(ns)
    BY <1>1
  <1>4. m # 1 /\ (\A i \in 1..m - 1 : i + 1 \in 1..m /\ i + 1 # 1 /\ i \in Nat) /\ 1 \in 1..m
    BY <1>3
  <1>5. 1 \in 1..m - 1
    BY ONLY m \in Nat \ {0}, <1>4
  <1>6. \A i \in 1..m - 1 : Tail(ns)[i] = ns[i + 1]
    BY <1>1, <1>3
  <1>7. DOMAIN ns = 1..m /\ DOMAIN Tail(ns) = 1..m - 1
    BY <1>2, <1>3
  <1>8. Range(Tail(ns)) \subseteq Range(ns) /\ Range(Tail(ns)) # {}
    <2>1. Tail(ns)[1] \in Range(Tail(ns))
      BY <1>5, <1>7 DEF Range
    <2>2. ns # <<>> => Range(Tail(ns)) \subseteq Range(ns)
      BY RangeParts
    <2> QED BY <2>1, <2>2
  <1>9. ns[1] \notin Range(Tail(ns))
    BY <1>4, <1>6, <1>7 DEF Range
  <1>10. ASSUME NEW k \in DOMAIN Tail(ns), NEW l \in DOMAIN Tail(ns), Tail(ns)[k] = Tail(ns)[l] PROVE k = l
    <2>1. k + 1 \in DOMAIN ns /\ l + 1 \in DOMAIN ns /\ ns[k + 1] = ns[l + 1] /\ k \in Nat /\ l \in Nat
      BY <1>4, <1>6, <1>7, <1>10
    <2>2. k + 1 = l + 1
      BY <2>1
    <2> QED BY ONLY <2>1, <2>2
  <1> QED BY <1>8, <1>9, <1>10

LEMMA LedLeaves ==
    ASSUME NEW Q, NEW P, NEW I, NEW name, Led(Q, P), Asking(Q, I), AskedInOrder(Q), Q[1].kind = "sub",
           Q[1].names \in Seq(Names), Q[1].names # <<>>, Len(Q[1].names) # 1, name = Q[1].names[1],
           P[1] = [kind |-> Q[1].kind, names |-> Tail(Q[1].names), id |-> Q[1].id]
    PROVE  LeftOf(Q, P, I, name)
  <1>1. 1 \in DOMAIN Q /\ DOMAIN Q \subseteq Nat \ {0} /\ DOMAIN P = DOMAIN Q /\ \A j \in DOMAIN Q : j # 1 => P[j] = Q[j]
    <2>1. PICK n \in Nat \ {0} : n = Len(Q)
      BY DEF Led
    <2>2. 1 \in 1..n /\ 1..n \subseteq Nat \ {0}
      BY <2>1
    <2> QED BY <2>1, <2>2 DEF Led
  <1>2. P[1].id = Q[1].id /\ P[1].kind = "sub" /\ P[1].names = Tail(Q[1].names)
    OBVIOUS
  <1>3. \A k, l \in DOMAIN Q[1].names : Q[1].names[k] = Q[1].names[l] => k = l
    BY <1>1 DEF Asking
  <1>4. /\ Range(P[1].names) \subseteq Range(Q[1].names) /\ Range(P[1].names) # {} /\ name \notin Range(P[1].names)
        /\ \A k, l \in DOMAIN P[1].names : P[1].names[k] = P[1].names[l] => k = l
    BY ONLY <1>2, <1>3, TailNames, Q[1].names \in Seq(Names), Q[1].names # <<>>, Len(Q[1].names) # 1, name = Q[1].names[1]
  <1>5. AskedInOrder(P)
    BY <1>1, <1>2 DEF AskedInOrder
  <1>6. Asking(P, I)
    <2> SUFFICES ASSUME NEW j \in DOMAIN P PROVE AskedRight(P[j], I)
      BY AskingIs
    <2>1. CASE j = 1
      BY <1>1, <1>2, <1>4, <2>1, AskingIs DEF AskedRight
    <2>2. CASE j # 1
      BY <1>1, <2>2, AskingIs
    <2> QED BY <2>1, <2>2
  <1>7. ASSUME NEW j \in DOMAIN P
        PROVE  \E l \in DOMAIN Q : /\ P[j].id = Q[l].id /\ P[j].kind = Q[l].kind /\ Range(P[j].names) \subseteq Range(Q[l].names)
                                   /\ l = 1 => name \notin Range(P[j].names) /\ Q[1].kind = "sub"
    BY <1>1, <1>2, <1>4
  <1> QED BY <1>1, <1>5, <1>6, <1>7 DEF LeftOf

\* B is A with t at its end, at n.
Ends(A, B, t, n) ==
    /\ n \in Nat \ {0} /\ DOMAIN A \subseteq Nat \ {0} /\ DOMAIN B = DOMAIN A \cup {n} /\ n \notin DOMAIN A
    /\ B[n] = t /\ \A i \in DOMAIN A : i < n /\ B[i] = A[i]
LEMMA AddedEnds == ASSUME NEW A, NEW B, NEW t, Added(A, B, t) PROVE \E n : Ends(A, B, t, n)
  <1>1. PICK m \in Nat : m = Len(A)
    BY DEF Added
  <1>2. PICK n \in Nat : n = m + 1
    OBVIOUS
  <1>3. DOMAIN A = 1..m /\ DOMAIN B = 1..n /\ B[n] = t /\ \A i \in 1..m : B[i] = A[i]
    BY <1>1, <1>2 DEF Added
  <1>4. n \in Nat \ {0} /\ 1..m \subseteq Nat \ {0} /\ 1..n = 1..m \cup {n} /\ n \notin 1..m /\ \A i \in 1..m : i < n
    BY <1>2
  <1> QED BY <1>3, <1>4 DEF Ends

\* Parts that hold with one more answer.
LEMMA EndMeant ==
    ASSUME NEW A, NEW B, NEW t, NEW n, NEW I, Ends(A, B, t, n), Meant(A, I),
           \/ t.of \in GetsOf(I) /\ t.kind \in {"reply", "error"}
           \/ t.of \in DOMAIN I /\ t.kind = I[t.of].kind /\ t.kind \in {"sub", "unsub"}
           \/ t.of = 0 /\ t.kind \in {"message", "error"}
    PROVE  Meant(B, I)
  <1> SUFFICES ASSUME NEW i \in DOMAIN B
               PROVE  \/ B[i].of \in GetsOf(I) /\ B[i].kind \in {"reply", "error"}
                      \/ B[i].of \in DOMAIN I /\ B[i].kind = I[B[i].of].kind /\ B[i].kind \in {"sub", "unsub"}
                      \/ B[i].of = 0 /\ B[i].kind \in {"message", "error"}
    BY DEF Meant
  <1>1. CASE i = n
    BY <1>1 DEF Ends
  <1>2. CASE i \in DOMAIN A
    <2>1. B[i] = A[i]
      BY <1>2 DEF Ends
    <2> QED BY <1>2, <2>1 DEF Meant
  <1> QED BY <1>1, <1>2 DEF Ends
LEMMA EndOrder ==
    ASSUME NEW A, NEW B, NEW t, NEW n, Ends(A, B, t, n), AnswersInOrder(A),
           t.of = 0 \/ \A i \in DOMAIN A : A[i].of < t.of \/ (A[i].of = t.of /\ A[i].kind = "sub" /\ A[i].name # t.name)
    PROVE  AnswersInOrder(B)
  <1> SUFFICES ASSUME NEW i \in DOMAIN B, NEW k \in DOMAIN B, i < k, B[i].of # 0, B[k].of # 0
               PROVE  \/ B[i].of < B[k].of
                      \/ B[i].of = B[k].of /\ B[i].kind = "sub" /\ B[i].name # B[k].name
    BY DEF AnswersInOrder
  <1>1. CASE i = n
    <2>1. k \in Nat /\ n \in Nat /\ (k = n \/ k < n)
      BY DEF Ends
    <2> QED BY <1>1, <2>1
  <1>2. CASE i \in DOMAIN A /\ k = n
    <2>1. B[i] = A[i] /\ B[k] = t
      BY <1>2 DEF Ends
    <2> QED BY <1>2, <2>1
  <1>3. CASE i \in DOMAIN A /\ k \in DOMAIN A
    <2>1. B[i] = A[i] /\ B[k] = A[k]
      BY <1>3 DEF Ends
    <2> QED BY <1>3, <2>1 DEF AnswersInOrder
  <1> QED BY <1>1, <1>2, <1>3 DEF Ends
LEMMA EndErrors ==
    ASSUME NEW A, NEW B, NEW t, NEW n, NEW closed, Ends(A, B, t, n), ErrorLast(A, FALSE), t.of = 0 /\ t.kind = "error" => closed
    PROVE  ErrorLast(B, closed)
  <1> SUFFICES ASSUME NEW i \in DOMAIN B, B[i].of = 0, B[i].kind = "error"
               PROVE  closed /\ \A k \in DOMAIN B : k <= i
    BY DEF ErrorLast
  <1>1. i \notin DOMAIN A
    BY DEF Ends, ErrorLast
  <1>2. i = n /\ B[i] = t
    BY <1>1 DEF Ends
  <1>3. \A k \in DOMAIN B : k <= n
    BY DEF Ends
  <1> QED BY <1>2, <1>3
LEMMA EndReplies ==
    ASSUME NEW A, NEW B, NEW t, NEW n, NEW R, Ends(A, B, t, n), RepliesFirst(A, R),
           SubTalk(t) => \A r \in R : \E k \in DOMAIN A : A[k].of = r
    PROVE  RepliesFirst(B, R)
  <1> SUFFICES ASSUME NEW i \in DOMAIN B, NEW r \in R, SubTalk(B[i]) PROVE \E k \in DOMAIN B : k < i /\ B[k].of = r
    BY DEF RepliesFirst
  <1>1. CASE i = n
    <2>1. PICK k \in DOMAIN A : A[k].of = r
      BY <1>1 DEF Ends
    <2> QED BY <1>1, <2>1 DEF Ends
  <1>2. CASE i \in DOMAIN A
    <2>1. SubTalk(A[i])
      BY <1>2 DEF Ends
    <2>2. PICK k \in DOMAIN A : k < i /\ A[k].of = r
      BY <1>2, <2>1 DEF RepliesFirst
    <2> QED BY <2>2 DEF Ends
  <1> QED BY <1>1, <1>2 DEF Ends
LEMMA EndSent ==
    ASSUME NEW A, NEW B, NEW t, NEW n, NEW R, NEW H, NEW H2, NEW closed, Ends(A, B, t, n), RepliesSent(A, R, H, FALSE),
           H # {} \/ \A r \in R : \E i \in DOMAIN A : A[i].of = r
    PROVE  RepliesSent(B, R, H2, closed)
  <1> SUFFICES ASSUME NEW r \in R PROVE \E i \in DOMAIN B : B[i].of = r
    BY DEF RepliesSent
  <1>1. PICK i \in DOMAIN A : A[i].of = r
    BY DEF RepliesSent
  <1> QED BY <1>1 DEF Ends

\* Every answered, or still asked: the callbacks that wait are on their way.
LEMMA ServeOnWay ==
    ASSUME NEW A, NEW B, NEW t, NEW n, NEW Q, NEW P, NEW W, NEW I, NEW name, Ends(A, B, t, n), LeftOf(Q, P, I, name),
           OnWay(A, Q, W), t.of = Q[1].id
    PROVE  OnWay(B, P, W)
  <1> SUFFICES ASSUME NEW w \in W PROVE (\E i \in DOMAIN B : B[i].of = w) \/ \E j \in DOMAIN P : P[j].id = w
    BY DEF OnWay
  <1>1. CASE \E i \in DOMAIN A : A[i].of = w
    BY <1>1 DEF Ends
  <1>2. CASE \E l \in DOMAIN Q : Q[l].id = w
    <2>1. PICK l \in DOMAIN Q : Q[l].id = w
      BY <1>2
    <2>2. CASE l = 1
      <3>1. n \in DOMAIN B /\ B[n].of = w
        BY <2>1, <2>2 DEF Ends
      <3> QED BY <3>1
    <2>3. CASE l # 1
      BY <2>1, <2>3 DEF LeftOf
    <2> QED BY <2>2, <2>3
  <1> QED BY <1>1, <1>2 DEF OnWay
LEMMA EndWaits ==
    ASSUME NEW A, NEW B, NEW t, NEW n, NEW I, NEW W, Ends(A, B, t, n), Waits(A, I, W), t.of \in GetsOf(I) => t.of \in W
    PROVE  Waits(B, I, W)
  <1> SUFFICES ASSUME NEW i \in DOMAIN B, B[i].of \in GetsOf(I) PROVE B[i].of \in W
    BY DEF Waits
  <1>1. CASE i = n
    BY <1>1 DEF Ends
  <1>2. CASE i \in DOMAIN A
    BY <1>2 DEF Ends, Waits
  <1> QED BY <1>1, <1>2 DEF Ends
LEMMA EndFirst ==
    ASSUME NEW A, NEW B, NEW t, NEW n, NEW P, Ends(A, B, t, n), AnsweredFirst(A, P),
           \A j \in DOMAIN P : t.of < P[j].id \/ (t.of = P[j].id /\ t.kind = "sub" /\ t.name \notin Range(P[j].names))
    PROVE  AnsweredFirst(B, P)
  <1> SUFFICES ASSUME NEW i \in DOMAIN B, NEW j \in DOMAIN P
               PROVE  \/ B[i].of < P[j].id
                      \/ B[i].of = P[j].id /\ B[i].kind = "sub" /\ B[i].name \notin Range(P[j].names)
    BY DEF AnsweredFirst
  <1>1. CASE i = n
    <2>1. B[i] = t
      BY <1>1 DEF Ends
    <2> QED BY <2>1
  <1>2. CASE i \in DOMAIN A
    <2>1. B[i] = A[i]
      BY <1>2 DEF Ends
    <2> QED BY <1>2, <2>1 DEF AnsweredFirst
  <1> QED BY <1>1, <1>2 DEF Ends
LEMMA EndUnsub ==
    ASSUME NEW A, NEW B, NEW t, NEW n, NEW P, NEW I, Ends(A, B, t, n), OneUnsub(A, P, I), t.kind = "unsub" => I[t.of].open
    PROVE  OneUnsub(B, P, I)
  <1> SUFFICES ASSUME NEW i \in DOMAIN B, B[i].kind = "unsub" PROVE I[B[i].of].open
    BY DEF OneUnsub
  <1>1. CASE i = n
    BY <1>1 DEF Ends
  <1>2. CASE i \in DOMAIN A
    BY <1>2 DEF Ends, OneUnsub
  <1> QED BY <1>1, <1>2 DEF Ends

\* After one more answer the quiet names are quiet.
LEMMA EndQuiet ==
    ASSUME NEW A, NEW B, NEW t, NEW n, NEW H, NEW H2, Ends(A, B, t, n), Quiet(A, H),
           \/ t.kind \in {"reply", "error"} /\ H2 = H
           \/ t.kind = "message" /\ t.name \in H /\ H2 = H
           \/ t.kind = "sub" /\ H2 = H \cup {t.name}
           \/ t.kind = "unsub" /\ H2 = H \ {t.name}
    PROVE  Quiet(B, H2)
  <1> SUFFICES ASSUME NEW i \in DOMAIN B, B[i].kind = "unsub",
                      \A k \in DOMAIN B : i < k /\ B[k].kind = "sub" => B[k].name # B[i].name
               PROVE  B[i].name \notin H2 /\ \A k \in DOMAIN B : i < k /\ B[k].kind = "message" => B[k].name # B[i].name
    BY DEF Quiet
  <1>1. CASE i = n
    <2>1. \A k \in DOMAIN B : ~ (i < k)
      <3> SUFFICES ASSUME NEW k \in DOMAIN B, n < k PROVE FALSE
        BY <1>1
      <3>1. k = n \/ (k < n /\ k \in Nat)
        BY DEF Ends
      <3>2. n \in Nat
        BY DEF Ends
      <3> QED BY <3>1, <3>2
    <2>2. B[i] = t
      BY <1>1 DEF Ends
    <2> QED BY <2>1, <2>2
  <1>2. CASE i \in DOMAIN A
    <2>1. B[i] = A[i] /\ i < n /\ B[n] = t /\ n \in DOMAIN B /\ DOMAIN B = DOMAIN A \cup {n}
          /\ \A k \in DOMAIN A : B[k] = A[k]
      BY <1>2 DEF Ends
    <2>2. \A k \in DOMAIN A : i < k /\ A[k].kind = "sub" => A[k].name # A[i].name
      BY <2>1
    <2>3. A[i].name \notin H /\ \A k \in DOMAIN A : i < k /\ A[k].kind = "message" => A[k].name # A[i].name
      BY <1>2, <2>1, <2>2 DEF Quiet
    <2>4. t.kind = "sub" => t.name # A[i].name
      BY <2>1
    <2>5. A[i].name \notin H2
      BY <2>3, <2>4
    <2>6. ASSUME NEW k \in DOMAIN B, i < k, B[k].kind = "message" PROVE B[k].name # B[i].name
      <3>1. CASE k = n
        <4>1. t.kind = "message"
          BY <2>1, <2>6, <3>1
        <4>2. t.name \in H
          BY <4>1
        <4> QED BY <2>1, <2>3, <3>1, <4>2
      <3>2. CASE k \in DOMAIN A
        BY <2>1, <2>3, <2>6, <3>2
      <3> QED BY <2>1, <3>1, <3>2
    <2> QED BY <2>1, <2>5, <2>6
  <1> QED BY <1>1, <1>2 DEF Ends

\* What holds of all that is asked holds of what is left.
LEMMA LeftParts ==
    ASSUME NEW A, NEW Q, NEW P, NEW I, NEW name, NEW R, NEW W, NEW closed, LeftOf(Q, P, I, name)
    PROVE  /\ AnsweredFirst(A, Q) => AnsweredFirst(A, P)
           /\ WaitsYet(Q, I, W, closed) => WaitsYet(P, I, W, closed)
           /\ RepliesAsked(Q, R) => RepliesAsked(P, R)
           /\ OneUnsub(A, Q, I) => OneUnsub(A, P, I)
  <1>1. ASSUME NEW j \in DOMAIN P
        PROVE  \E l \in DOMAIN Q : P[j].id = Q[l].id /\ P[j].kind = Q[l].kind /\ Range(P[j].names) \subseteq Range(Q[l].names)
    BY DEF LeftOf
  <1>2. AnsweredFirst(A, Q) => AnsweredFirst(A, P)
    <2> SUFFICES ASSUME AnsweredFirst(A, Q), NEW i \in DOMAIN A, NEW j \in DOMAIN P
                 PROVE  \/ A[i].of < P[j].id
                        \/ A[i].of = P[j].id /\ A[i].kind = "sub" /\ A[i].name \notin Range(P[j].names)
      BY DEF AnsweredFirst
    <2>1. PICK l \in DOMAIN Q : P[j].id = Q[l].id /\ P[j].kind = Q[l].kind /\ Range(P[j].names) \subseteq Range(Q[l].names)
      BY <1>1
    <2>2. A[i].of < Q[l].id \/ (A[i].of = Q[l].id /\ A[i].kind = "sub" /\ A[i].name \notin Range(Q[l].names))
      BY DEF AnsweredFirst
    <2> QED BY <2>1, <2>2
  <1>3. WaitsYet(Q, I, W, closed) => WaitsYet(P, I, W, closed)
    BY <1>1 DEF WaitsYet
  <1>4. RepliesAsked(Q, R) => RepliesAsked(P, R)
    BY <1>1 DEF RepliesAsked
  <1>5. OneUnsub(A, Q, I) => OneUnsub(A, P, I)
    BY <1>1 DEF OneUnsub
  <1> QED BY <1>2, <1>3, <1>4, <1>5

\* The server answers a command, or one name of it.
LEMMA ServeWay ==
    ASSUME NEW A, NEW B, NEW t, NEW Q, NEW P, NEW R, NEW V, NEW I, NEW H, NEW H2, NEW name,
           Way(A, Q, R, V, I, H, FALSE), Added(A, B, t), LeftOf(Q, P, I, name), t.of = Q[1].id,
           \/ t.kind \in {"reply", "error"} /\ Q[1].kind = "get" /\ H2 = H
           \/ t.kind = "sub" /\ Q[1].kind = "sub" /\ t.name = name /\ name \in Range(Q[1].names) /\ H2 = H \cup {name}
           \/ t.kind = "unsub" /\ Q[1].kind = "unsub" /\ t.name = name /\ name \in Range(Q[1].names) /\ H2 = H \ {name}
    PROVE  Way(B, P, R, V, I, H2, FALSE)
  <1>0. 1 \in DOMAIN Q /\ DOMAIN Q \subseteq Nat \ {0}
    BY DEF LeftOf
  <1> DEFINE W == R \cup V
  <1>1. Positive(I) /\ Meant(A, I) /\ Asking(Q, I) /\ AnswersInOrder(A) /\ AnsweredFirst(A, Q) /\ AskedInOrder(Q)
    BY DEF Way
  <1>2. W \subseteq GetsOf(I) /\ OnWay(A, Q, W) /\ Waits(A, I, W) /\ WaitsYet(Q, I, W, FALSE) /\ ErrorLast(A, FALSE)
    BY DEF Way
  <1>3. RepliesFirst(A, R) /\ RepliesSent(A, R, H, FALSE) /\ RepliesAsked(Q, R) /\ Quiet(A, H) /\ OneUnsub(A, Q, I)
    BY DEF Way
  <1>4. PICK n : Ends(A, B, t, n)
    BY AddedEnds
  <1>5. t.of \in DOMAIN I /\ t.of \in Nat /\ t.of # 0 /\ I[t.of].kind = Q[1].kind
    BY <1>0, <1>1 DEF Asking, Positive
  <1>6. Meant(B, I)
    <2>1. \/ t.of \in GetsOf(I) /\ t.kind \in {"reply", "error"}
          \/ t.of \in DOMAIN I /\ t.kind = I[t.of].kind /\ t.kind \in {"sub", "unsub"}
      BY <1>5 DEF GetsOf
    <2> QED BY <1>1, <1>4, <2>1, EndMeant
  <1>7. AnswersInOrder(B)
    <2>1. ASSUME NEW i \in DOMAIN A PROVE A[i].of < t.of \/ (A[i].of = t.of /\ A[i].kind = "sub" /\ A[i].name # t.name)
      <3>1. A[i].of < Q[1].id \/ (A[i].of = Q[1].id /\ A[i].kind = "sub" /\ A[i].name \notin Range(Q[1].names))
        BY <1>0, <1>1 DEF AnsweredFirst
      <3>2. A[i].of = Q[1].id /\ A[i].kind = "sub" => Q[1].kind = "sub"
        BY <1>0, <1>1, <1>5 DEF Meant, GetsOf
      <3> QED BY <3>1, <3>2
    <2> QED BY <1>1, <1>4, <2>1, EndOrder
  <1>8. AnsweredFirst(B, P)
    <2>1. AnsweredFirst(A, P)
      BY <1>1, LeftParts
    <2>2. ASSUME NEW j \in DOMAIN P
          PROVE  t.of < P[j].id \/ (t.of = P[j].id /\ t.kind = "sub" /\ t.name \notin Range(P[j].names))
      <3>1. PICK l \in DOMAIN Q : P[j].id = Q[l].id /\ (l = 1 => name \notin Range(P[j].names) /\ Q[1].kind = "sub")
        BY DEF LeftOf
      <3>2. CASE l = 1
        BY <3>1, <3>2
      <3>3. CASE l # 1
        <4>1. l \in Nat \ {0}
          BY <1>0
        <4>2. 1 < l
          BY <4>1, <3>3
        <4> QED BY <1>0, <1>1, <3>1, <4>2 DEF AskedInOrder
      <3> QED BY <3>2, <3>3
    <2> QED BY <1>4, <2>1, <2>2, EndFirst
  <1>9. OnWay(B, P, W) /\ WaitsYet(P, I, W, FALSE) /\ RepliesAsked(P, R) /\ AskedInOrder(P) /\ Asking(P, I)
    <2>1. OnWay(B, P, W)
      BY <1>2, <1>4, ServeOnWay
    <2>2. WaitsYet(P, I, W, FALSE) /\ RepliesAsked(P, R)
      BY <1>2, <1>3, LeftParts
    <2> QED BY <2>1, <2>2 DEF LeftOf
  <1>10. Waits(B, I, W)
    <2>1. t.of \in GetsOf(I) => t.of \in W
      BY <1>0, <1>2 DEF WaitsYet
    <2> QED BY <1>2, <1>4, <2>1, EndWaits
  <1>11. ErrorLast(B, FALSE)
    BY <1>2, <1>4, <1>5, EndErrors
  <1>12. ASSUME Q[1].kind # "get" PROVE \A r \in R : \E i \in DOMAIN A : A[i].of = r
    <2> SUFFICES ASSUME NEW r \in R PROVE \E i \in DOMAIN A : A[i].of = r
      OBVIOUS
    <2>1. r < Q[1].id /\ r \in Nat /\ Q[1].id \in Nat
      BY <1>0, <1>1, <1>2, <1>3, <1>5, <1>12 DEF RepliesAsked, GetsOf, Positive
    <2>2. ASSUME NEW l \in DOMAIN Q, Q[l].id = r PROVE FALSE
      <3>1. l \in Nat \ {0} /\ (l = 1 \/ 1 < l)
        BY <1>0
      <3>2. l = 1 \/ Q[1].id < Q[l].id
        BY <1>0, <1>1, <3>1 DEF AskedInOrder
      <3> QED BY <2>1, <2>2, <3>2
    <2> QED BY <1>2, <2>2 DEF OnWay
  <1>13. RepliesFirst(B, R)
    <2>1. SubTalk(t) => Q[1].kind # "get"
      BY DEF SubTalk
    <2> QED BY <1>3, <1>4, <1>12, <2>1, EndReplies
  <1>14. RepliesSent(B, R, H2, FALSE)
    <2>1. CASE Q[1].kind = "get"
      <3>1. H2 = H
        BY <2>1
      <3>2. CASE H # {}
        BY <1>3, <1>4, <3>2, EndSent
      <3>3. CASE H = {}
        BY <3>1, <3>3 DEF RepliesSent
      <3> QED BY <3>2, <3>3
    <2>2. CASE Q[1].kind # "get"
      BY <1>3, <1>4, <1>12, <2>2, EndSent
    <2> QED BY <2>1, <2>2
  <1>15. Quiet(B, H2)
    BY <1>3, <1>4, EndQuiet
  <1>16. OneUnsub(B, P, I)
    <2>1. OneUnsub(A, P, I)
      BY <1>3, LeftParts
    <2>2. t.kind = "unsub" => I[t.of].open
      BY <1>0, <1>3 DEF OneUnsub
    <2> QED BY <1>4, <2>1, <2>2, EndUnsub
  <1> QED BY <1>1, <1>2, <1>6, <1>7, <1>8, <1>9, <1>10, <1>11, <1>13, <1>14, <1>15, <1>16 DEF Way

LEMMA ServeSubbing ==
    ASSUME NEW A, NEW B, NEW t, NEW Q, NEW P, NEW V, NEW I, NEW D, NEW H, NEW H2, NEW name, NEW subscribed,
           Subbing(A, Q, V, D, H, subscribed), Added(A, B, t), LeftOf(Q, P, I, name), t.of = Q[1].id,
           \/ t.kind \in {"reply", "error"} /\ H2 = H
           \/ t.kind = "sub" /\ Q[1].kind = "sub" /\ t.name = name /\ name \in Range(Q[1].names) /\ H2 = H \cup {name}
           \/ t.kind = "unsub" /\ t.name = name /\ name \in Range(Q[1].names) /\ H2 = H \ {name},
           \A m \in DOMAIN D : D[m].pending \in Int
    PROVE  Subbing(B, P, V, D, H2, subscribed)
  <1>0. 1 \in DOMAIN Q
    BY DEF LeftOf
  <1>1. Counted(A, Q, D) /\ TalkKnown(A, D) /\ AskedKnown(Q, D) /\ H \subseteq DOMAIN D /\ (~ subscribed => DOMAIN D = {} /\ V = {})
    BY DEF Subbing
  <1>2. PICK n : Ends(A, B, t, n)
    BY AddedEnds
  <1>3. SubTalk(t) => t.name \in DOMAIN D
    BY <1>0, <1>1 DEF SubTalk, AskedKnown
  <1>4. TalkKnown(B, D)
    <2> SUFFICES ASSUME NEW i \in DOMAIN B, SubTalk(B[i]) PROVE B[i].name \in DOMAIN D
      BY DEF TalkKnown
    <2>1. CASE i = n
      BY <1>2, <1>3, <2>1 DEF Ends
    <2>2. CASE i \in DOMAIN A
      BY <1>1, <1>2, <2>2 DEF Ends, TalkKnown
    <2> QED BY <1>2, <2>1, <2>2 DEF Ends
  <1>5. AskedKnown(P, D)
    BY <1>1 DEF AskedKnown, LeftOf
  <1>6. ASSUME NEW m PROVE SubIds(B, P, m) \subseteq SubIds(A, Q, m)
    <2> SUFFICES ASSUME NEW x \in SubIds(B, P, m) PROVE x \in SubIds(A, Q, m)
      OBVIOUS
    <2>1. CASE \E i \in DOMAIN B : B[i].of = x /\ B[i].kind = "sub" /\ B[i].name = m
      <3>1. PICK i \in DOMAIN B : B[i].of = x /\ B[i].kind = "sub" /\ B[i].name = m
        BY <2>1
      <3>2. CASE i = n
        <4>1. x = t.of /\ t.kind = "sub" /\ t.name = m
          BY <1>2, <3>1, <3>2 DEF Ends
        <4>2. Q[1].kind = "sub" /\ m \in Range(Q[1].names) /\ x = Q[1].id
          BY <4>1
        <4> QED BY <1>0, <4>2 DEF SubIds
      <3>3. CASE i \in DOMAIN A
        <4>1. A[i] = B[i]
          BY <1>2, <3>3 DEF Ends
        <4> QED BY <3>1, <3>3, <4>1 DEF SubIds
      <3> QED BY <1>2, <3>2, <3>3 DEF Ends
    <2>2. CASE \E j \in DOMAIN P : P[j].id = x /\ P[j].kind = "sub" /\ m \in Range(P[j].names)
      <3>1. PICK j \in DOMAIN P : P[j].id = x /\ P[j].kind = "sub" /\ m \in Range(P[j].names)
        BY <2>2
      <3>2. PICK l \in DOMAIN Q : P[j].id = Q[l].id /\ P[j].kind = Q[l].kind /\ Range(P[j].names) \subseteq Range(Q[l].names)
        BY DEF LeftOf
      <3>3. Q[l].id = x /\ Q[l].kind = "sub" /\ m \in Range(Q[l].names)
        BY <3>1, <3>2
      <3> QED BY <3>3 DEF SubIds
    <2> QED BY <2>1, <2>2 DEF SubIds
  <1>7. Counted(B, P, D)
    BY <1>1, <1>6, FewerCounted
  <1>8. H2 \subseteq DOMAIN D
    BY <1>0, <1>1 DEF AskedKnown
  <1> QED BY <1>1, <1>4, <1>5, <1>7, <1>8 DEF Subbing

\* A message is published, or the error that says the connection is about to be closed.
LEMMA PublishWay ==
    ASSUME NEW A, NEW B, NEW t, NEW Q, NEW R, NEW V, NEW I, NEW H, NEW closed,
           Way(A, Q, R, V, I, H, FALSE), Added(A, B, t), t.of = 0,
           (t.kind = "message" /\ t.name \in H) \/ (t.kind = "error" /\ closed)
    PROVE  Way(B, Q, R, V, I, H, closed)
  <1> DEFINE W == R \cup V
  <1>1. Positive(I) /\ Meant(A, I) /\ Asking(Q, I) /\ AnswersInOrder(A) /\ AnsweredFirst(A, Q) /\ AskedInOrder(Q)
    BY DEF Way
  <1>2. W \subseteq GetsOf(I) /\ OnWay(A, Q, W) /\ Waits(A, I, W) /\ WaitsYet(Q, I, W, FALSE) /\ ErrorLast(A, FALSE)
    BY DEF Way
  <1>3. RepliesFirst(A, R) /\ RepliesSent(A, R, H, FALSE) /\ RepliesAsked(Q, R) /\ Quiet(A, H) /\ OneUnsub(A, Q, I)
    BY DEF Way
  <1>4. PICK n : Ends(A, B, t, n)
    BY AddedEnds
  <1>5. Meant(B, I) /\ AnswersInOrder(B)
    BY <1>1, <1>4, EndMeant, EndOrder
  <1>6. AnsweredFirst(B, Q)
    <2>1. \A j \in DOMAIN Q : t.of < Q[j].id
      BY <1>1 DEF Asking, Positive
    <2> QED BY <1>1, <1>4, <2>1, EndFirst
  <1>7. OnWay(B, Q, W)
    BY <1>2, <1>4 DEF OnWay, Ends
  <1>8. Waits(B, I, W)
    <2>1. t.of \notin GetsOf(I)
      BY <1>1 DEF GetsOf, Positive
    <2> QED BY <1>2, <1>4, <2>1, EndWaits
  <1>9. ErrorLast(B, closed)
    BY <1>2, <1>4, EndErrors
  <1>10. RepliesFirst(B, R) /\ RepliesSent(B, R, H, closed)
    <2>1. SubTalk(t) => H # {}
      BY DEF SubTalk
    <2>2. H # {} => \A r \in R : \E i \in DOMAIN A : A[i].of = r
      BY <1>3 DEF RepliesSent
    <2>3. RepliesFirst(B, R)
      BY <1>3, <1>4, <2>1, <2>2, EndReplies
    <2>4. CASE H # {}
      BY <1>3, <1>4, <2>3, <2>4, EndSent
    <2>5. CASE H = {}
      BY <2>3, <2>5 DEF RepliesSent
    <2> QED BY <2>4, <2>5
  <1>11. Quiet(B, H)
    BY <1>3, <1>4, EndQuiet
  <1>12. OneUnsub(B, Q, I)
    BY <1>3, <1>4, EndUnsub
  <1>13. WaitsYet(Q, I, W, closed)
    BY <1>2 DEF WaitsYet
  <1> QED BY <1>1, <1>2, <1>3, <1>5, <1>6, <1>7, <1>8, <1>9, <1>10, <1>11, <1>12, <1>13 DEF Way

LEMMA PublishSubbing ==
    ASSUME NEW A, NEW B, NEW t, NEW Q, NEW V, NEW D, NEW H, NEW subscribed,
           Subbing(A, Q, V, D, H, subscribed), Added(A, B, t),
           (t.kind = "message" /\ t.name \in H) \/ t.kind = "error",
           \A m \in DOMAIN D : D[m].pending \in Int
    PROVE  Subbing(B, Q, V, D, H, subscribed)
  <1>1. Counted(A, Q, D) /\ TalkKnown(A, D) /\ AskedKnown(Q, D) /\ H \subseteq DOMAIN D /\ (~ subscribed => DOMAIN D = {} /\ V = {})
    BY DEF Subbing
  <1>2. PICK n : Ends(A, B, t, n)
    BY AddedEnds
  <1>3. TalkKnown(B, D)
    <2> SUFFICES ASSUME NEW i \in DOMAIN B, SubTalk(B[i]) PROVE B[i].name \in DOMAIN D
      BY DEF TalkKnown
    <2>1. CASE i = n
      <3>1. SubTalk(t)
        BY <1>2, <2>1 DEF Ends
      <3>2. t.name \in DOMAIN D
        BY <1>1, <3>1 DEF SubTalk
      <3> QED BY <1>2, <2>1, <3>2 DEF Ends
    <2>2. CASE i \in DOMAIN A
      BY <1>1, <1>2, <2>2 DEF Ends, TalkKnown
    <2> QED BY <1>2, <2>1, <2>2 DEF Ends
  <1>4. ASSUME NEW m PROVE SubIds(B, Q, m) \subseteq SubIds(A, Q, m)
    <2> SUFFICES ASSUME NEW x \in SubIds(B, Q, m) PROVE x \in SubIds(A, Q, m)
      OBVIOUS
    <2>1. CASE \E i \in DOMAIN B : B[i].of = x /\ B[i].kind = "sub" /\ B[i].name = m
      <3>1. PICK i \in DOMAIN B : B[i].of = x /\ B[i].kind = "sub" /\ B[i].name = m
        BY <2>1
      <3>2. i # n
        BY <1>2, <3>1 DEF Ends
      <3>3. i \in DOMAIN A /\ A[i] = B[i]
        BY <1>2, <3>1, <3>2 DEF Ends
      <3> QED BY <3>1, <3>3 DEF SubIds
    <2> QED BY <2>1 DEF SubIds
  <1>5. Counted(B, Q, D)
    BY <1>1, <1>4, FewerCounted
  <1> QED BY <1>1, <1>3, <1>5 DEF Subbing

\* The connection is closed without a word.
LEMMA CloseWay ==
    ASSUME NEW A, NEW Q, NEW R, NEW V, NEW I, NEW H, Way(A, Q, R, V, I, H, FALSE)
    PROVE  Way(A, Q, R, V, I, H, TRUE)
  <1>1. ErrorLast(A, TRUE)
    BY DEF Way, ErrorLast
  <1>2. WaitsYet(Q, I, R \cup V, TRUE) /\ RepliesSent(A, R, H, TRUE)
    BY DEF WaitsYet, RepliesSent
  <1> QED BY <1>1, <1>2 DEF Way

-----------------------------------------------------------------------------
(* A command is issued. *)

\* J is I with one command more.
Issued(I, J, id) ==
    /\ id \in Nat /\ id > 0 /\ id \notin DOMAIN I /\ DOMAIN J = DOMAIN I \cup {id} /\ J[id].open
    /\ \A i \in DOMAIN I : i < id /\ J[i] = I[i]

LEMMA AskWay ==
    ASSUME NEW A, NEW Q, NEW P, NEW e, NEW R, NEW V, NEW R2, NEW V2, NEW I, NEW J, NEW H, NEW closed, NEW id,
           Way(A, Q, R, V, I, H, closed), Issued(I, J, id), Added(Q, P, e), e.id = id, AskedRight(e, J),
           e.kind # "sub" => \A u \in DOMAIN I : I[u].kind = "unsub" => ~ I[u].open,
           \/ e.kind # "get" /\ R2 = R /\ V2 = V
           \/ e.kind = "get" /\ R2 = R /\ V2 = V \cup {id}
           \/ /\ e.kind = "get" /\ R2 = R \cup {id} /\ V2 = V /\ H = {}
              /\ (\A i \in DOMAIN A : ~ SubTalk(A[i])) /\ \A j \in DOMAIN Q : Q[j].kind = "get"
    PROVE  Way(A, P, R2, V2, J, H, closed)
  <1> DEFINE W == R \cup V
             W2 == R2 \cup V2
  <1>1. Positive(I) /\ Meant(A, I) /\ Asking(Q, I) /\ AnswersInOrder(A) /\ AnsweredFirst(A, Q) /\ AskedInOrder(Q)
    BY DEF Way
  <1>2. W \subseteq GetsOf(I) /\ OnWay(A, Q, W) /\ Waits(A, I, W) /\ WaitsYet(Q, I, W, closed) /\ ErrorLast(A, closed)
    BY DEF Way
  <1>3. RepliesFirst(A, R) /\ RepliesSent(A, R, H, closed) /\ RepliesAsked(Q, R) /\ Quiet(A, H) /\ OneUnsub(A, Q, I)
    BY DEF Way
  <1>4. PICK n : Ends(Q, P, e, n)
    BY AddedEnds
  <1>5. /\ DOMAIN P = DOMAIN Q \cup {n} /\ P[n] = e /\ n \in Nat \ {0} /\ n \notin DOMAIN Q /\ DOMAIN Q \subseteq Nat \ {0}
        /\ \A j \in DOMAIN Q : j < n /\ P[j] = Q[j]
    BY <1>4 DEF Ends
  <1>6. /\ id \in Nat /\ id > 0 /\ id \notin DOMAIN I /\ DOMAIN J = DOMAIN I \cup {id} /\ J[id].open
        /\ \A i \in DOMAIN I : i < id /\ J[i] = I[i]
    BY DEF Issued
  <1>7. J[id].kind = e.kind
    BY DEF AskedRight
  <1>8. Positive(J) /\ GetsOf(I) \subseteq GetsOf(J) /\ GetsOf(J) \subseteq GetsOf(I) \cup {id} /\ (id \in GetsOf(J) <=> e.kind = "get")
    BY <1>1, <1>6, <1>7 DEF Positive, GetsOf
  <1>9. W \subseteq W2 /\ W2 \subseteq W \cup {id} /\ (id \in W2 <=> e.kind = "get")
    BY <1>2, <1>6 DEF GetsOf
  <1>10. W2 \subseteq GetsOf(J)
    BY <1>2, <1>8, <1>9
  <1>11. Meant(A, J)
    <2> SUFFICES ASSUME NEW i \in DOMAIN A
                 PROVE  \/ A[i].of \in GetsOf(J) /\ A[i].kind \in {"reply", "error"}
                        \/ A[i].of \in DOMAIN J /\ A[i].kind = J[A[i].of].kind /\ A[i].kind \in {"sub", "unsub"}
                        \/ A[i].of = 0 /\ A[i].kind \in {"message", "error"}
      BY DEF Meant
    <2>1. CASE A[i].of \in GetsOf(I) /\ A[i].kind \in {"reply", "error"}
      BY <1>8, <2>1
    <2>2. CASE A[i].of \in DOMAIN I /\ A[i].kind = I[A[i].of].kind /\ A[i].kind \in {"sub", "unsub"}
      BY <1>6, <2>2
    <2> QED BY <1>1, <2>1, <2>2 DEF Meant
  <1>12. Asking(P, J)
    <2> SUFFICES ASSUME NEW j \in DOMAIN P PROVE AskedRight(P[j], J)
      BY AskingIs
    <2>1. CASE j = n
      BY <1>5, <2>1
    <2>2. CASE j \in DOMAIN Q
      <3>1. AskedRight(Q[j], I)
        BY <1>1, <2>2, AskingIs
      <3>2. J[Q[j].id] = I[Q[j].id] /\ Q[j].id \in DOMAIN J
        BY <1>6, <3>1 DEF AskedRight
      <3> QED BY <1>5, <2>2, <3>1, <3>2 DEF AskedRight
    <2> QED BY <1>5, <2>1, <2>2
  <1>13. \A i \in DOMAIN A : A[i].of < id
    <2> SUFFICES ASSUME NEW i \in DOMAIN A PROVE A[i].of < id
      OBVIOUS
    <2>1. A[i].of \in DOMAIN I \/ A[i].of = 0
      BY <1>1 DEF Meant, GetsOf
    <2> QED BY <1>6, <2>1
  <1>14. AnsweredFirst(A, P)
    BY <1>1, <1>5, <1>13 DEF AnsweredFirst
  <1>15. \A j \in DOMAIN Q : Q[j].id < id
    BY <1>1, <1>6 DEF Asking
  <1>16. AskedInOrder(P)
    <2> SUFFICES ASSUME NEW j \in DOMAIN P, NEW k \in DOMAIN P, j < k PROVE P[j].id < P[k].id
      BY DEF AskedInOrder
    <2>1. j # n
      <3> SUFFICES ASSUME j = n PROVE FALSE
        OBVIOUS
      <3>1. k = n \/ (k \in Nat /\ k < n)
        BY <1>5
      <3> QED BY <1>5, <3>1
    <2>2. j \in DOMAIN Q /\ P[j] = Q[j]
      BY <1>5, <2>1
    <2>3. CASE k = n
      BY <1>5, <1>15, <2>2, <2>3
    <2>4. CASE k \in DOMAIN Q
      BY <1>1, <1>5, <2>2, <2>4 DEF AskedInOrder
    <2> QED BY <1>5, <2>3, <2>4
  <1>17. OnWay(A, P, W2)
    <2> SUFFICES ASSUME NEW w \in W2 PROVE (\E i \in DOMAIN A : A[i].of = w) \/ \E j \in DOMAIN P : P[j].id = w
      BY DEF OnWay
    <2>1. CASE w = id
      <3>1. n \in DOMAIN P /\ P[n].id = w
        BY <1>5, <2>1
      <3> QED BY <3>1
    <2>2. CASE w \in W
      BY <1>2, <1>5, <2>2 DEF OnWay
    <2> QED BY <1>9, <2>1, <2>2
  <1>18. Waits(A, J, W2)
    <2> SUFFICES ASSUME NEW i \in DOMAIN A, A[i].of \in GetsOf(J) PROVE A[i].of \in W2
      BY DEF Waits
    <2>1. A[i].of # id
      BY <1>6, <1>13
    <2> QED BY <1>2, <1>8, <1>9, <2>1 DEF Waits
  <1>19. WaitsYet(P, J, W2, closed)
    <2> SUFFICES ASSUME ~ closed, NEW j \in DOMAIN P, P[j].id \in GetsOf(J) PROVE P[j].id \in W2
      BY DEF WaitsYet
    <2>1. CASE P[j].id = id
      BY <1>8, <1>9, <2>1
    <2>2. CASE P[j].id # id
      <3>1. j \in DOMAIN Q /\ P[j] = Q[j]
        BY <1>5, <2>2
      <3> QED BY <1>2, <1>8, <1>9, <2>2, <3>1 DEF WaitsYet
    <2> QED BY <2>1, <2>2
  <1>20. RepliesFirst(A, R2)
    <2>1. CASE R2 = R
      BY <1>3, <2>1
    <2>2. CASE \A i \in DOMAIN A : ~ SubTalk(A[i])
      BY <2>2 DEF RepliesFirst
    <2> QED BY <2>1, <2>2
  <1>21. RepliesSent(A, R2, H, closed)
    <2>1. CASE R2 = R
      BY <1>3, <2>1
    <2>2. CASE H = {}
      BY <2>2 DEF RepliesSent
    <2> QED BY <2>1, <2>2
  <1>22. RepliesAsked(P, R2)
    <2> SUFFICES ASSUME NEW j \in DOMAIN P, NEW r \in R2, P[j].kind # "get" PROVE r < P[j].id
      BY DEF RepliesAsked
    <2>1. CASE j = n
      <3>1. R2 = R
        BY <1>5, <2>1
      <3>2. r \in DOMAIN I
        BY <1>2, <3>1 DEF GetsOf
      <3> QED BY <1>5, <1>6, <2>1, <3>2
    <2>2. CASE j \in DOMAIN Q
      <3>1. Q[j].kind # "get" /\ P[j] = Q[j]
        BY <1>5, <2>2
      <3>2. r \in R
        BY <2>2, <3>1
      <3> QED BY <1>3, <2>2, <3>1, <3>2 DEF RepliesAsked
    <2> QED BY <1>5, <2>1, <2>2
  <1>23. OneUnsub(A, P, J)
    <2>1. ASSUME NEW i \in DOMAIN A, A[i].kind = "unsub" PROVE J[A[i].of].open
      <3>1. A[i].of \in DOMAIN I
        BY <1>1, <2>1 DEF Meant
      <3> QED BY <1>3, <1>6, <2>1, <3>1 DEF OneUnsub
    <2>2. ASSUME NEW j \in DOMAIN P, P[j].kind = "unsub" PROVE J[P[j].id].open
      <3>1. CASE j = n
        BY <1>5, <1>6, <3>1
      <3>2. CASE j \in DOMAIN Q
        <4>1. Q[j].id \in DOMAIN I /\ P[j] = Q[j]
          BY <1>1, <1>5, <3>2 DEF Asking
        <4> QED BY <1>3, <1>6, <2>2, <3>2, <4>1 DEF OneUnsub
      <3> QED BY <1>5, <3>1, <3>2
    <2>3. ASSUME NEW u \in DOMAIN J, NEW i \in DOMAIN J, J[u].kind = "unsub", J[u].open, u < i PROVE J[i].kind = "sub"
      <3>1. u # id
        <4> SUFFICES ASSUME u = id PROVE FALSE
          OBVIOUS
        <4>1. i = id \/ (i < id /\ i \in Nat)
          BY <1>1, <1>6 DEF Positive
        <4> QED BY <1>6, <2>3, <4>1
      <3>2. u \in DOMAIN I /\ I[u].kind = "unsub" /\ I[u].open
        BY <1>6, <2>3, <3>1
      <3>3. CASE i = id
        BY <1>7, <3>2, <3>3
      <3>4. CASE i \in DOMAIN I
        BY <1>3, <1>6, <2>3, <3>2, <3>4 DEF OneUnsub
      <3> QED BY <1>6, <3>3, <3>4
    <2> QED BY <2>1, <2>2, <2>3 DEF OneUnsub
  <1> QED BY <1>1, <1>2, <1>3, <1>8, <1>10, <1>11, <1>12, <1>14, <1>16, <1>17, <1>18, <1>19, <1>20, <1>21, <1>22, <1>23 DEF Way

\* One more command counts for the names it subscribes to.
LEMMA AskSubIds ==
    ASSUME NEW A, NEW Q, NEW P, NEW e, NEW m, Added(Q, P, e)
    PROVE  SubIds(A, P, m) \subseteq IF e.kind = "sub" /\ m \in Range(e.names) THEN SubIds(A, Q, m) \cup {e.id} ELSE SubIds(A, Q, m)
  <1>1. PICK n : Ends(Q, P, e, n)
    BY AddedEnds
  <1> SUFFICES ASSUME NEW x \in SubIds(A, P, m), x \notin SubIds(A, Q, m)
               PROVE  e.kind = "sub" /\ m \in Range(e.names) /\ x = e.id
    OBVIOUS
  <1>2. PICK j \in DOMAIN P : P[j].id = x /\ P[j].kind = "sub" /\ m \in Range(P[j].names)
    BY DEF SubIds
  <1>3. j \notin DOMAIN Q
    <2> SUFFICES ASSUME j \in DOMAIN Q PROVE FALSE
      OBVIOUS
    <2>1. Q[j].id = x /\ Q[j].kind = "sub" /\ m \in Range(Q[j].names)
      BY <1>1, <1>2 DEF Ends
    <2> QED BY <2>1 DEF SubIds
  <1>4. j = n /\ P[j] = e
    BY <1>1, <1>3 DEF Ends
  <1> QED BY <1>2, <1>4

LEMMA AskSubbing ==
    ASSUME NEW A, NEW Q, NEW P, NEW e, NEW V, NEW V2, NEW D, NEW H, NEW subscribed,
           Subbing(A, Q, V, D, H, subscribed), Added(Q, P, e), e.kind # "sub", Range(e.names) \subseteq DOMAIN D,
           subscribed \/ V2 = V, \A m \in DOMAIN D : D[m].pending \in Int
    PROVE  Subbing(A, P, V2, D, H, subscribed)
  <1>1. Counted(A, Q, D) /\ TalkKnown(A, D) /\ AskedKnown(Q, D) /\ H \subseteq DOMAIN D /\ (~ subscribed => DOMAIN D = {} /\ V2 = {})
    BY DEF Subbing
  <1>2. PICK n : Ends(Q, P, e, n)
    BY AddedEnds
  <1>3. AskedKnown(P, D)
    BY <1>1, <1>2 DEF AskedKnown, Ends
  <1>4. \A m \in DOMAIN D : SubIds(A, P, m) \subseteq SubIds(A, Q, m)
    BY AskSubIds
  <1>5. Counted(A, P, D)
    BY <1>1, <1>4, FewerCounted
  <1> QED BY <1>1, <1>3, <1>5 DEF Subbing

LEMMA AskSub ==
    ASSUME NEW A, NEW Q, NEW P, NEW e, NEW V, NEW D, NEW D2, NEW H, NEW subscribed,
           Subbing(A, Q, V, D, H, subscribed), Added(Q, P, e), e.kind = "sub",
           DOMAIN D2 = DOMAIN D \cup Range(e.names), \A m \in DOMAIN D \ Range(e.names) : D2[m] = D[m],
           \A m \in Range(e.names) : m \in DOMAIN D => D2[m].pending = D[m].pending + 1,
           \A m \in Range(e.names) : (\A k \in DOMAIN D : D[k].pending >= 0) => D2[m].pending >= 1,
           \A m \in DOMAIN D : D[m].pending \in Int, \A m \in DOMAIN D2 : D2[m].pending \in Int
    PROVE  Subbing(A, P, V, D2, H, TRUE)
  <1>1. Counted(A, Q, D) /\ TalkKnown(A, D) /\ AskedKnown(Q, D) /\ H \subseteq DOMAIN D
    BY DEF Subbing
  <1>2. PICK n : Ends(Q, P, e, n)
    BY AddedEnds
  <1>3. AskedKnown(P, D2)
    BY <1>1, <1>2 DEF AskedKnown, Ends
  <1>4. TalkKnown(A, D2) /\ H \subseteq DOMAIN D2
    BY <1>1 DEF TalkKnown
  <1>5. \A k \in DOMAIN D : D[k].pending >= 0
    <2> SUFFICES ASSUME NEW k \in DOMAIN D PROVE D[k].pending >= 0
      OBVIOUS
    <2>1. IsFiniteSet(SubIds(A, Q, k)) /\ Cardinality(SubIds(A, Q, k)) <= D[k].pending /\ D[k].pending \in Int
      BY <1>1 DEF Counted
    <2>2. Cardinality(SubIds(A, Q, k)) \in Nat
      BY <2>1, FS_CardinalityType
    <2> QED BY <2>1, <2>2
  <1>6. ASSUME NEW m \in DOMAIN D2 PROVE IsFiniteSet(SubIds(A, P, m)) /\ Cardinality(SubIds(A, P, m)) <= D2[m].pending
    <2> DEFINE S == SubIds(A, Q, m)
               T == SubIds(A, P, m)
    <2>1. T \subseteq S \cup {e.id}
      BY AskSubIds
    <2>2. CASE m \in DOMAIN D
      <3>1. IsFiniteSet(S) /\ Cardinality(S) <= D[m].pending /\ D[m].pending \in Int
        BY <1>1, <2>2 DEF Counted
      <3>2. IsFiniteSet(S \cup {e.id}) /\ Cardinality(S \cup {e.id}) <= Cardinality(S) + 1 /\ Cardinality(S) \in Nat
        <4>1. PICK s \in Nat : s = Cardinality(S)
          BY <3>1, FS_CardinalityType
        <4>2. IsFiniteSet(S \cup {e.id}) /\ (Cardinality(S \cup {e.id}) = s \/ Cardinality(S \cup {e.id}) = s + 1)
          BY <3>1, <4>1, FS_AddElement
        <4> QED BY <4>1, <4>2
      <3>3. IsFiniteSet(T) /\ Cardinality(T) <= Cardinality(S \cup {e.id}) /\ Cardinality(T) \in Nat /\ Cardinality(S \cup {e.id}) \in Nat
        BY <2>1, <3>2, FS_Subset, FS_CardinalityType
      <3>4. CASE m \in Range(e.names)
        <4>1. D2[m].pending = D[m].pending + 1
          BY <2>2, <3>4
        <4>2. PICK s \in Nat : s = Cardinality(S)
          BY <3>2
        <4>3. PICK u \in Nat : u = Cardinality(S \cup {e.id})
          BY <3>3
        <4>4. PICK t \in Nat : t = Cardinality(T)
          BY <3>3
        <4>5. PICK p \in Int : p = D[m].pending
          BY <3>1
        <4>6. t <= p + 1
          BY ONLY s \in Nat, u \in Nat, t \in Nat, p \in Int, <3>1, <3>2, <3>3, <4>2, <4>3, <4>4, <4>5
        <4> QED BY <3>3, <4>1, <4>4, <4>5, <4>6
      <3>5. CASE m \notin Range(e.names)
        <4>1. T \subseteq S
          BY <3>5, AskSubIds
        <4>2. IsFiniteSet(T) /\ Cardinality(T) <= Cardinality(S) /\ D2[m] = D[m]
          BY <2>2, <3>1, <3>5, <4>1, FS_Subset
        <4>3. PICK s \in Nat : s = Cardinality(S)
          BY <3>2
        <4>4. PICK t \in Nat : t = Cardinality(T)
          BY <3>3
        <4>5. PICK p \in Int : p = D[m].pending
          BY <3>1
        <4>6. t <= p
          BY ONLY s \in Nat, t \in Nat, p \in Int, <3>1, <4>2, <4>3, <4>4, <4>5
        <4> QED BY <4>2, <4>4, <4>5, <4>6
      <3> QED BY <3>4, <3>5
    <2>3. CASE m \notin DOMAIN D
      <3>1. S = {}
        <4>1. \A i \in DOMAIN A : A[i].kind = "sub" => A[i].name # m
          BY <1>1, <2>3 DEF TalkKnown, SubTalk
        <4>2. \A j \in DOMAIN Q : m \notin Range(Q[j].names)
          BY <1>1, <2>3 DEF AskedKnown
        <4> QED BY <4>1, <4>2 DEF SubIds
      <3>2. T \subseteq {e.id}
        BY <2>1, <3>1
      <3>3. IsFiniteSet({e.id}) /\ Cardinality({e.id}) = 1
        BY FS_Singleton
      <3>4. IsFiniteSet(T) /\ Cardinality(T) <= 1
        BY <3>2, <3>3, FS_Subset
      <3>5. D2[m].pending >= 1 /\ D2[m].pending \in Int
        BY <1>5, <1>6, <2>3
      <3>6. Cardinality(T) \in Nat
        BY <3>4, FS_CardinalityType
      <3> QED BY <3>4, <3>5, <3>6
    <2> QED BY <2>2, <2>3
  <1>7. Counted(A, P, D2)
    BY <1>6 DEF Counted
  <1> QED BY <1>3, <1>4, <1>7 DEF Subbing

-----------------------------------------------------------------------------
(* The steps keep what is on its way. *)

\* While a careful caller's context works.
Working == ~ careless /\ ~ Teardown /\ socket # "freed" /\ "monitoring" \notin flags
Sane == /\ Way(Wire, Asked, Range(replies), Range(invalid), issued, server.subs, socket = "closed")
        /\ Subbing(Wire, Asked, Range(invalid), subs, server.subs, "subscribed" \in flags)
Increasing(s) == \A i, j \in DOMAIN s : i < j => s[i] < s[j]
CallbacksLeft == Range(replies) \cup Range(invalid)
OwnAnswer(run) == \/ run.reply.kind = "null" \/ run.reply.of = run.id
                  \/ run.reply.of = 0 /\ run.reply.kind = "error"
Once ==
    /\ CallbacksLeft \subseteq GetsOf(issued) /\ Increasing(replies) /\ Increasing(invalid)
    /\ \A r \in Range(replies), v \in Range(invalid) : r < v
    /\ \A id \in GetsOf(issued) : id \in CallbacksLeft \/ \E i \in DOMAIN ran : ran[i].id = id
    /\ \A i \in DOMAIN ran : ran[i].id \in GetsOf(issued) =>
           /\ OwnAnswer(ran[i]) /\ \A w \in CallbacksLeft : ran[i].id < w
           /\ \A k \in DOMAIN ran : k < i /\ ran[k].id \in GetsOf(issued) => ran[k].id < ran[i].id
SaneInv == Working => Sane
OnceInv == ~ careless /\ "monitoring" \notin flags => Once
NoAbort == ~ careless => ~ aborted

LEMMA SaneLater ==
    ASSUME Way(Wire', Asked', Range(replies'), Range(invalid'), issued', server'.subs, socket' = "closed"),
           Subbing(Wire', Asked', Range(invalid'), subs', server'.subs, "subscribed" \in flags')
    PROVE  Sane'
  BY DEF Sane

LEMMA PendingInt == ASSUME AsyncTypes PROVE \A n \in DOMAIN subs : subs[n].pending \in Int
  BY DEF AsyncTypes

\* A working context has worked before the step.
LEMMA CalmWorking == ASSUME Calm, careless' = careless, Working' PROVE Working
  BY DEF Calm, Working

LEMMA MovesSane ==
    ASSUME Sane, Moves, "subscribed" \in flags' <=> "subscribed" \in flags, socket = "closed" => socket' = "closed"
    PROVE  Sane'
  <1>1. /\ Wire' = Wire /\ Asked' = Asked /\ server'.subs = server.subs /\ replies' = replies /\ invalid' = invalid /\ subs' = subs
        /\ issued' = issued
    BY DEF Moves
  <1>2. Subbing(Wire', Asked', Range(invalid'), subs', server'.subs, "subscribed" \in flags')
    <2>1. ("subscribed" \in flags') = ("subscribed" \in flags)
      OBVIOUS
    <2> QED BY <1>1, <2>1 DEF Sane
  <1>3. Way(Wire', Asked', Range(replies'), Range(invalid'), issued', server'.subs, socket' = "closed")
    <2>1. CASE socket = "closed"
      <3>1. (socket' = "closed") = (socket = "closed")
        BY <2>1
      <3> QED BY <1>1, <3>1 DEF Sane
    <2>2. CASE socket # "closed"
      <3>1. Way(Wire, Asked, Range(replies), Range(invalid), issued, server.subs, FALSE)
        <4>1. (socket = "closed") = FALSE
          BY <2>2
        <4> QED BY <4>1 DEF Sane
      <3>2. CASE socket' = "closed"
        <4>1. Way(Wire, Asked, Range(replies), Range(invalid), issued, server.subs, TRUE)
          BY <3>1, CloseWay
        <4>2. (socket' = "closed") = TRUE
          BY <3>2
        <4> QED BY <1>1, <4>1, <4>2
      <3>3. CASE socket' # "closed"
        <4>1. (socket' = "closed") = FALSE
          BY <3>3
        <4> QED BY <1>1, <3>1, <4>1
      <3> QED BY <3>2, <3>3
    <2> QED BY <2>1, <2>2
  <1> QED BY <1>2, <1>3, SaneLater

\* The steps of the frames and of the reader and the writer.
LEMMA QuietSane ==
    ASSUME FrameInv, ToldInv, AsyncTypes, SaneInv,
           AsyncFree \/ AsyncDisconnect \/ DisconnectNow \/ CallbackReturns \/ FreeRepliesDone \/ ConnectFailed
               \/ HandleWrite \/ HandleRead \/ RanRegular \/ BufferRead \/ BufferWrite \/ NoMore
    PROVE  SaneInv'
  <1>1. Calm
    BY FreeCalm, DisconnectCalm, NowCalm, ReturnCalm, RunCalm
  <1>2. careless' = careless
    BY DEF AsyncFree, AsyncDisconnect, DisconnectNow, CallbackReturns, FreeRepliesDone, ConnectFailed, HandleWrite, HandleRead,
           HandleConnect, RanRegular, BufferRead, BufferWrite, NoMore, Rest
  <1>3. socket = "closed" => socket' = "closed"
    BY DEF AsyncFree, AsyncDisconnect, DisconnectNow, CallbackReturns, FreeRepliesDone, ConnectFailed, HandleWrite, HandleRead,
           HandleConnect, RanRegular, BufferRead, BufferWrite, NoMore, Rest
  <1>4. "subscribed" \in flags' <=> "subscribed" \in flags
    BY <1>1 DEF Calm
  <1>5. "monitoring" \notin flags => Moves
    BY FrameMoves, ReadMoves, WriteMoves, NoMoreTypes
  <1>6. ASSUME Working' PROVE Sane'
    <2>1. Working
      BY <1>1, <1>2, <1>6, CalmWorking
    <2>2. Sane /\ Moves
      BY <1>5, <2>1 DEF SaneInv, Working
    <2> QED BY <1>3, <1>4, <2>2, MovesSane
  <1> QED BY <1>6 DEF SaneInv

LEMMA AssertSane ==
    ASSUME AsyncTypes, SaneInv, SubscribeAssert \/ UNCHANGED acVars
    PROVE  SaneInv'
  <1>1. careless' = careless /\ socket' = socket /\ flags' = flags /\ frames' = frames
    BY DEF SubscribeAssert, Rest, acVars
  <1>2. Moves
    <2>1. CASE SubscribeAssert
      BY <2>1, FrameMoves
    <2>2. CASE UNCHANGED acVars
      BY <2>2 DEF acVars, Moves, Wire, Asked
    <2> QED BY <2>1, <2>2
  <1>3. Working' => Working
    BY <1>1 DEF Working, Teardown
  <1>4. ASSUME Working' PROVE Sane'
    <2>1. Sane
      BY <1>3, <1>4 DEF SaneInv
    <2> QED BY <1>1, <1>2, <2>1, MovesSane
  <1> QED BY <1>4 DEF SaneInv

\* In a teardown nothing is claimed of what is on its way.
LEMMA TornSane ==
    ASSUME FrameInv, ToldInv, FreeReplies \/ FreeInvalid \/ FreeSubs \/ Freed \/ SpontaneousError
    PROVE  SaneInv'
  <1>1. CASE Freed
    BY <1>1, FreedFrames DEF SaneInv, Working
  <1>2. CASE SpontaneousError
    BY <1>2, RunCalm DEF SaneInv, Working
  <1>3. CASE FreeReplies \/ FreeInvalid \/ FreeSubs
    <2>1. Teardown
      <3>1. Top \in {"free", "freeinvalid", "freesubs"}
        BY <1>3 DEF FreeReplies, FreeInvalid, FreeSubs
      <3> QED BY <3>1, AtTop DEF Events, Runners, Freeing
    <2>2. Calm
      BY <1>3, FreesCalm
    <2> QED BY <2>1, <2>2 DEF Calm, SaneInv, Working
  <1> QED BY <1>1, <1>2, <1>3

\* The server, while the context works.
LEMMA ServerSane ==
    ASSUME FrameInv, ToldInv, AsyncTypes, KindsInv, SaneInv, Serves \/ Publishes \/ Closes
    PROVE  SaneInv'
  <1>1. Calm /\ socket = "open"
    BY ServerFrames
  <1>2. /\ UNCHANGED <<flags, replies, invalid, subs, issued, careless>>
        /\ Serves \/ Publishes => socket' = socket
    BY DEF Serves, Publishes, Closes
  <1> SUFFICES ASSUME Working' PROVE Sane'
    BY DEF SaneInv
  <1>3. Working /\ Sane
    BY <1>1, <1>2, CalmWorking DEF SaneInv
  <1>4. Way(Wire, Asked, Range(replies), Range(invalid), issued, server.subs, FALSE)
    <2>1. (socket = "closed") = FALSE
      BY <1>1
    <2> QED BY <1>3, <2>1 DEF Sane
  <1>5. Subbing(Wire, Asked, Range(invalid), subs, server.subs, "subscribed" \in flags)
    BY <1>3 DEF Sane
  <1>6. \A id \in Ids : Kind(id) # "monitor"
    BY <1>3 DEF KindsInv, Modes, Working
  <1>7. \A n \in DOMAIN subs : subs[n].pending \in Int
    BY PendingInt
  <1>8. ~ server.monitor
    BY <1>6 DEF KindsInv, HeardKinds
  <1>9. CASE Serves
    <2>1. PICK c : (c.kind \in {"sub", "unsub"} /\ \E name : ServedOne(c, name)) \/ (c.kind \in {"get", "monitor"} /\ ServedWhole(c))
      BY <1>9, ServesIs
    <2>2. Asked[1] = c /\ c \in Asks
      BY <2>1 DEF ServedOne, ServedWhole
    <2>3. (socket' = "closed") = FALSE
      BY <1>1, <1>2, <1>9
    <2>4. Asking(Asked, issued) /\ AskedInOrder(Asked)
      BY <1>4 DEF Way
    <2>5. ASSUME c.kind \in {"get", "monitor"}, ServedWhole(c)
          PROVE  \E t, name : /\ LeftOf(Asked, Asked', issued, name) /\ Added(Wire, Wire', t) /\ t.of = Asked[1].id
                              /\ t.kind \in {"reply", "error"} /\ Asked[1].kind = "get" /\ server'.subs = server.subs
      <3>1. PICK kind \in {"reply", "error"} : Added(Wire, Wire', ServerReply(kind, c.id, "", 0))
        BY <2>5 DEF ServedWhole
      <3>2. LeftOf(Asked, Asked', issued, "")
        BY <2>4, <2>5, TakenLeaves DEF ServedWhole
      <3>3. 1 \in DOMAIN Asked
        BY <3>2 DEF LeftOf
      <3>4. c.kind # "monitor"
        BY <1>6, <2>2, <2>4, <3>3 DEF Asking, Ids, Kind
      <3>5. ServerReply(kind, c.id, "", 0).of = Asked[1].id /\ ServerReply(kind, c.id, "", 0).kind = kind
        BY <2>2 DEF ServerReply
      <3>6. Asked[1].kind = "get" /\ server'.subs = server.subs
        BY <2>2, <2>5, <3>4 DEF ServedWhole
      <3> QED BY <3>1, <3>2, <3>5, <3>6
    <2>6. ASSUME c.kind \in {"sub", "unsub"}, NEW name, ServedOne(c, name)
          PROVE  \E t : /\ LeftOf(Asked, Asked', issued, name) /\ Added(Wire, Wire', t) /\ t.of = Asked[1].id
                        /\ t.kind = Asked[1].kind /\ t.name = name /\ name \in Range(Asked[1].names)
                        /\ \/ Asked[1].kind = "sub" /\ server'.subs = server.subs \cup {name}
                           \/ Asked[1].kind = "unsub" /\ server'.subs = server.subs \ {name}
      <3>1. PICK left \in Nat : Added(Wire, Wire', ServerReply(c.kind, c.id, name, left))
        BY <2>6 DEF ServedOne
      <3>2. c.names \in Seq(Names) /\ c.names # <<>> /\ name = c.names[1]
        BY <2>2, <2>6 DEF ServedOne, Asks
      <3>3. name \in Range(c.names)
        <4>1. Head(c.names) \in Range(c.names)
          BY <3>2, RangeParts
        <4>2. Head(c.names) = c.names[1]
          BY <3>2, SeqHead
        <4> QED BY <3>2, <4>1, <4>2
      <3>4. LeftOf(Asked, Asked', issued, name)
        <4>1. CASE Len(c.names) = 1
          BY <2>4, <2>6, <4>1, TakenLeaves DEF ServedOne
        <4>2. CASE Len(c.names) # 1
          <5>1. Led(Asked, Asked') /\ Asked'[1] = [kind |-> c.kind, names |-> Tail(c.names), id |-> c.id]
            BY <2>6, <4>2 DEF ServedOne
          <5>2. 1 \in DOMAIN Asked
            <6>1. PICK n \in Nat \ {0} : n = Len(Asked)
              BY <5>1 DEF Led
            <6> QED BY <5>1, <6>1 DEF Led
          <5>3. c.kind = "sub"
            BY <2>2, <2>4, <2>6, <4>2, <5>2 DEF Asking
          <5> QED BY <2>2, <2>4, <3>2, <4>2, <5>1, <5>3, LedLeaves
        <4> QED BY <4>1, <4>2
      <3>5. /\ ServerReply(c.kind, c.id, name, left).of = Asked[1].id /\ ServerReply(c.kind, c.id, name, left).kind = Asked[1].kind
            /\ ServerReply(c.kind, c.id, name, left).name = name
        BY <2>2 DEF ServerReply
      <3>6. \/ Asked[1].kind = "sub" /\ server'.subs = server.subs \cup {name}
            \/ Asked[1].kind = "unsub" /\ server'.subs = server.subs \ {name}
        BY <2>2, <2>6 DEF ServedOne
      <3> QED BY <2>2, <3>1, <3>3, <3>4, <3>5, <3>6
    <2>7. \E t, name :
             /\ LeftOf(Asked, Asked', issued, name) /\ Added(Wire, Wire', t) /\ t.of = Asked[1].id
             /\ \/ t.kind \in {"reply", "error"} /\ Asked[1].kind = "get" /\ server'.subs = server.subs
                \/ t.kind = "sub" /\ Asked[1].kind = "sub" /\ t.name = name /\ name \in Range(Asked[1].names) /\ server'.subs = server.subs \cup {name}
                \/ t.kind = "unsub" /\ Asked[1].kind = "unsub" /\ t.name = name /\ name \in Range(Asked[1].names) /\ server'.subs = server.subs \ {name}
      <3>1. CASE c.kind \in {"get", "monitor"} /\ ServedWhole(c)
        BY <2>5, <3>1
      <3>2. CASE c.kind \in {"sub", "unsub"} /\ \E name : ServedOne(c, name)
        <4>1. PICK name : ServedOne(c, name)
          BY <3>2
        <4> QED BY <2>6, <3>2, <4>1
      <3> QED BY <2>1, <3>1, <3>2
    <2>8. PICK t, name :
             /\ LeftOf(Asked, Asked', issued, name) /\ Added(Wire, Wire', t) /\ t.of = Asked[1].id
             /\ \/ t.kind \in {"reply", "error"} /\ Asked[1].kind = "get" /\ server'.subs = server.subs
                \/ t.kind = "sub" /\ Asked[1].kind = "sub" /\ t.name = name /\ name \in Range(Asked[1].names) /\ server'.subs = server.subs \cup {name}
                \/ t.kind = "unsub" /\ Asked[1].kind = "unsub" /\ t.name = name /\ name \in Range(Asked[1].names) /\ server'.subs = server.subs \ {name}
      BY <2>7
    <2>9. Way(Wire', Asked', Range(replies), Range(invalid), issued, server'.subs, FALSE)
      BY <1>4, <2>8, ServeWay
    <2>10. Subbing(Wire', Asked', Range(invalid), subs, server'.subs, "subscribed" \in flags)
      BY <1>5, <1>7, <2>8, ServeSubbing
    <2> QED BY <1>2, <2>3, <2>9, <2>10, SaneLater
  <1>10. CASE Publishes
    <2>1. PICK name \in server.subs : Added(Wire, Wire', ServerReply("message", 0, name, 0))
      BY <1>8, <1>10, PublishesIs
    <2>2. Asked' = Asked /\ server'.subs = server.subs
      BY <1>10, PublishesIs
    <2>3. PICK t : t = ServerReply("message", 0, name, 0)
      OBVIOUS
    <2>4. t.of = 0 /\ t.kind = "message" /\ t.name = name
      BY <2>3 DEF ServerReply
    <2>5. Way(Wire', Asked, Range(replies), Range(invalid), issued, server.subs, FALSE)
      BY <1>4, <2>1, <2>3, <2>4, PublishWay
    <2>6. Subbing(Wire', Asked, Range(invalid), subs, server.subs, "subscribed" \in flags)
      BY <1>5, <1>7, <2>1, <2>3, <2>4, PublishSubbing
    <2>7. (socket' = "closed") = FALSE
      BY <1>1, <1>2, <1>10
    <2> QED BY <1>2, <2>2, <2>5, <2>6, <2>7, SaneLater
  <1>11. CASE Closes
    <2>1. Wire' = Wire \/ Added(Wire, Wire', ServerReply("error", 0, "", 0))
      BY <1>11, ClosesIs
    <2>2. Asked' = Asked /\ server'.subs = server.subs /\ socket' = "closed"
      BY <1>11, ClosesIs
    <2>3. PICK t : t = ServerReply("error", 0, "", 0)
      OBVIOUS
    <2>4. t.of = 0 /\ t.kind = "error"
      BY <2>3 DEF ServerReply
    <2>5. Way(Wire', Asked, Range(replies), Range(invalid), issued, server.subs, TRUE)
      <3>1. CASE Wire' = Wire
        BY <1>4, <3>1, CloseWay
      <3>2. CASE Added(Wire, Wire', ServerReply("error", 0, "", 0))
        BY <1>4, <2>3, <2>4, <3>2, PublishWay
      <3> QED BY <2>1, <3>1, <3>2
    <2>6. Subbing(Wire', Asked, Range(invalid), subs, server.subs, "subscribed" \in flags)
      <3>1. CASE Wire' = Wire
        BY <1>5, <3>1
      <3>2. CASE Added(Wire, Wire', ServerReply("error", 0, "", 0))
        BY <1>5, <1>7, <2>3, <2>4, <3>2, PublishSubbing
      <3> QED BY <2>1, <3>1, <3>2
    <2>7. (socket' = "closed") = TRUE
      BY <2>2
    <2> QED BY <1>2, <2>2, <2>5, <2>6, <2>7, SaneLater
  <1> QED BY <1>9, <1>10, <1>11

\* An increasing list, its first and the rest.
LEMMA FirstIs ==
    ASSUME NEW s \in Seq(Nat), s # <<>>, Increasing(s)
    PROVE  /\ Head(s) \in Range(s) /\ Head(s) \in Nat /\ Tail(s) \in Seq(Nat) /\ Increasing(Tail(s))
           /\ Range(Tail(s)) = Range(s) \ {Head(s)}
           /\ \A x \in Range(s) : Head(s) <= x
           /\ \A x \in Range(Tail(s)) : Head(s) < x
  <1>1. PICK n \in Nat \ {0} : n = Len(s)
    BY SeqHead
  <1>2. Head(s) = s[1] /\ Tail(s) \in Seq(Nat) /\ Head(s) \in Nat /\ Len(Tail(s)) = n - 1 /\ \A i \in 1..n - 1 : Tail(s)[i] = s[i + 1]
    BY <1>1, SeqHead
  <1>3. DOMAIN s = 1..n /\ DOMAIN Tail(s) = 1..n - 1
    BY <1>1, <1>2
  <1>4. PICK t \in Seq(Nat) : t = Tail(s)
    BY <1>2
  <1>5. 1 \in 1..n /\ (\A i \in 1..n - 1 : i + 1 \in 1..n /\ 1 < i + 1) /\ (\A k \in 1..n : k # 1 => 1 < k /\ k - 1 \in 1..n - 1 /\ k - 1 + 1 = k)
    BY ONLY n \in Nat \ {0}
  <1>6. DOMAIN t = 1..n - 1 /\ \A i \in 1..n - 1 : t[i] = s[i + 1]
    BY <1>2, <1>3, <1>4
  <1>7. \A i \in 1..n : s[i] \in Nat
    BY <1>3
  <1>8. \A i, j \in 1..n : i < j => s[i] < s[j]
    BY <1>3 DEF Increasing
  <1>9. Head(s) \in Range(s)
    BY <1>2, <1>3, <1>5 DEF Range
  <1>10. \A x \in Range(t) : Head(s) < x /\ x \in Range(s)
    <2> SUFFICES ASSUME NEW i \in DOMAIN t PROVE Head(s) < t[i] /\ t[i] \in Range(s)
      BY DEF Range
    <2>1. i + 1 \in DOMAIN s /\ t[i] = s[i + 1] /\ s[1] < s[i + 1]
      BY <1>3, <1>5, <1>6, <1>8
    <2> QED BY <1>2, <2>1 DEF Range
  <1>11. \A x \in Range(s) : x # Head(s) => x \in Range(t)
    <2> SUFFICES ASSUME NEW k \in DOMAIN s, s[k] # Head(s) PROVE s[k] \in Range(t)
      BY DEF Range
    <2>1. k # 1
      BY <1>2
    <2>2. k - 1 \in DOMAIN t /\ t[k - 1] = s[k]
      BY <1>3, <1>5, <1>6, <2>1
    <2> QED BY <2>2 DEF Range
  <1>12. Range(t) = Range(s) \ {Head(s)}
    <2>1. \A x \in Range(t) : x # Head(s)
      <3> SUFFICES ASSUME NEW x \in Range(t), x = Head(s) PROVE FALSE
        OBVIOUS
      <3>1. Head(s) < Head(s)
        BY <1>10
      <3> QED BY <1>2, <3>1
    <2> QED BY <1>10, <1>11, <2>1
  <1>13. \A x \in Range(s) : Head(s) <= x
    <2> SUFFICES ASSUME NEW x \in Range(s) PROVE Head(s) <= x
      OBVIOUS
    <2>1. CASE x = Head(s)
      BY <1>2, <2>1
    <2>2. CASE x # Head(s)
      <3>1. Head(s) < x
        BY <1>10, <1>11, <2>2
      <3>2. x \in Nat
        BY <1>3, <1>7 DEF Range
      <3> QED BY <1>2, <3>1, <3>2
    <2> QED BY <2>1, <2>2
  <1>14. Increasing(t)
    <2> SUFFICES ASSUME NEW i \in DOMAIN t, NEW j \in DOMAIN t, i < j PROVE t[i] < t[j]
      BY DEF Increasing
    <2>1. i + 1 \in 1..n /\ j + 1 \in 1..n /\ t[i] = s[i + 1] /\ t[j] = s[j + 1] /\ i \in Nat /\ j \in Nat
      <3>1. i \in 1..n - 1 /\ j \in 1..n - 1
        BY <1>6
      <3>2. i \in Nat /\ j \in Nat
        BY ONLY <3>1, n \in Nat \ {0}
      <3> QED BY <1>5, <1>6, <3>1, <3>2
    <2>2. i + 1 < j + 1
      BY ONLY <2>1, i < j
    <2> QED BY <1>8, <2>1, <2>2
  <1> QED BY <1>2, <1>4, <1>9, <1>10, <1>12, <1>13, <1>14

\* A list with a greater number at its end.
LEMMA LastIs ==
    ASSUME NEW s \in Seq(Nat), NEW e \in Nat, Increasing(s), \A x \in Range(s) : x < e
    PROVE  Increasing(Append(s, e)) /\ Range(Append(s, e)) = Range(s) \cup {e}
  <1>1. PICK n \in Nat : n = Len(s)
    OBVIOUS
  <1>2. PICK t : t = Append(s, e)
    OBVIOUS
  <1>3. DOMAIN s = 1..n /\ DOMAIN t = 1..n + 1 /\ t[n + 1] = e /\ \A i \in 1..n : t[i] = s[i]
    BY <1>1, <1>2
  <1>4. \A i \in 1..n + 1 : i = n + 1 \/ i \in 1..n
    BY ONLY n \in Nat
  <1>5. ASSUME NEW i \in DOMAIN t, NEW j \in DOMAIN t, i < j PROVE t[i] < t[j]
    <2>1. i # n + 1
      BY ONLY i \in DOMAIN t, j \in DOMAIN t, <1>3, <1>5, n \in Nat
    <2>2. i \in 1..n /\ t[i] = s[i]
      BY <1>3, <1>4, <2>1
    <2>3. CASE j = n + 1
      BY <1>3, <2>2, <2>3 DEF Range
    <2>4. CASE j \in 1..n
      BY <1>3, <1>5, <2>2, <2>4 DEF Increasing
    <2> QED BY <1>3, <1>4, <2>3, <2>4
  <1>6. Increasing(t)
    BY <1>5 DEF Increasing
  <1>7. Range(Append(s, e)) = Range(s) \cup {e}
    BY RangeParts
  <1> QED BY <1>2, <1>6, <1>7

\* The next callback that waits is the one whose answer comes next.
LEMMA NextReply ==
    ASSUME AsyncTypes, Sane, Once, got # <<>>, replies # <<>>
    PROVE  /\ Wire[1].kind \in {"reply", "error"}
           /\ Wire[1].of = Head(replies) \/ (Wire[1].of = 0 /\ Wire[1].kind = "error")
  <1>1. Taken(Wire, Tail(got) \o server.out)
    BY TailTaken DEF AsyncTypes, Servers, Wire
  <1>2. 1 \in DOMAIN Wire
    BY <1>1, ShiftIs
  <1>3. PICK B : B = Tail(got) \o server.out
    OBVIOUS
  <1>4. Taken(Wire, B)
    BY <1>1, <1>3
  <1>5. Way(Wire, Asked, Range(replies), Range(invalid), issued, server.subs, socket = "closed")
    BY DEF Sane
  <1>6. replies \in Seq(Nat) /\ Increasing(replies)
    BY DEF AsyncTypes, Once
  <1>7. Head(replies) \in Range(replies) /\ Head(replies) \in Nat /\ \A x \in Range(replies) : Head(replies) <= x
    BY <1>6, FirstIs
  <1>8. ~ SubTalk(Wire[1])
    BY <1>4, <1>5, <1>7, NoTalkYet
  <1>9. Meant(Wire, issued)
    BY <1>5 DEF Way
  <1>10. \/ Wire[1].of \in GetsOf(issued) /\ Wire[1].kind \in {"reply", "error"}
         \/ Wire[1].of = 0 /\ Wire[1].kind = "error"
    BY <1>2, <1>8, <1>9 DEF Meant, SubTalk
  <1>11. \A x \in Range(replies) \cup Range(invalid) : Head(replies) <= x
    <2> SUFFICES ASSUME NEW x \in Range(invalid) PROVE Head(replies) <= x
      BY <1>7
    <2>1. Head(replies) < x /\ x \in Nat
      BY <1>7 DEF Once, AsyncTypes, Range
    <2> QED BY <1>7, <2>1
  <1>12. CASE Wire[1].of \in GetsOf(issued)
    <2>1. Wire[1].of = Head(replies)
      BY <1>4, <1>5, <1>7, <1>11, <1>12, NextIs
    <2> QED BY <1>10, <2>1
  <1> QED BY <1>10, <1>12

\* What comes when no regular callback waits.
LEMMA NextTalk ==
    ASSUME AsyncTypes, Sane, Once, got # <<>>, replies = <<>>, Wire[1].kind # "error"
    PROVE  /\ "subscribed" \in flags
           /\ \/ /\ Wire[1].kind = "reply" /\ invalid # <<>> /\ Wire[1].of = Head(invalid)
              \/ SubTalk(Wire[1]) /\ Wire[1].name \in DOMAIN subs
  <1>1. Taken(Wire, Tail(got) \o server.out)
    BY TailTaken DEF AsyncTypes, Servers, Wire
  <1>2. 1 \in DOMAIN Wire
    BY <1>1, ShiftIs
  <1>3. PICK B : B = Tail(got) \o server.out
    OBVIOUS
  <1>4. Taken(Wire, B)
    BY <1>1, <1>3
  <1>5. Way(Wire, Asked, Range(replies), Range(invalid), issued, server.subs, socket = "closed")
    BY DEF Sane
  <1>6. TalkKnown(Wire, subs) /\ ("subscribed" \notin flags => DOMAIN subs = {} /\ Range(invalid) = {})
    BY DEF Sane, Subbing
  <1>7. Range(replies) = {}
    BY DEF Range
  <1>8. Meant(Wire, issued) /\ Waits(Wire, issued, Range(replies) \cup Range(invalid))
    BY <1>5 DEF Way
  <1>9. \/ Wire[1].of \in GetsOf(issued) /\ Wire[1].kind = "reply"
        \/ SubTalk(Wire[1])
    BY <1>2, <1>8 DEF Meant, SubTalk
  <1>10. CASE SubTalk(Wire[1])
    <2>1. Wire[1].name \in DOMAIN subs
      BY <1>2, <1>6, <1>10 DEF TalkKnown
    <2> QED BY <1>6, <1>10, <2>1
  <1>11. CASE Wire[1].of \in GetsOf(issued) /\ Wire[1].kind = "reply"
    <2>1. Wire[1].of \in Range(invalid)
      BY <1>2, <1>7, <1>8, <1>11 DEF Waits
    <2>2. invalid # <<>> /\ "subscribed" \in flags
      BY <1>6, <2>1 DEF Range
    <2>3. invalid \in Seq(Nat) /\ Increasing(invalid)
      BY DEF AsyncTypes, Once
    <2>4. Head(invalid) \in Range(invalid) /\ \A x \in Range(invalid) : Head(invalid) <= x
      BY <2>2, <2>3, FirstIs
    <2>5. \A x \in Range(replies) \cup Range(invalid) : Head(invalid) <= x
      BY <1>7, <2>4
    <2>6. Wire[1].of = Head(invalid)
      BY <1>4, <1>5, <1>11, <2>4, <2>5, NextIs
    <2> QED BY <1>11, <2>2, <2>6
  <1> QED BY <1>9, <1>10, <1>11

LEMMA AnsweredNow ==
    ASSUME AsyncTypes, NEW id
    PROVE  AnsweredOf(issued, Answered(id), id) /\ AnsweredOf(issued, issued, 0)
  <1>1. AnsweredOf(issued, Answered(id), id)
    BY AnsweredIs DEF AnsweredOf
  <1>2. \A i \in DOMAIN issued : issued[i].open \in BOOLEAN
    <2>1. issued \in Seq([kind : CommandKinds, names : Seq(Names), open : BOOLEAN])
      BY DEF AsyncTypes, Issues
    <2>2. ASSUME NEW i \in DOMAIN issued PROVE issued[i] \in [kind : CommandKinds, names : Seq(Names), open : BOOLEAN]
      BY <2>1, ElementOfSeq, LenProperties
    <2> QED BY <2>2
  <1>3. AnsweredOf(issued, issued, 0)
    BY <1>2 DEF AnsweredOf
  <1> QED BY <1>1, <1>3

\* The number 0 waits for nothing.
LEMMA NoZero == ASSUME Sane PROVE 0 \notin Range(replies) \cup Range(invalid)
  BY DEF Sane, Way, GetsOf, Positive

\* The reply to a regular command.
RegularEffect(t) ==
    /\ t = Wire[1] /\ Taken(Wire, Wire') /\ Asked' = Asked /\ server' = server /\ t \in Tokens
    /\ t.kind \in {"reply", "error"} /\ (t.of = Head(replies) \/ (t.of = 0 /\ t.kind = "error"))
    /\ replies # <<>> /\ replies' = Tail(replies) /\ Called(Head(replies), t) /\ Head(replies) \in Nat
    /\ AnsweredOf(issued, issued', t.of) /\ UNCHANGED <<invalid, subs, socket, careless, aborted>>
LEMMA RegularIs ==
    ASSUME AsyncTypes, Sane, Once, RegularReply
    PROVE  RegularEffect(Wire[1])
  <1>1. /\ got # <<>> /\ replies # <<>> /\ got' = Tail(got) /\ replies' = Tail(replies)
        /\ RunCallback(Head(replies), Head(got), "ranregular")
        /\ issued' = IF Head(got).kind = "line" THEN issued ELSE Answered(Head(got).of)
        /\ UNCHANGED <<invalid, subs, obuf, server, socket, careless, aborted>>
    BY DEF RegularReply
  <1>2. Taken(Wire, Wire') /\ Wire[1] = Head(got) /\ Asked' = Asked /\ Head(got) \in Tokens
    BY <1>1, TakesReply
  <1>3. Wire[1].kind \in {"reply", "error"} /\ (Wire[1].of = Head(replies) \/ (Wire[1].of = 0 /\ Wire[1].kind = "error"))
    BY <1>1, NextReply
  <1>4. Called(Head(replies), Wire[1])
    BY <1>1, <1>2, CallIs
  <1>5. issued' = Answered(Wire[1].of)
    BY <1>1, <1>2, <1>3
  <1>6. AnsweredOf(issued, issued', Wire[1].of)
    BY <1>5, AnsweredNow
  <1>7. Head(replies) \in Nat
    BY <1>1, NumberHead DEF AsyncTypes
  <1> QED BY <1>1, <1>2, <1>3, <1>4, <1>6, <1>7 DEF RegularEffect

LEMMA RegularKeepsSane ==
    ASSUME AsyncTypes, Sane, Once, RegularReply, "subscribed" \in flags' <=> "subscribed" \in flags
    PROVE  Sane'
  <1>1. PICK t : t = Wire[1]
    OBVIOUS
  <1>2. RegularEffect(t)
    BY <1>1, RegularIs
  <1>3. /\ Wire[1] = t /\ Taken(Wire, Wire') /\ Asked' = Asked /\ server' = server
        /\ t.kind \in {"reply", "error"} /\ (t.of = Head(replies) \/ (t.of = 0 /\ t.kind = "error"))
        /\ replies # <<>> /\ replies' = Tail(replies)
        /\ AnsweredOf(issued, issued', t.of) /\ UNCHANGED <<invalid, subs, socket>>
    BY <1>2 DEF RegularEffect
  <1>4. PICK B, J, R2 : B = Wire' /\ J = issued' /\ R2 = Range(replies')
    OBVIOUS
  <1>5. Taken(Wire, B) /\ AnsweredOf(issued, J, Wire[1].of)
    BY <1>3, <1>4
  <1>6. replies \in Seq(Nat) /\ Increasing(replies)
    BY DEF AsyncTypes, Once
  <1>7. R2 = Range(replies) \ {Head(replies)}
    <2>1. Range(Tail(replies)) = Range(replies) \ {Head(replies)}
      BY <1>3, <1>6, FirstIs
    <2> QED BY <1>3, <1>4, <2>1
  <1>8. Way(Wire, Asked, Range(replies), Range(invalid), issued, server.subs, socket = "closed")
        /\ Subbing(Wire, Asked, Range(invalid), subs, server.subs, "subscribed" \in flags)
    BY DEF Sane
  <1>9. Head(replies) \in Range(replies) /\ Head(replies) \notin Range(invalid)
    <2>1. Head(replies) \in Range(replies) /\ Head(replies) \in Nat
      BY <1>3, <1>6, FirstIs
    <2>2. \A v \in Range(invalid) : Head(replies) < v
      BY <2>1 DEF Once
    <2>3. ~ (Head(replies) < Head(replies))
      BY <2>1
    <2> QED BY <2>1, <2>2, <2>3
  <1>10. Wire[1].of \notin R2 \cup Range(invalid)
    <2>1. CASE t.of = Head(replies)
      BY <1>3, <1>7, <1>9, <2>1
    <2>2. CASE t.of = 0
      BY <1>3, <1>7, <2>2, NoZero
    <2> QED BY <1>3, <2>1, <2>2
  <1>11. (Range(replies) \cup Range(invalid)) \ {Wire[1].of} \subseteq R2 \cup Range(invalid) \/ (socket = "closed" /\ DOMAIN B = {})
    <2>1. CASE t.of = Head(replies)
      BY <1>3, <1>7, <2>1
    <2>2. CASE t.of = 0 /\ t.kind = "error"
      <3>1. 1 \in DOMAIN Wire
        BY <1>5, ShiftIs
      <3>2. socket = "closed" /\ \A k \in DOMAIN Wire : k <= 1
        BY <1>3, <1>8, <2>2, <3>1 DEF Way, ErrorLast
      <3>3. ASSUME NEW i \in DOMAIN B PROVE FALSE
        <4>1. i + 1 \in DOMAIN Wire /\ 1 < i + 1 /\ i \in Nat
          BY <1>5, ShiftIs
        <4>2. i + 1 <= 1
          BY <3>2, <4>1
        <4> QED BY ONLY <4>1, <4>2
      <3> QED BY <3>2, <3>3
    <2> QED BY <1>3, <2>1, <2>2
  <1>12. R2 \subseteq Range(replies)
    BY <1>7
  <1>13. Way(B, Asked, R2, Range(invalid), J, server.subs, socket = "closed")
    BY <1>5, <1>8, <1>10, <1>11, <1>12, TakeWay
  <1>14. Subbing(B, Asked, Range(invalid), subs, server.subs, "subscribed" \in flags)
    BY <1>5, <1>8, TakeSubbing, PendingInt
  <1>15. /\ Way(Wire', Asked', Range(replies'), Range(invalid'), issued', server'.subs, socket' = "closed")
         /\ Subbing(Wire', Asked', Range(invalid'), subs', server'.subs, "subscribed" \in flags')
    <2>1. ("subscribed" \in flags') = ("subscribed" \in flags)
      OBVIOUS
    <2> QED BY <1>3, <1>4, <1>13, <1>14, <2>1
  <1> QED BY <1>15, SaneLater

\* A reply given to a subscription's callback, or to that of a regular command in subscribed mode.
SubscribeEffect(t) ==
    /\ t = Wire[1] /\ Taken(Wire, Wire') /\ Asked' = Asked /\ server' = server /\ t \in Tokens
    /\ replies = <<>> /\ replies' = replies /\ AnsweredOf(issued, issued', t.of)
    /\ UNCHANGED <<socket, careless, aborted>> /\ "subscribed" \in flags
    /\ \/ /\ t.kind = "reply" /\ invalid # <<>> /\ t.of = Head(invalid) /\ invalid' = Tail(invalid) /\ subs' = subs
          /\ Called(Head(invalid), t) /\ "subscribed" \in flags'
       \/ /\ SubTalk(t) /\ t.name \in DOMAIN subs /\ invalid' = invalid /\ Called(subs[t.name].id, t)
          /\ SubsAfter(t, subs') /\ ("subscribed" \in flags' \/ (t.kind = "unsub" /\ DOMAIN subs' = {}))
LEMMA SubscribeOutcome ==
    ASSUME AsyncTypes, Sane, Once, SubscribeReply
    PROVE  SubscribeEffect(Wire[1])
  <1>1. PICK t : t = Head(got)
    OBVIOUS
  <1>2. /\ got # <<>> /\ got' = Tail(got) /\ replies = <<>> /\ t.kind # "error"
        /\ cb' = SubscribeCallback(t) /\ SubsAfter(t, subs')
        /\ invalid' = IF "subscribed" \in flags /\ t.kind \in {"reply", "line"} /\ invalid # <<>> THEN Tail(invalid) ELSE invalid
        /\ issued' = IF t.kind \in {"message", "line"} THEN issued ELSE Answered(t.of)
        /\ UNCHANGED <<replies, obuf, socket, server, careless, aborted>>
    BY <1>1, SubscribeIs
  <1>3. \/ cb' = NoFn /\ UNCHANGED ran
        \/ cb' # NoFn /\ ran' = Append(ran, [id |-> cb', reply |-> t])
    BY <1>1, SubscribeIs
  <1>4. Called(cb', t)
    BY <1>3 DEF Called, NoFn
  <1>5. "subscribed" \in flags => "subscribed" \in flags' \/ (Ended(t) /\ DOMAIN subs' = {})
    <2>1. LET left == IF Ended(t) /\ DOMAIN subs' = {} THEN flags \ {"subscribed"} ELSE flags
          IN  flags' = left \/ flags' = left \cup {"incallback"}
      BY <1>1, SubscribeIs
    <2> QED BY <2>1
  <1>6. Taken(Wire, Wire') /\ Wire[1] = t /\ Asked' = Asked /\ t \in Tokens
    BY <1>1, <1>2, TakesReply
  <1>7. /\ "subscribed" \in flags
        /\ \/ t.kind = "reply" /\ invalid # <<>> /\ t.of = Head(invalid)
           \/ SubTalk(t) /\ t.name \in DOMAIN subs
    BY <1>2, <1>6, NextTalk
  <1>8. AnsweredOf(issued, issued', t.of)
    <2>1. CASE t.kind = "message"
      <3>1. t.of = 0
        <4>1. 1 \in DOMAIN Wire
          BY <1>6, ShiftIs
        <4>2. Meant(Wire, issued)
          BY DEF Sane, Way
        <4> QED BY <1>6, <2>1, <4>1, <4>2 DEF Meant
      <3>2. issued' = issued
        BY <1>2, <2>1
      <3> QED BY <3>1, <3>2, AnsweredNow
    <2>2. CASE t.kind # "message"
      <3>1. issued' = Answered(t.of)
        BY <1>2, <1>7, <2>2 DEF SubTalk
      <3> QED BY <3>1, AnsweredNow
    <2> QED BY <2>1, <2>2
  <1>9. CASE t.kind = "reply" /\ invalid # <<>> /\ t.of = Head(invalid)
    <2>1. cb' = Head(invalid) /\ invalid' = Tail(invalid)
      BY <1>2, <1>7, <1>9 DEF SubscribeCallback
    <2>2. subs' = subs
      BY <1>2, <1>9 DEF SubsAfter, Gone
    <2>3. "subscribed" \in flags'
      BY <1>5, <1>7, <1>9 DEF Ended
    <2> QED BY <1>2, <1>4, <1>6, <1>7, <1>8, <1>9, <2>1, <2>2, <2>3 DEF SubscribeEffect
  <1>10. CASE SubTalk(t) /\ t.name \in DOMAIN subs
    <2>1. cb' = subs[t.name].id /\ invalid' = invalid
      BY <1>2, <1>7, <1>10 DEF SubscribeCallback, SubTalk
    <2>2. "subscribed" \in flags' \/ (t.kind = "unsub" /\ DOMAIN subs' = {})
      BY <1>5, <1>7 DEF Ended
    <2> QED BY <1>2, <1>4, <1>6, <1>7, <1>8, <1>10, <2>1, <2>2 DEF SubscribeEffect
  <1> QED BY <1>7, <1>9, <1>10

LEMMA SubscribeKeepsSane ==
    ASSUME AsyncTypes, Sane, Once, SubscribeReply
    PROVE  Sane'
  <1>1. PICK t : t = Wire[1]
    OBVIOUS
  <1>2. SubscribeEffect(t)
    BY <1>1, SubscribeOutcome
  <1>3. /\ Wire[1] = t /\ Taken(Wire, Wire') /\ Asked' = Asked /\ server' = server
        /\ replies = <<>> /\ replies' = replies
        /\ AnsweredOf(issued, issued', t.of) /\ UNCHANGED socket /\ "subscribed" \in flags
    BY <1>2 DEF SubscribeEffect
  <1>4. PICK B, J, V2, D2, f : B = Wire' /\ J = issued' /\ V2 = Range(invalid') /\ D2 = subs' /\ f = ("subscribed" \in flags')
    OBVIOUS
  <1>5. Taken(Wire, B) /\ AnsweredOf(issued, J, Wire[1].of) /\ 1 \in DOMAIN Wire
    BY <1>3, <1>4, ShiftIs
  <1>6. Way(Wire, Asked, Range(replies), Range(invalid), issued, server.subs, socket = "closed")
        /\ Subbing(Wire, Asked, Range(invalid), subs, server.subs, "subscribed" \in flags)
    BY DEF Sane
  <1>7. Meant(Wire, issued) /\ Positive(issued) /\ Range(replies) \cup Range(invalid) \subseteq GetsOf(issued)
    BY <1>6 DEF Way
  <1>8. Range(replies) = {}
    BY <1>3 DEF Range
  <1>9. Way(B, Asked, Range(replies), V2, J, server.subs, socket = "closed") /\ Subbing(B, Asked, V2, D2, server.subs, f)
    <2>1. CASE t.kind = "reply"
      <3>1. invalid # <<>> /\ t.of = Head(invalid) /\ invalid' = Tail(invalid) /\ subs' = subs /\ "subscribed" \in flags'
        BY <1>2, <2>1 DEF SubscribeEffect, SubTalk
      <3>2. invalid \in Seq(Nat) /\ Increasing(invalid)
        BY DEF AsyncTypes, Once
      <3>3. Range(Tail(invalid)) = Range(invalid) \ {Head(invalid)}
        BY <3>1, <3>2, FirstIs
      <3>4. V2 = Range(invalid) \ {Wire[1].of}
        BY <1>3, <1>4, <3>1, <3>3
      <3>5. Way(B, Asked, Range(replies), V2, J, server.subs, socket = "closed")
        <4>1. Wire[1].of \notin Range(replies) \cup V2 /\ V2 \subseteq Range(invalid)
              /\ (Range(replies) \cup Range(invalid)) \ {Wire[1].of} \subseteq Range(replies) \cup V2
          BY <1>8, <3>4
        <4> QED BY <1>5, <1>6, <4>1, TakeWay
      <3>6. Subbing(B, Asked, V2, subs, server.subs, "subscribed" \in flags)
        BY <1>5, <1>6, <3>4, TakeSubbing, PendingInt
      <3>7. f = ("subscribed" \in flags)
        BY <1>3, <1>4, <3>1
      <3> QED BY <1>4, <3>1, <3>5, <3>6, <3>7
    <2>2. CASE t.kind # "reply"
      <3>1. /\ SubTalk(t) /\ t.name \in DOMAIN subs /\ invalid' = invalid /\ SubsAfter(t, D2)
            /\ f \/ (t.kind = "unsub" /\ DOMAIN D2 = {})
        BY <1>2, <1>4, <2>2 DEF SubscribeEffect
      <3>2. Wire[1].of \notin Range(replies) \cup Range(invalid)
        <4>1. Wire[1].of = 0 \/ (Wire[1].of \in DOMAIN issued /\ issued[Wire[1].of].kind \in {"sub", "unsub"})
          BY <1>3, <1>5, <1>7, <3>1 DEF Meant, SubTalk
        <4> QED BY <1>7, <4>1 DEF GetsOf, Positive
      <3>3. V2 = Range(invalid)
        BY <1>4, <3>1
      <3>4. Way(B, Asked, Range(replies), V2, J, server.subs, socket = "closed")
        <4>1. Range(replies) \subseteq Range(replies) /\ Range(invalid) \subseteq Range(invalid)
              /\ (Range(replies) \cup Range(invalid)) \ {Wire[1].of} \subseteq Range(replies) \cup Range(invalid)
          OBVIOUS
        <4>2. Way(B, Asked, Range(replies), Range(invalid), J, server.subs, socket = "closed")
          BY <1>5, <1>6, <3>2, <4>1, TakeWay
        <4> QED BY <3>3, <4>2
      <3>5. PICK n : n = t.name
        OBVIOUS
      <3>6. Subbing(B, Asked, V2, subs, server.subs, "subscribed" \in flags)
        BY <1>5, <1>6, <3>3, TakeSubbing, PendingInt
      <3>7. CASE t.kind = "sub"
        <4>1. D2 = [subs EXCEPT ![n].pending = @ - 1]
          BY <1>3, <3>1, <3>5, <3>7 DEF SubsAfter
        <4>2. DOMAIN D2 = DOMAIN subs /\ (\A m \in DOMAIN subs \ {n} : D2[m] = subs[m]) /\ D2[n].pending = subs[n].pending - 1
          BY <3>1, <3>5, <4>1, SubsOneLess
        <4>3. Subbing(B, Asked, Range(invalid), D2, server.subs, "subscribed" \in flags)
          BY <1>3, <1>5, <1>6, <3>1, <3>5, <3>7, <4>2, TakeSub, PendingInt
        <4>4. f = ("subscribed" \in flags)
          BY <1>3, <1>4, <3>1, <3>7
        <4> QED BY <3>3, <3>4, <4>3, <4>4
      <3>8. CASE t.kind = "unsub" /\ subs[n].pending = 0
        <4>1. D2 = [m \in DOMAIN subs \ {n} |-> subs[m]]
          BY <1>3, <3>1, <3>5, <3>8 DEF SubsAfter, Gone, Unsubscribed
        <4>2. DOMAIN D2 = DOMAIN subs \ {n} /\ \A m \in DOMAIN subs \ {n} : D2[m] = subs[m]
          BY <4>1, SubsWithout
        <4>3. f = ("subscribed" \in flags) \/ DOMAIN D2 = {}
          BY <1>3, <1>4, <3>1
        <4>4. PICK A, Q, H, closed, q : /\ A = Wire /\ Q = Asked /\ H = server.subs /\ closed = (socket = "closed")
                                        /\ q = ("subscribed" \in flags)
          OBVIOUS
        <4>5. Way(A, Q, Range(replies), Range(invalid), issued, H, closed) /\ Subbing(A, Q, Range(invalid), subs, H, q)
              /\ Taken(A, B) /\ A[1].kind = "unsub" /\ n = A[1].name /\ n \in DOMAIN subs /\ subs[n].pending = 0
          BY <1>3, <1>5, <1>6, <3>1, <3>5, <3>8, <4>4
        <4>6. f = q \/ DOMAIN D2 = {}
          BY <4>3, <4>4
        <4>7. \A m \in DOMAIN subs : subs[m].pending \in Int
          BY PendingInt
        <4>8. Subbing(B, Q, Range(invalid), D2, H, f)
          BY ONLY <4>2, <4>5, <4>6, <4>7, TakeUnsub
        <4>9. Subbing(B, Asked, Range(invalid), D2, server.subs, f)
          BY <4>4, <4>8
        <4> QED BY <3>3, <3>4, <4>9
      <3>9. CASE t.kind = "message" \/ (t.kind = "unsub" /\ subs[n].pending # 0)
        <4>1. D2 = subs
          BY <1>3, <3>1, <3>5, <3>9 DEF SubsAfter, Gone, Unsubscribed
        <4>2. f = ("subscribed" \in flags)
          BY <1>3, <1>4, <3>1, <4>1
        <4> QED BY <3>4, <3>6, <4>1, <4>2
      <3> QED BY <3>1, <3>7, <3>8, <3>9 DEF SubTalk
    <2> QED BY <2>1, <2>2
  <1>10. /\ Way(Wire', Asked', Range(replies'), Range(invalid'), issued', server'.subs, socket' = "closed")
         /\ Subbing(Wire', Asked', Range(invalid'), subs', server'.subs, "subscribed" \in flags')
    BY <1>3, <1>4, <1>9
  <1> QED BY <1>10, SaneLater

\* Where the callback of a new command waits.
CommandPlaces(c, id) ==
    /\ UNCHANGED <<socket, careless, aborted, ran>>
    /\ c.kind # "sub" => \A u \in DOMAIN issued : issued[u].kind = "unsub" => ~ issued[u].open
    /\ \/ /\ c.kind = "sub" /\ UNCHANGED <<replies, invalid>> /\ subs' = AddNames(c.names, id) /\ "subscribed" \in flags'
       \/ /\ c.kind = "unsub" /\ UNCHANGED <<replies, invalid, subs, flags>> /\ Range(c.names) \subseteq DOMAIN subs
       \/ /\ c.kind = "get" /\ "subscribed" \in flags /\ invalid' = Append(invalid, id) /\ UNCHANGED <<replies, subs, flags>>
       \/ /\ c.kind = "get" /\ "subscribed" \notin flags /\ replies' = Append(replies, id) /\ UNCHANGED <<invalid, subs, flags>>
LEMMA CommandPlace ==
    ASSUME NEW c \in AsyncCommands, AsyncCommand(c), ~ careless, "monitoring" \notin flags', NEW id, CommandEffect(c, id)
    PROVE  CommandPlaces(c, id) /\ "monitoring" \notin flags /\ c.kind # "monitor"
  <1>1. id = Len(issued) + 1
    BY DEF CommandEffect
  <1>2. UNCHANGED <<socket, careless, aborted, ran>>
    BY DEF AsyncCommand
  <1>3. "monitoring" \notin flags /\ c.kind # "monitor"
    BY DEF AsyncCommand, Careful
  <1>4. c.kind # "sub" => \A u \in DOMAIN issued : issued[u].kind = "unsub" => ~ issued[u].open
    BY DEF AsyncCommand, Careful, Unanswered
  <1>5. c.kind = "unsub" => Range(c.names) \subseteq DOMAIN subs
    BY DEF AsyncCommand, Careful
  <1>6. \/ /\ c.kind = "sub" /\ UNCHANGED <<replies, invalid>> /\ subs' = AddNames(c.names, id) /\ "subscribed" \in flags'
        \/ /\ c.kind = "unsub" /\ UNCHANGED <<replies, invalid, subs, flags>>
        \/ /\ c.kind = "get" /\ "subscribed" \in flags /\ invalid' = Append(invalid, id) /\ UNCHANGED <<replies, subs, flags>>
        \/ /\ c.kind = "get" /\ "subscribed" \notin flags /\ replies' = Append(replies, id) /\ UNCHANGED <<invalid, subs, flags>>
    BY <1>1, <1>3 DEF AsyncCommand
  <1> QED BY <1>2, <1>3, <1>4, <1>5, <1>6 DEF CommandPlaces

LEMMA CommandSane ==
    ASSUME FrameInv, ToldInv, AsyncTypes, SaneInv, OnceInv, NEW c \in AsyncCommands, AsyncCommand(c)
    PROVE  SaneInv'
  <1> SUFFICES ASSUME Working' PROVE Sane'
    BY DEF SaneInv
  <1>1. PICK id : CommandEffect(c, id)
    BY CommandIs
  <1>2. careless' = careless
    BY DEF AsyncCommand
  <1>3. ~ careless /\ "monitoring" \notin flags'
    BY <1>2 DEF Working
  <1>4. CommandPlaces(c, id) /\ "monitoring" \notin flags /\ c.kind # "monitor"
    BY <1>1, <1>3, CommandPlace
  <1>5. Working
    BY <1>3, <1>4, CommandFrames DEF Working
  <1>6. Sane
    BY <1>5 DEF SaneInv
  <1>7. PICK e : e = [kind |-> c.kind, names |-> c.names, id |-> id]
    OBVIOUS
  <1>8. e.id = id /\ e.kind = c.kind /\ e.names = c.names
    BY <1>7
  <1>9. PICK P, J, R2, V2, D2 : P = Asked' /\ J = issued' /\ R2 = Range(replies') /\ V2 = Range(invalid') /\ D2 = subs'
    OBVIOUS
  <1>10. Issued(issued, J, id) /\ J[id].kind = c.kind
    BY <1>1, <1>9 DEF CommandEffect, Issued, Ids
  <1>11. Added(Asked, P, e) /\ Wire' = Wire /\ server' = server
    BY <1>1, <1>7, <1>9 DEF CommandEffect
  <1>12. c.names \in Seq(Names)
    BY NamesAre
  <1>13. c.names # <<>> => Range(c.names) # {}
    BY <1>12, RangeParts
  <1>14. c.names = <<>> => Range(c.names) = {}
    BY DEF Range
  <1>15. AskedRight(e, J)
    <2>1. id \in DOMAIN J
      BY <1>10 DEF Issued
    <2> QED BY <1>8, <1>10, <1>13, <1>14, <2>1, <1>4, NamesAre DEF AskedRight, CommandKinds
  <1>16. /\ Way(Wire, Asked, Range(replies), Range(invalid), issued, server.subs, socket = "closed")
         /\ Subbing(Wire, Asked, Range(invalid), subs, server.subs, "subscribed" \in flags)
    BY <1>6 DEF Sane
  <1>17. e.kind # "sub" => \A u \in DOMAIN issued : issued[u].kind = "unsub" => ~ issued[u].open
    BY <1>4, <1>8 DEF CommandPlaces
  <1>18. socket' = socket
    BY <1>4 DEF CommandPlaces
  <1>19. id \in Nat
    BY <1>10 DEF Issued
  <1>20. CASE c.kind = "sub" /\ UNCHANGED <<replies, invalid>> /\ subs' = AddNames(c.names, id) /\ "subscribed" \in flags'
    <2>1. R2 = Range(replies) /\ V2 = Range(invalid)
      BY <1>9, <1>20
    <2>2. Way(Wire, P, R2, V2, J, server.subs, socket = "closed")
      BY <1>8, <1>10, <1>11, <1>15, <1>16, <1>17, <1>20, <2>1, AskWay
    <2>3. /\ DOMAIN D2 = DOMAIN subs \cup Range(e.names)
          /\ \A n \in Range(e.names) : D2[n] \in [id : Nat, pending : Int]
          /\ \A n \in DOMAIN subs \ Range(e.names) : D2[n] = subs[n]
          /\ \A n \in Range(e.names) :
                  /\ n \in DOMAIN subs => D2[n].pending = subs[n].pending + 1
                  /\ (\A m \in DOMAIN subs : subs[m].pending >= 0) => D2[n].pending >= 1
      <3>1. PICK ns \in Seq(Names) : ns = c.names
        BY <1>12
      <3>2. D2 = AddNames(ns, id) /\ e.names = ns
        BY <1>8, <1>9, <1>20, <3>1
      <3>3. /\ DOMAIN AddNames(ns, id) = DOMAIN subs \cup Range(ns)
            /\ \A n \in Range(ns) : AddNames(ns, id)[n] \in [id : Nat, pending : Int]
            /\ \A n \in DOMAIN subs \ Range(ns) : AddNames(ns, id)[n] = subs[n]
            /\ \A n \in Range(ns) :
                  /\ n \in DOMAIN subs => AddNames(ns, id)[n].pending = subs[n].pending + 1
                  /\ (\A m \in DOMAIN subs : subs[m].pending >= 0) => AddNames(ns, id)[n].pending >= 1
        BY <1>19, AddNamesIs
      <3> QED BY ONLY <3>2, <3>3
    <2>4. \A m \in DOMAIN subs : subs[m].pending \in Int
      BY PendingInt
    <2>5. \A m \in DOMAIN D2 : D2[m].pending \in Int
      <3> SUFFICES ASSUME NEW m \in DOMAIN D2 PROVE D2[m].pending \in Int
        OBVIOUS
      <3>1. CASE m \in Range(e.names)
        <4>1. D2[m] \in [id : Nat, pending : Int]
          BY <2>3, <3>1
        <4> QED BY <4>1
      <3>2. CASE m \notin Range(e.names)
        BY <2>3, <2>4, <3>2
      <3> QED BY <3>1, <3>2
    <2>6. e.kind = "sub"
      BY <1>8, <1>20
    <2>7. PICK A, Q, V, H, q : A = Wire /\ Q = Asked /\ V = Range(invalid) /\ H = server.subs /\ q = ("subscribed" \in flags)
      OBVIOUS
    <2>8. Subbing(A, Q, V, subs, H, q) /\ Added(Q, P, e)
      BY <1>11, <1>16, <2>7
    <2>9. Subbing(A, P, V, D2, H, TRUE)
      BY ONLY <2>3, <2>4, <2>5, <2>6, <2>8, AskSub
    <2>10. Subbing(Wire, P, V2, D2, server.subs, TRUE)
      BY <2>1, <2>7, <2>9
    <2>11. ("subscribed" \in flags') = TRUE
      BY <1>20
    <2> QED BY <1>9, <1>11, <1>18, <2>2, <2>10, <2>11, SaneLater
  <1>21. CASE c.kind = "unsub" /\ UNCHANGED <<replies, invalid, subs, flags>> /\ Range(c.names) \subseteq DOMAIN subs
    <2>1. R2 = Range(replies) /\ V2 = Range(invalid) /\ D2 = subs
      BY <1>9, <1>21
    <2>2. Way(Wire, P, R2, V2, J, server.subs, socket = "closed")
      BY <1>8, <1>10, <1>11, <1>15, <1>16, <1>17, <1>21, <2>1, AskWay
    <2>3. Subbing(Wire, P, V2, D2, server.subs, "subscribed" \in flags)
      BY <1>8, <1>11, <1>16, <1>21, <2>1, AskSubbing, PendingInt
    <2>4. ("subscribed" \in flags') = ("subscribed" \in flags)
      BY <1>21
    <2> QED BY <1>9, <1>11, <1>18, <2>2, <2>3, <2>4, SaneLater
  <1>22. CASE c.kind = "get" /\ "subscribed" \in flags /\ invalid' = Append(invalid, id) /\ UNCHANGED <<replies, subs, flags>>
    <2>1. Range(Append(invalid, id)) = Range(invalid) \cup {id}
      BY <1>19, RangeParts DEF AsyncTypes
    <2>2. R2 = Range(replies) /\ V2 = Range(invalid) \cup {id} /\ D2 = subs
      BY <1>9, <1>22, <2>1
    <2>3. Way(Wire, P, R2, V2, J, server.subs, socket = "closed")
      BY <1>8, <1>10, <1>11, <1>15, <1>16, <1>17, <1>22, <2>2, AskWay
    <2>4. Range(e.names) = {}
      BY <1>8, <1>14, <1>22, NamesAre
    <2>5. Subbing(Wire, P, V2, D2, server.subs, "subscribed" \in flags)
      BY <1>8, <1>11, <1>16, <1>22, <2>2, <2>4, AskSubbing, PendingInt
    <2>6. ("subscribed" \in flags') = ("subscribed" \in flags)
      BY <1>22
    <2> QED BY <1>9, <1>11, <1>18, <2>3, <2>5, <2>6, SaneLater
  <1>23. CASE c.kind = "get" /\ "subscribed" \notin flags /\ replies' = Append(replies, id) /\ UNCHANGED <<invalid, subs, flags>>
    <2>1. Range(Append(replies, id)) = Range(replies) \cup {id}
      BY <1>19, RangeParts DEF AsyncTypes
    <2>2. R2 = Range(replies) \cup {id} /\ V2 = Range(invalid) /\ D2 = subs
      BY <1>9, <1>23, <2>1
    <2>3. DOMAIN subs = {} /\ TalkKnown(Wire, subs) /\ AskedKnown(Asked, subs) /\ server.subs \subseteq DOMAIN subs
      BY <1>16, <1>23 DEF Subbing
    <2>4. server.subs = {} /\ \A i \in DOMAIN Wire : ~ SubTalk(Wire[i])
      BY <2>3 DEF TalkKnown
    <2>5. \A j \in DOMAIN Asked : Asked[j].kind = "get"
      <3>1. Asking(Asked, issued)
        BY <1>16 DEF Way
      <3> QED BY <2>3, <3>1 DEF AskedKnown, Asking
    <2>6. Way(Wire, P, R2, V2, J, server.subs, socket = "closed")
      BY <1>8, <1>10, <1>11, <1>15, <1>16, <1>17, <1>23, <2>2, <2>4, <2>5, AskWay
    <2>7. Range(e.names) = {}
      BY <1>8, <1>14, <1>23, NamesAre
    <2>8. Subbing(Wire, P, V2, D2, server.subs, "subscribed" \in flags)
      BY <1>8, <1>11, <1>16, <1>23, <2>2, <2>7, AskSubbing, PendingInt
    <2>9. ("subscribed" \in flags') = ("subscribed" \in flags)
      BY <1>23
    <2> QED BY <1>9, <1>11, <1>18, <2>6, <2>8, <2>9, SaneLater
  <1> QED BY <1>4, <1>20, <1>21, <1>22, <1>23 DEF CommandPlaces

\* What comes and what waits fit together in all steps.
LEMMA SaneStep == FrameInv /\ ToldInv /\ AsyncTypes /\ KindsInv /\ SaneInv /\ OnceInv /\ [AsyncNext]_acVars => SaneInv'
  <1> SUFFICES ASSUME FrameInv, ToldInv, AsyncTypes, KindsInv, SaneInv, OnceInv, [AsyncNext]_acVars PROVE SaneInv'
    OBVIOUS
  <1>1. CASE \E c \in AsyncCommands : AsyncCommand(c)
    BY <1>1, CommandSane
  <1>2. CASE RegularReply \/ SubscribeReply
    <2>1. careless' = careless /\ FrameInv /\ ToldInv
      BY <1>2 DEF RegularReply, SubscribeReply
    <2>2. ~ Teardown /\ ~ Teardown' /\ socket # "freed" /\ ("monitoring" \in flags' <=> "monitoring" \in flags)
      BY <1>2, ReplyFrames
    <2> SUFFICES ASSUME Working' PROVE Sane'
      BY DEF SaneInv
    <2>3. Sane /\ Once
      BY <2>1, <2>2 DEF Working, SaneInv, OnceInv
    <2>4. RegularReply => ("subscribed" \in flags' <=> "subscribed" \in flags)
      BY ReplyFrames DEF Calm
    <2> QED BY <1>2, <2>3, <2>4, RegularKeepsSane, SubscribeKeepsSane
  <1>3. CASE Serves \/ Publishes \/ Closes
    BY <1>3, ServerSane
  <1>4. CASE FreeReplies \/ FreeInvalid \/ FreeSubs \/ Freed \/ SpontaneousError
    BY <1>4, TornSane
  <1>5. CASE SubscribeAssert \/ UNCHANGED acVars
    BY <1>5, AssertSane
  <1>6. CASE AsyncFree \/ AsyncDisconnect \/ DisconnectNow \/ CallbackReturns \/ FreeRepliesDone \/ ConnectFailed
             \/ HandleWrite \/ HandleRead \/ RanRegular \/ BufferRead \/ BufferWrite \/ NoMore
    BY <1>6, QuietSane
  <1>7. OtherStep \/ \E c \in AsyncCommands : AsyncCommand(c)
    BY StepIs
  <1> QED BY <1>1, <1>2, <1>3, <1>4, <1>5, <1>6, <1>7 DEF OtherStep, Library

-----------------------------------------------------------------------------
(* Callbacks run once. *)

\* The callbacks of regular commands wait or have run, and only once, when the next of them runs, or another callback.
LEMMA RunOnce ==
    ASSUME AsyncTypes, Once, NEW id \in Nat, NEW t \in Tokens, Called(id, t), GetsOf(issued') = GetsOf(issued),
           CallbacksLeft' = CallbacksLeft \ {id}, Increasing(replies'), Increasing(invalid'),
           Range(replies') \subseteq Range(replies), Range(invalid') \subseteq Range(invalid),
           id \in GetsOf(issued) => /\ id \in CallbacksLeft /\ \A w \in CallbacksLeft : id <= w
                                    /\ t.kind = "null" \/ t.of = id \/ (t.of = 0 /\ t.kind = "error")
    PROVE  Once'
  <1> DEFINE G == GetsOf(issued)
  <1>1. PICK n \in Nat : n = Len(ran)
    BY RanIs
  <1>2. PICK q : q = ran'
    OBVIOUS
  <1>3. /\ DOMAIN ran = 1..n
        /\ id = 0 => q = ran
        /\ id # 0 => DOMAIN q = 1..n + 1 /\ (\A i \in 1..n : q[i] = ran[i]) /\ q[n + 1].id = id /\ q[n + 1].reply = t
    BY <1>1, <1>2, RanIs
  <1>4. PICK W, W2 : W = CallbacksLeft /\ W2 = CallbacksLeft'
    OBVIOUS
  <1>5. W \subseteq G /\ W2 = W \ {id}
    BY <1>4 DEF Once
  <1>6. 0 \notin G /\ G \subseteq Nat
    BY LenProperties DEF GetsOf, AsyncTypes, Issues
  <1>7. \A x \in G : x \in W \/ \E i \in DOMAIN ran : ran[i].id = x
    BY <1>4 DEF Once
  <1>8. ASSUME NEW i \in DOMAIN ran, ran[i].id \in G
        PROVE  /\ OwnAnswer(ran[i]) /\ \A w \in W : ran[i].id < w
               /\ \A k \in DOMAIN ran : k < i /\ ran[k].id \in G => ran[k].id < ran[i].id
    BY <1>4, <1>8 DEF Once
  <1>9. (\A i \in 1..n + 1 : i = n + 1 \/ i \in 1..n) /\ n + 1 \in 1..n + 1 /\ 1..n \subseteq 1..n + 1 /\ 1..n \subseteq Nat
        /\ (\A i \in 1..n : ~ (n + 1 < i)) /\ ~ (n + 1 < n + 1)
    BY ONLY n \in Nat
  <1>10. ASSUME NEW x \in G PROVE x \in W2 \/ \E i \in DOMAIN q : q[i].id = x
    <2>1. CASE x = id
      <3>1. id # 0
        BY <1>6, <2>1
      <3>2. n + 1 \in DOMAIN q /\ q[n + 1].id = x
        BY <1>3, <1>9, <2>1, <3>1
      <3> QED BY <3>2
    <2>2. CASE x # id /\ x \in W
      BY <1>5, <2>2
    <2>3. CASE \E i \in DOMAIN ran : ran[i].id = x
      <3>1. PICK i \in DOMAIN ran : ran[i].id = x
        BY <2>3
      <3>2. i \in DOMAIN q /\ q[i] = ran[i]
        BY <1>3, <1>9
      <3> QED BY <3>1, <3>2
    <2> QED BY <1>7, <2>1, <2>2, <2>3
  <1>11. ASSUME NEW i \in DOMAIN q, q[i].id \in G
         PROVE  /\ OwnAnswer(q[i]) /\ \A w \in W2 : q[i].id < w
                /\ \A k \in DOMAIN q : k < i /\ q[k].id \in G => q[k].id < q[i].id
    <2>1. CASE i \in 1..n
      <3>1. q[i] = ran[i] /\ i \in DOMAIN ran
        BY <1>3, <2>1
      <3>2. /\ OwnAnswer(q[i]) /\ \A w \in W2 : q[i].id < w
        BY <1>5, <1>8, <1>11, <3>1
      <3>3. ASSUME NEW k \in DOMAIN q, k < i, q[k].id \in G PROVE q[k].id < q[i].id
        <4>1. k \in 1..n
          <5>1. k # n + 1
            BY <1>9, <2>1, <3>3
          <5> QED BY <1>3, <1>9, <5>1
        <4>2. q[k] = ran[k] /\ k \in DOMAIN ran
          BY <1>3, <4>1
        <4> QED BY <1>8, <1>11, <3>1, <3>3, <4>2
      <3> QED BY <3>2, <3>3
    <2>2. CASE i \notin 1..n
      <3>1. i = n + 1 /\ q[i].id = id /\ q[i].reply = t
        BY <1>3, <1>9, <2>2
      <3>2. id \in W /\ (\A w \in W : id <= w) /\ OwnAnswer(q[i])
        BY <1>4, <1>11, <3>1 DEF OwnAnswer
      <3>3. ASSUME NEW w \in W2 PROVE q[i].id < w
        <4>1. id <= w /\ w # id /\ w \in Nat
          BY <1>5, <1>6, <3>2
        <4> QED BY <3>1, <4>1
      <3>4. ASSUME NEW k \in DOMAIN q, k < i, q[k].id \in G PROVE q[k].id < q[i].id
        <4>1. k \in 1..n
          <5>1. k # n + 1
            BY <1>9, <3>1, <3>4
          <5>2. k \in 1..n + 1
            BY <1>3, <1>9, <2>2
          <5> QED BY <1>9, <5>1, <5>2
        <4>2. q[k] = ran[k] /\ k \in DOMAIN ran
          BY <1>3, <4>1
        <4> QED BY <1>8, <3>1, <3>2, <3>4, <4>2
      <3> QED BY <3>2, <3>3, <3>4
    <2> QED BY <2>1, <2>2
  <1>12. \A r \in Range(replies'), v \in Range(invalid') : r < v
    BY DEF Once
  <1>13. W2 \subseteq G
    BY <1>5
  <1>14. G = GetsOf(issued')
    OBVIOUS
  <1> QED BY <1>2, <1>4, <1>10, <1>11, <1>12, <1>13, <1>14 DEF Once

\* Nothing runs.
LEMMA SameOnce ==
    ASSUME Once, UNCHANGED <<replies, invalid, ran>>, GetsOf(issued') = GetsOf(issued)
    PROVE  Once'
  <1>1. replies' = replies /\ invalid' = invalid /\ ran' = ran /\ CallbacksLeft' = CallbacksLeft
    BY DEF CallbacksLeft
  <1> QED BY <1>1 DEF Once

LEMMA GetsKept == ASSUME SameKinds PROVE GetsOf(issued') = GetsOf(issued)
  BY DEF SameKinds, GetsOf

LEMMA GetsNumbers == ASSUME AsyncTypes PROVE GetsOf(issued) \subseteq Nat \ {0}
  BY LenProperties DEF GetsOf, AsyncTypes, Issues

\* The callback of a subscription runs, or none.
LEMMA OtherRunOnce ==
    ASSUME AsyncTypes, Once, NEW id \in Nat, NEW t \in Tokens, Called(id, t), GetsOf(issued') = GetsOf(issued),
           UNCHANGED <<replies, invalid>>, id \notin GetsOf(issued)
    PROVE  Once'
  <1>1. CallbacksLeft \subseteq GetsOf(issued) /\ Increasing(replies) /\ Increasing(invalid)
    BY DEF Once
  <1>2. replies' = replies /\ invalid' = invalid /\ CallbacksLeft' = CallbacksLeft
    BY DEF CallbacksLeft
  <1>3. CallbacksLeft' = CallbacksLeft \ {id}
    BY <1>1, <1>2
  <1>4. Increasing(replies') /\ Increasing(invalid') /\ Range(replies') \subseteq Range(replies) /\ Range(invalid') \subseteq Range(invalid)
    BY <1>1, <1>2
  <1> QED BY <1>3, <1>4, RunOnce

\* The first of the regular callbacks runs.
LEMMA RegularRunOnce ==
    ASSUME AsyncTypes, Once, NEW t \in Tokens, replies # <<>>, Called(Head(replies), t), GetsOf(issued') = GetsOf(issued),
           replies' = Tail(replies), invalid' = invalid,
           t.kind = "null" \/ t.of = Head(replies) \/ (t.of = 0 /\ t.kind = "error")
    PROVE  Once'
  <1>1. PICK id : id = Head(replies)
    OBVIOUS
  <1>2. replies \in Seq(Nat) /\ Increasing(replies) /\ Increasing(invalid) /\ CallbacksLeft \subseteq GetsOf(issued)
    BY DEF AsyncTypes, Once
  <1>3. /\ id \in Range(replies) /\ id \in Nat /\ Increasing(Tail(replies))
        /\ Range(Tail(replies)) = Range(replies) \ {id}
        /\ \A x \in Range(replies) : id <= x
    BY <1>1, <1>2, FirstIs
  <1>4. \A v \in Range(invalid) : id < v
    BY <1>3 DEF Once
  <1>5. GetsOf(issued) \subseteq Nat \ {0}
    BY GetsNumbers
  <1>6. ASSUME NEW v \in Range(invalid) PROVE id # v /\ id <= v
    <2>1. id < v /\ v \in Nat
      BY <1>2, <1>4, <1>5 DEF CallbacksLeft
    <2> QED BY <1>3, <2>1
  <1>7. \A w \in CallbacksLeft : id <= w
    BY <1>3, <1>6 DEF CallbacksLeft
  <1>8. CallbacksLeft' = Range(Tail(replies)) \cup Range(invalid)
    BY DEF CallbacksLeft
  <1>9. CallbacksLeft' = CallbacksLeft \ {id}
    BY <1>3, <1>6, <1>8 DEF CallbacksLeft
  <1>10. Increasing(replies') /\ Increasing(invalid') /\ Range(replies') \subseteq Range(replies) /\ Range(invalid') \subseteq Range(invalid)
    BY <1>2, <1>3
  <1>11. id \in CallbacksLeft
    BY <1>3 DEF CallbacksLeft
  <1>12. Called(id, t) /\ (t.kind = "null" \/ t.of = id \/ (t.of = 0 /\ t.kind = "error"))
    BY <1>1
  <1> QED BY <1>3, <1>7, <1>9, <1>10, <1>11, <1>12, RunOnce

\* When none of them waits, the first of those of subscribed mode.
LEMMA InvalidRunOnce ==
    ASSUME AsyncTypes, Once, NEW t \in Tokens, replies = <<>>, invalid # <<>>, Called(Head(invalid), t), GetsOf(issued') = GetsOf(issued),
           replies' = replies, invalid' = Tail(invalid), t.kind = "null" \/ t.of = Head(invalid)
    PROVE  Once'
  <1>1. PICK id : id = Head(invalid)
    OBVIOUS
  <1>2. invalid \in Seq(Nat) /\ Increasing(replies) /\ Increasing(invalid) /\ CallbacksLeft \subseteq GetsOf(issued)
    BY DEF AsyncTypes, Once
  <1>3. /\ id \in Range(invalid) /\ id \in Nat /\ Increasing(Tail(invalid))
        /\ Range(Tail(invalid)) = Range(invalid) \ {id}
        /\ \A x \in Range(invalid) : id <= x
    BY <1>1, <1>2, FirstIs
  <1>4. Range(replies) = {}
    BY DEF Range
  <1>5. CallbacksLeft' = Range(replies) \cup Range(Tail(invalid))
    BY DEF CallbacksLeft
  <1>6. CallbacksLeft = Range(invalid)
    BY <1>4 DEF CallbacksLeft
  <1>7. CallbacksLeft' = CallbacksLeft \ {id}
    BY <1>3, <1>4, <1>5, <1>6
  <1>8. Increasing(replies') /\ Increasing(invalid') /\ Range(replies') \subseteq Range(replies) /\ Range(invalid') \subseteq Range(invalid)
    BY <1>2, <1>3
  <1>9. id \in CallbacksLeft /\ \A w \in CallbacksLeft : id <= w
    BY <1>3, <1>6
  <1>10. Called(id, t) /\ (t.kind = "null" \/ t.of = id)
    BY <1>1
  <1> QED BY <1>3, <1>7, <1>8, <1>9, <1>10, RunOnce

\* The callbacks in a teardown.
LEMMA FreeOnce ==
    ASSUME FrameInv, AsyncTypes, KindsInv, FreedInv, Once, FreeReplies \/ FreeInvalid \/ FreeSubs
    PROVE  Once'
  <1>1. GetsOf(issued') = GetsOf(issued)
    BY DEF FreeReplies, FreeInvalid, FreeSubs
  <1>2. CASE FreeReplies
    <2>1. replies # <<>> /\ RunCallback(Head(replies), NoCallback, "free") /\ replies' = Tail(replies) /\ invalid' = invalid
      BY <1>2 DEF FreeReplies
    <2>2. Called(Head(replies), NoCallback) /\ NoCallback \in Tokens /\ NoCallback.kind = "null"
      BY <2>1, CallIs, NullToken DEF NoCallback
    <2> QED BY <1>1, <2>1, <2>2, RegularRunOnce
  <1>3. CASE FreeInvalid
    <2>1. replies' = replies /\ Top = "freeinvalid"
      BY <1>3 DEF FreeInvalid
    <2>2. replies = <<>>
      <3>1. frames = <<"freeinvalid">>
        BY <2>1, AtTop DEF Events, Runners
      <3>2. Base = "freeinvalid"
        BY <3>1, BaseIs
      <3> QED BY <3>2 DEF FreedInv
    <2>3. CASE invalid = <<>>
      BY <1>1, <1>3, <2>1, <2>3, SameOnce DEF FreeInvalid
    <2>4. CASE invalid # <<>>
      <3>1. RunCallback(Head(invalid), NoCallback, "freeinvalid") /\ invalid' = Tail(invalid)
        BY <1>3, <2>4 DEF FreeInvalid
      <3>2. Called(Head(invalid), NoCallback) /\ NoCallback \in Tokens /\ NoCallback.kind = "null"
        BY <3>1, CallIs, NullToken DEF NoCallback
      <3> QED BY <1>1, <2>1, <2>2, <2>4, <3>1, <3>2, InvalidRunOnce
    <2> QED BY <2>3, <2>4
  <1>4. CASE FreeSubs
    <2>1. PICK n \in DOMAIN subs : RunCallback(subs[n].id, NoCallback, "freesubs")
      BY <1>4 DEF FreeSubs
    <2>2. UNCHANGED <<replies, invalid>>
      BY <1>4 DEF FreeSubs
    <2>3. PICK id : id = subs[n].id
      OBVIOUS
    <2>4. Called(id, NoCallback) /\ NoCallback \in Tokens
      BY <2>1, <2>3, CallIs, NullToken
    <2>5. id \in Nat /\ id \notin GetsOf(issued)
      <3>1. subs[n] \in [id : Nat, pending : Int]
        BY DEF AsyncTypes
      <3>2. id \in Nat
        BY <2>3, <3>1
      <3>3. id \in Ids /\ Kind(id) = "sub"
        BY <2>3 DEF KindsInv, Numbered
      <3> QED BY <3>2, <3>3 DEF GetsOf, Kind
    <2> QED BY <1>1, <2>2, <2>4, <2>5, OtherRunOnce
  <1> QED BY <1>2, <1>3, <1>4

LEMMA ReplyOnce ==
    ASSUME AsyncTypes, KindsInv, Sane, Once, RegularReply \/ SubscribeReply
    PROVE  Once'
  <1>1. PICK t : t = Wire[1]
    OBVIOUS
  <1>2. CASE RegularReply
    <2>1. RegularEffect(t)
      BY <1>1, <1>2, RegularIs
    <2>2. GetsOf(issued') = GetsOf(issued)
      BY <2>1, SameGets DEF RegularEffect
    <2> QED BY <2>1, <2>2, RegularRunOnce DEF RegularEffect
  <1>3. CASE SubscribeReply
    <2>1. SubscribeEffect(t)
      BY <1>1, <1>3, SubscribeOutcome
    <2>2. GetsOf(issued') = GetsOf(issued)
      BY <2>1, SameGets DEF SubscribeEffect
    <2>3. t \in Tokens /\ replies = <<>> /\ replies' = replies
      BY <2>1 DEF SubscribeEffect
    <2>4. CASE t.kind = "reply" /\ invalid # <<>> /\ t.of = Head(invalid) /\ invalid' = Tail(invalid) /\ Called(Head(invalid), t)
      BY <2>2, <2>3, <2>4, InvalidRunOnce
    <2>5. CASE t.name \in DOMAIN subs /\ invalid' = invalid /\ Called(subs[t.name].id, t)
      <3>1. PICK id : id = subs[t.name].id
        OBVIOUS
      <3>2. subs[t.name] \in [id : Nat, pending : Int]
        BY <2>5 DEF AsyncTypes
      <3>3. id \in Nat
        BY <3>1, <3>2
      <3>4. id \in Ids /\ Kind(id) = "sub"
        BY <2>5, <3>1 DEF KindsInv, Numbered
      <3>5. id \notin GetsOf(issued)
        BY <3>4 DEF GetsOf, Kind
      <3>6. Called(id, t)
        BY <2>5, <3>1
      <3> QED BY <2>2, <2>3, <2>5, <3>3, <3>5, <3>6, OtherRunOnce
    <2> QED BY <2>1, <2>4, <2>5 DEF SubscribeEffect
  <1> QED BY <1>2, <1>3

LEMMA CommandOnce ==
    ASSUME FrameInv, ToldInv, AsyncTypes, KindsInv, SaneInv, OnceInv, NEW c \in AsyncCommands, AsyncCommand(c)
    PROVE  OnceInv'
  <1> SUFFICES ASSUME ~ careless', "monitoring" \notin flags' PROVE Once'
    BY DEF OnceInv
  <1>1. PICK id : CommandEffect(c, id)
    BY CommandIs
  <1>2. ~ careless
    BY DEF AsyncCommand
  <1>3. CommandPlaces(c, id) /\ "monitoring" \notin flags /\ c.kind # "monitor"
    BY <1>1, <1>2, CommandPlace
  <1>4. Working
    BY <1>2, <1>3, CommandFrames DEF Working
  <1>5. Sane /\ Once
    BY <1>2, <1>3, <1>4 DEF SaneInv, OnceInv
  <1>6. /\ id \in Nat /\ id \notin Ids /\ DOMAIN issued' = Ids \cup {id} /\ (\A i \in Ids : i < id)
        /\ issued'[id].kind = c.kind /\ \A i \in Ids : issued'[i] = issued[i]
    BY <1>1 DEF CommandEffect
  <1> DEFINE G == GetsOf(issued)
             G2 == GetsOf(issued')
  <1>7. G \subseteq G2 /\ G2 \subseteq G \cup {id} /\ (id \in G2 <=> c.kind = "get") /\ G \subseteq Ids
    BY <1>6 DEF GetsOf, Ids
  <1>8. ran' = ran /\ \A i \in DOMAIN ran : ran[i].id \in Ids
    BY <1>3 DEF CommandPlaces, KindsInv, Numbered
  <1>9. /\ CallbacksLeft \subseteq G /\ Increasing(replies) /\ Increasing(invalid)
        /\ \A r \in Range(replies), v \in Range(invalid) : r < v
        /\ \A x \in G : x \in CallbacksLeft \/ \E i \in DOMAIN ran : ran[i].id = x
    BY <1>5 DEF Once
  <1>10. ASSUME NEW i \in DOMAIN ran, ran[i].id \in G
         PROVE  /\ OwnAnswer(ran[i]) /\ \A w \in CallbacksLeft : ran[i].id < w
                /\ \A k \in DOMAIN ran : k < i /\ ran[k].id \in G => ran[k].id < ran[i].id
    BY <1>5, <1>10 DEF Once
  <1>11. replies \in Seq(Nat) /\ invalid \in Seq(Nat)
    BY DEF AsyncTypes
  <1>12. /\ \A x \in Range(replies) : x < id
         /\ \A x \in Range(invalid) : x < id
    BY <1>6, <1>7, <1>9 DEF CallbacksLeft
  <1>13. /\ Increasing(replies') /\ Increasing(invalid') /\ \A r \in Range(replies'), v \in Range(invalid') : r < v
         /\ CallbacksLeft' = IF c.kind = "get" THEN CallbacksLeft \cup {id} ELSE CallbacksLeft
    <2>0. CallbacksLeft' = Range(replies') \cup Range(invalid')
      BY DEF CallbacksLeft
    <2>1. CASE c.kind \in {"sub", "unsub"} /\ UNCHANGED <<replies, invalid>>
      <3>1. replies' = replies /\ invalid' = invalid
        BY <2>1
      <3> QED BY <1>9, <2>0, <2>1, <3>1 DEF CallbacksLeft
    <2>2. CASE c.kind = "get" /\ invalid' = Append(invalid, id) /\ replies' = replies
      <3>1. Increasing(Append(invalid, id)) /\ Range(Append(invalid, id)) = Range(invalid) \cup {id}
        BY <1>6, <1>9, <1>11, <1>12, LastIs
      <3> QED BY <1>9, <1>12, <2>0, <2>2, <3>1 DEF CallbacksLeft
    <2>3. CASE c.kind = "get" /\ "subscribed" \notin flags /\ replies' = Append(replies, id) /\ invalid' = invalid
      <3>1. Increasing(Append(replies, id)) /\ Range(Append(replies, id)) = Range(replies) \cup {id}
        BY <1>6, <1>9, <1>11, <1>12, LastIs
      <3>2. Range(invalid) = {}
        BY <1>5, <2>3 DEF Sane, Subbing
      <3> QED BY <1>9, <2>0, <2>3, <3>1, <3>2 DEF CallbacksLeft
    <2> QED BY <1>3, <2>1, <2>2, <2>3 DEF CommandPlaces
  <1>14. CallbacksLeft' \subseteq G2
    BY <1>7, <1>9, <1>13
  <1>15. \A x \in G2 : x \in CallbacksLeft' \/ \E i \in DOMAIN ran' : ran'[i].id = x
    BY <1>7, <1>8, <1>9, <1>13
  <1>16. ASSUME NEW i \in DOMAIN ran', ran'[i].id \in G2
         PROVE  /\ OwnAnswer(ran'[i]) /\ \A w \in CallbacksLeft' : ran'[i].id < w
                /\ \A k \in DOMAIN ran' : k < i /\ ran'[k].id \in G2 => ran'[k].id < ran'[i].id
    <2>1. i \in DOMAIN ran /\ ran'[i] = ran[i] /\ ran[i].id \in Ids
      BY <1>8
    <2>2. ran[i].id \in G
      BY <1>6, <1>7, <1>16, <2>1
    <2>3. \A w \in CallbacksLeft' : ran[i].id < w
      BY <1>6, <1>10, <1>13, <2>1, <2>2
    <2>4. ASSUME NEW k \in DOMAIN ran, k < i, ran[k].id \in G2 PROVE ran[k].id < ran[i].id
      <3>1. ran[k].id \in G
        BY <1>6, <1>7, <1>8, <2>4
      <3> QED BY <1>10, <2>1, <2>2, <2>4, <3>1
    <2> QED BY <1>8, <1>10, <2>1, <2>2, <2>3, <2>4
  <1> QED BY <1>13, <1>14, <1>15, <1>16 DEF Once

\* Every step keeps the callbacks in order.
LEMMA OnceStep ==
    FrameInv /\ ToldInv /\ AsyncTypes /\ KindsInv /\ FreedInv /\ SaneInv /\ OnceInv /\ [AsyncNext]_acVars => OnceInv'
  <1> SUFFICES ASSUME FrameInv, ToldInv, AsyncTypes, KindsInv, FreedInv, SaneInv, OnceInv, [AsyncNext]_acVars PROVE OnceInv'
    OBVIOUS
  <1>1. CASE \E c \in AsyncCommands : AsyncCommand(c)
    BY <1>1, CommandOnce
  <1>2. CASE OtherStep
    <2>1. careless' = careless
      BY <1>2 DEF OtherStep, Library, AsyncFree, AsyncDisconnect, DisconnectNow, CallbackReturns, FreeReplies, FreeRepliesDone,
         FreeInvalid, FreeSubs, Freed, ConnectFailed, HandleWrite, BufferWrite, HandleRead, BufferRead, HandleConnect, NoMore,
         RegularReply, RanRegular, SpontaneousError, SubscribeReply, SubscribeAssert, Serves, Publishes, Closes, Rest, acVars
    <2>2. SameMode
      BY <1>2, OtherMode
    <2> SUFFICES ASSUME ~ careless', "monitoring" \notin flags' PROVE Once'
      BY DEF OnceInv
    <2>3. ~ careless /\ "monitoring" \notin flags /\ Once
      BY <2>1, <2>2 DEF SameMode, OnceInv
    <2>4. GetsOf(issued') = GetsOf(issued)
      BY <1>2, OtherKinds, GetsKept
    <2>5. CASE RegularReply \/ SubscribeReply
      <3>1. ~ Teardown /\ socket # "freed"
        BY <2>5, ReplyFrames
      <3>2. Sane
        BY <2>3, <3>1 DEF SaneInv, Working
      <3> QED BY <2>3, <2>5, <3>2, ReplyOnce
    <2>6. CASE FreeReplies \/ FreeInvalid \/ FreeSubs
      BY <2>3, <2>6, FreeOnce
    <2>7. CASE Freed \/ SpontaneousError \/ Serves \/ Publishes \/ Closes \/ UNCHANGED acVars
      <3>1. UNCHANGED <<replies, invalid, ran>>
        BY <2>7 DEF Freed, SpontaneousError, Serves, Publishes, Closes, acVars
      <3> QED BY <2>3, <2>4, <3>1, SameOnce
    <2>8. CASE AsyncFree \/ AsyncDisconnect \/ DisconnectNow \/ CallbackReturns \/ FreeRepliesDone \/ ConnectFailed
               \/ HandleWrite \/ HandleRead \/ RanRegular \/ BufferRead \/ BufferWrite \/ NoMore \/ SubscribeAssert
      <3>1. Moves
        BY <2>3, <2>8, FrameMoves, ReadMoves, WriteMoves, NoMoreTypes
      <3>2. UNCHANGED <<replies, invalid, ran>>
        BY <3>1 DEF Moves
      <3> QED BY <2>3, <2>4, <3>2, SameOnce
    <2> QED BY <1>2, <2>5, <2>6, <2>7, <2>8 DEF OtherStep, Library
  <1> QED BY <1>1, <1>2, StepIs

\* No assertion of the library fails.
LEMMA AbortStep ==
    FrameInv /\ ToldInv /\ AsyncTypes /\ KindsInv /\ SaneInv /\ OnceInv /\ NoAbort /\ [AsyncNext]_acVars => NoAbort'
  <1> SUFFICES ASSUME FrameInv, ToldInv, AsyncTypes, KindsInv, SaneInv, OnceInv, NoAbort, [AsyncNext]_acVars PROVE NoAbort'
    OBVIOUS
  <1>1. CASE \E c \in AsyncCommands : AsyncCommand(c)
    BY <1>1 DEF AsyncCommand, NoAbort
  <1>2. CASE SubscribeAssert
    <2>1. careless' = careless
      BY <1>2 DEF SubscribeAssert, Rest
    <2> SUFFICES ASSUME ~ careless PROVE FALSE
      BY <2>1 DEF NoAbort
    <2>2. Top = "process" /\ got # <<>> /\ replies = <<>> /\ Head(got).kind # "error" /\ "subscribed" \notin flags /\ "monitoring" \notin flags
      BY <1>2 DEF SubscribeAssert
    <2>3. ~ Teardown
      BY <2>2, AtTop DEF Events, Runners, Freeing
    <2>4. socket # "freed"
      BY <2>2, TopAlive
    <2>5. Sane /\ Once
      BY <2>2, <2>3, <2>4 DEF SaneInv, OnceInv, Working
    <2>6. Wire[1] = Head(got)
      <3>1. Taken(got \o server.out, Tail(got) \o server.out) /\ (got \o server.out)[1] = got[1]
        BY <2>2, TailTaken DEF AsyncTypes, Servers
      <3>2. Head(got) = got[1]
        BY <2>2, SeqHead DEF AsyncTypes
      <3> QED BY <3>1, <3>2 DEF Wire
    <2> QED BY <2>2, <2>5, <2>6, NextTalk
  <1>3. CASE DisconnectNow \/ ConnectFailed \/ BufferWrite \/ BufferRead \/ NoMore \/ SpontaneousError
    <2>1. careless' = careless
      BY <1>3 DEF DisconnectNow, ConnectFailed, BufferWrite, BufferRead, NoMore, SpontaneousError, Rest
    <2>2. aborted' = aborted \/ aborted' = FALSE
      BY <1>3 DEF DisconnectNow, ConnectFailed, BufferWrite, BufferRead, NoMore, SpontaneousError, Rest, Disconnect
    <2> QED BY <2>1, <2>2 DEF NoAbort
  <1>4. CASE \/ AsyncFree \/ AsyncDisconnect \/ CallbackReturns \/ FreeReplies \/ FreeRepliesDone \/ FreeInvalid \/ FreeSubs \/ Freed
             \/ HandleWrite \/ HandleRead \/ RegularReply \/ RanRegular \/ SubscribeReply \/ Serves \/ Publishes \/ Closes \/ UNCHANGED acVars
    <2>1. careless' = careless /\ aborted' = aborted
      BY <1>4 DEF AsyncFree, AsyncDisconnect, CallbackReturns, FreeReplies, FreeRepliesDone, FreeInvalid, FreeSubs, Freed,
         HandleWrite, HandleRead, HandleConnect, RegularReply, RanRegular, SubscribeReply, Serves, Publishes, Closes, Rest, acVars
    <2> QED BY <2>1 DEF NoAbort
  <1> QED BY <1>1, <1>2, <1>3, <1>4, StepIs DEF OtherStep, Library

\* All that is kept together.
CallbackInv == FrameInv /\ ToldInv /\ AsyncTypes /\ KindsInv /\ FreedInv /\ SaneInv /\ OnceInv /\ NoAbort

LEMMA SaneStart == AsyncInitialize => Sane /\ Once
  <1> SUFFICES ASSUME AsyncInitialize PROVE Sane /\ Once
    OBVIOUS
  <1>1. /\ got = <<>> /\ obuf = <<>> /\ replies = <<>> /\ invalid = <<>> /\ subs = <<>> /\ ran = <<>> /\ issued = <<>>
        /\ flags = {} /\ socket = "connecting" /\ server.in = <<>> /\ server.out = <<>> /\ server.subs = {}
    BY DEF AsyncInitialize
  <1>2. Wire = <<>> /\ Asked = <<>>
    BY <1>1 DEF Wire, Asked
  <1>3. Range(replies) = {} /\ Range(invalid) = {} /\ DOMAIN subs = {} /\ GetsOf(issued) = {} /\ DOMAIN issued = {}
        /\ DOMAIN Wire = {} /\ DOMAIN Asked = {} /\ DOMAIN ran = {}
    BY <1>1, <1>2 DEF Range, GetsOf
  <1>4. Way(Wire, Asked, Range(replies), Range(invalid), issued, server.subs, socket = "closed")
    BY <1>3 DEF Way, Positive, Meant, Asking, AnswersInOrder, AnsweredFirst, AskedInOrder, OnWay, Waits, WaitsYet, ErrorLast,
                RepliesFirst, RepliesSent, RepliesAsked, Quiet, OneUnsub
  <1>5. Subbing(Wire, Asked, Range(invalid), subs, server.subs, "subscribed" \in flags)
    BY <1>1, <1>3 DEF Subbing, Counted, TalkKnown, AskedKnown
  <1>6. Once
    BY <1>1, <1>3 DEF Once, Increasing, CallbacksLeft
  <1> QED BY <1>4, <1>5, <1>6 DEF Sane

LEMMA CallbackStart == AsyncInitialize => CallbackInv
  <1>1. AsyncInitialize => NoAbort
    BY DEF AsyncInitialize, NoAbort
  <1> QED BY <1>1, FrameStart, TypesStart, KindsStart, FreedStart, SaneStart DEF CallbackInv, SaneInv, OnceInv

LEMMA CallbackStep == CallbackInv /\ [AsyncNext]_acVars => CallbackInv'
  <1> SUFFICES ASSUME CallbackInv, [AsyncNext]_acVars PROVE CallbackInv'
    OBVIOUS
  <1>1. FrameInv /\ ToldInv /\ AsyncTypes /\ KindsInv /\ FreedInv /\ SaneInv /\ OnceInv /\ NoAbort
    BY DEF CallbackInv
  <1>2. FrameInv' /\ ToldInv'
    BY <1>1, FrameStep
  <1>3. AsyncTypes' /\ KindsInv' /\ FreedInv'
    BY <1>1, TypesStep, KindsStep, FreeingStep
  <1>4. SaneInv' /\ OnceInv'
    BY <1>1, SaneStep, OnceStep
  <1>5. NoAbort'
    BY <1>1, AbortStep
  <1> QED BY <1>2, <1>3, <1>4, <1>5 DEF CallbackInv

\* What it says of the callbacks.
LEMMA FramesTyped == ASSUME FrameInv, ToldInv PROVE AsyncTypeOK
  <1>1. "incallback" \in flags <=> \E i \in DOMAIN frames : frames[i] = "callback"
    <2>1. CASE frames = <<>>
      <3>1. Len(frames) = 0 /\ DOMAIN frames = {}
        BY <2>1
      <3> QED BY <3>1 DEF FrameInv
    <2>2. CASE \E x \in Events : frames = <<x>>
      <3>1. PICK x \in Events : frames = <<x>>
        BY <2>2
      <3>2. Len(frames) = 1 /\ DOMAIN frames = {1} /\ frames[1] = x /\ x # "callback"
        BY <3>1 DEF Events, Runners
      <3> QED BY <3>2 DEF FrameInv
    <2>3. CASE \E x \in Runners : frames = <<x, "callback">> \/ frames = <<x, "callback", "disconnect">>
      <3>1. Len(frames) > 1 /\ 2 \in DOMAIN frames /\ frames[2] = "callback"
        <4>1. PICK x \in Runners : frames = <<x, "callback">> \/ frames = <<x, "callback", "disconnect">>
          BY <2>3
        <4>2. CASE frames = <<x, "callback">>
          BY <4>2
        <4>3. CASE frames = <<x, "callback", "disconnect">>
          BY <4>3
        <4> QED BY <4>1, <4>2, <4>3
      <3> QED BY <3>1 DEF FrameInv
    <2> QED BY <2>1, <2>2, <2>3 DEF FrameInv, Shape
  <1>2. told.connect \in 0..1 /\ told.disconnect \in 0..1
    BY DEF ToldInv
  <1>3. socket = "freed" => told.disconnect = IF "connected" \in flags THEN 1 ELSE 0
    BY DEF ToldInv
  <1>4. flags \subseteq {"connected", "disconnecting", "freeing", "incallback", "subscribed", "monitoring"}
    BY DEF FrameInv, FlagNames
  <1> QED BY <1>1, <1>2, <1>3, <1>4 DEF AsyncTypeOK

LEMMA NoGetsMonitoring ==
    ASSUME KindsInv, "monitoring" \in flags
    PROVE  \A id \in DOMAIN issued : issued[id].kind = "monitor"
  BY DEF KindsInv, Modes, Ids, Kind

LEMMA CalledOnceHolds ==
    ASSUME AsyncTypes, KindsInv, FreedInv, OnceInv
    PROVE  CalledOnce
  <1> SUFFICES ASSUME ~ careless, NEW id \in DOMAIN issued, issued[id].kind = "get"
               PROVE  Cardinality(Runs(id)) <= 1 /\ (socket = "freed" => Cardinality(Runs(id)) = 1)
    BY DEF CalledOnce
  <1>1. "monitoring" \notin flags
    BY NoGetsMonitoring
  <1>2. Once /\ id \in GetsOf(issued)
    BY <1>1 DEF OnceInv, GetsOf
  <1>3. \A i, k \in DOMAIN ran : ran[i].id = id /\ ran[k].id = id => ~ (k < i)
    <2> SUFFICES ASSUME NEW i \in DOMAIN ran, NEW k \in DOMAIN ran, ran[i].id = id, ran[k].id = id, k < i PROVE FALSE
      OBVIOUS
    <2>1. id < id
      BY <1>2 DEF Once
    <2>2. id \in Nat
      BY <1>2, GetsNumbers
    <2> QED BY <2>1, <2>2
  <1>4. DOMAIN ran \subseteq Nat
    BY LenProperties DEF AsyncTypes
  <1>5. \A i, k \in Runs(id) : i = k
    BY <1>3, <1>4 DEF Runs
  <1>6. Runs(id) = {} \/ \E i : Runs(id) = {i}
    BY <1>5
  <1>7. Cardinality(Runs(id)) <= 1 /\ (Runs(id) # {} => Cardinality(Runs(id)) = 1)
    <2>1. CASE Runs(id) = {}
      BY <2>1, FS_EmptySet
    <2>2. CASE \E i : Runs(id) = {i}
      <3>1. PICK i : Runs(id) = {i}
        BY <2>2
      <3>2. Cardinality({i}) = 1
        BY FS_Singleton
      <3> QED BY <3>1, <3>2
    <2> QED BY <1>6, <2>1, <2>2
  <1>8. socket = "freed" => Runs(id) # {}
    <2>1. socket = "freed" => CallbacksLeft = {}
      BY DEF FreedInv, CallbacksLeft, Range
    <2>2. id \in CallbacksLeft \/ \E i \in DOMAIN ran : ran[i].id = id
      BY <1>2 DEF Once
    <2> QED BY <2>1, <2>2 DEF Runs
  <1> QED BY <1>7, <1>8

LEMMA OwnReplyHolds ==
    ASSUME AsyncTypes, KindsInv, OnceInv
    PROVE  OwnReply
  <1> SUFFICES ASSUME ~ careless
               PROVE  /\ \A i \in DOMAIN ran : issued[ran[i].id].kind = "get" =>
                             \/ ran[i].reply.kind = "null" \/ ran[i].reply.of = ran[i].id
                             \/ ran[i].reply.of = 0 /\ ran[i].reply.kind = "error"
                      /\ \A i, j \in DOMAIN ran : i < j /\ issued[ran[i].id].kind = "get" /\ issued[ran[j].id].kind = "get"
                             => ran[i].id < ran[j].id
    BY DEF OwnReply
  <1>1. \A i \in DOMAIN ran : ran[i].id \in DOMAIN issued
    BY DEF KindsInv, Numbered, Ids
  <1>2. CASE "monitoring" \in flags
    BY <1>1, <1>2, NoGetsMonitoring
  <1>3. CASE "monitoring" \notin flags
    <2>1. Once
      BY <1>3 DEF OnceInv
    <2>2. \A i \in DOMAIN ran : issued[ran[i].id].kind = "get" => ran[i].id \in GetsOf(issued)
      BY <1>1 DEF GetsOf
    <2> QED BY <2>1, <2>2 DEF Once, OwnAnswer
  <1> QED BY <1>2, <1>3

LEMMA StillHeardHolds == ASSUME KindsInv, SaneInv PROVE StillHeard
  <1> SUFFICES ASSUME ~ careless, Alive, ~ Teardown PROVE server.subs \subseteq DOMAIN subs
    BY DEF StillHeard
  <1>1. CASE "monitoring" \in flags
    <2>1. server.subs = {}
      BY <1>1, NoGetsMonitoring DEF KindsInv, HeardKinds, Ids, Kind
    <2> QED BY <2>1
  <1>2. CASE "monitoring" \notin flags
    BY <1>2 DEF SaneInv, Working, Alive, Sane, Subbing
  <1> QED BY <1>1, <1>2

(* Whatever the names, the commands and the messages, and whatever the callbacks ask for while they run: the frames of
   the library are in order, each regular callback is called once and in order with its own reply, the callback of a
   name stays while the server sends to it, and no assertion fails (redisProcessCallbacks, __redisAsyncFree). *)
THEOREM CallbacksAlwaysRight == AsyncSpec => []CallbacksRight
  <1>1. CallbackInv => CallbacksRight
    <2> SUFFICES ASSUME CallbackInv PROVE CallbacksRight
      OBVIOUS
    <2>1. FrameInv /\ ToldInv /\ AsyncTypes /\ KindsInv /\ FreedInv /\ SaneInv /\ OnceInv /\ NoAbort
      BY DEF CallbackInv
    <2>2. AsyncTypeOK /\ CalledOnce /\ OwnReply /\ StillHeard
      BY <2>1, FramesTyped, CalledOnceHolds, OwnReplyHolds, StillHeardHolds
    <2>3. NoAssertionFails
      BY <2>1 DEF NoAbort, NoAssertionFails
    <2> QED BY <2>2, <2>3 DEF CallbacksRight
  <1> QED BY <1>1, CallbackStart, CallbackStep, PTL DEF AsyncSpec

=============================================================================
