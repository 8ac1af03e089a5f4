------------------------ MODULE RequestLifecycleProofs ------------------------
(***************************************************************************)
(* Proofs about RequestLifecycle, for any number of requests and chunks.   *)
(***************************************************************************)
EXTENDS RequestLifecycle, Integers, SequenceTheorems, TLAPS

-------------------------------------------------------------------------------
(* What a client may receive. *)

LEMMA TextsIs ==
  ASSUME NEW k \in Nat
  PROVE  /\ Texts(k) \in Seq(Items) /\ Len(Texts(k)) = IF k = 0 THEN 0 ELSE k + 1
         /\ \A i \in 1 .. Len(Texts(k)) :
              Texts(k)[i] = IF i = 1 THEN "ttft" ELSE IF i = 2 THEN "role" ELSE "text"
<1>1. CASE k = 0
  BY <1>1 DEF Texts
<1>2. CASE k # 0
  <2> DEFINE a == <<"ttft", "role">>
             b == [i \in 1 .. k - 1 |-> "text"]
  <2>1. a \in Seq(Items) /\ Len(a) = 2 /\ a[1] = "ttft" /\ a[2] = "role"
    BY DEF Items
  <2>2. b \in Seq(Items) /\ Len(b) = k - 1 /\ \A i \in 1 .. k - 1 : b[i] = "text"
    <3>1. k - 1 \in Nat /\ "text" \in Items
      BY <1>2 DEF Items
    <3>2. b \in Seq(Items)
      BY <3>1
    <3>3. DOMAIN b = 1 .. k - 1
      OBVIOUS
    <3>4. Len(b) \in Nat /\ DOMAIN b = 1 .. Len(b)
      BY <3>2, LenProperties
    <3>5. Len(b) = k - 1
      BY <3>1, <3>3, <3>4
    <3>6. \A i \in 1 .. k - 1 : b[i] = "text"
      OBVIOUS
    <3> QED
      BY <3>2, <3>5, <3>6
  <2>3. Texts(k) = a \o b
    BY <1>2 DEF Texts
  <2> HIDE DEF a, b
  <2>4. /\ a \o b \in Seq(Items) /\ Len(a \o b) = k + 1
        /\ \A i \in 1 .. k + 1 : (a \o b)[i] = IF i <= 2 THEN a[i] ELSE b[i - 2]
    <3>1. /\ a \o b \in Seq(Items) /\ Len(a \o b) = Len(a) + Len(b)
          /\ \A i \in 1 .. Len(a) + Len(b) :
               (a \o b)[i] = IF i <= Len(a) THEN a[i] ELSE b[i - Len(a)]
      BY <2>1, <2>2, ConcatProperties
    <3> QED
      BY <1>2, <2>1, <2>2, <3>1
  <2>5. ASSUME NEW i \in 1 .. k + 1
        PROVE  (a \o b)[i] = IF i = 1 THEN "ttft" ELSE IF i = 2 THEN "role" ELSE "text"
    <3>1. CASE i <= 2
      BY <2>1, <2>4, <3>1
    <3>2. CASE ~ (i <= 2)
      <4>1. i - 2 \in 1 .. k - 1
        BY <1>2, <3>2
      <4> QED
        BY <2>2, <2>4, <3>2, <4>1
    <3> QED
      BY <3>1, <3>2
  <2> QED
    BY <1>2, <2>3, <2>4, <2>5
<1> QED
  BY <1>1, <1>2

LEMMA FirstTexts == Texts(0) = <<>> /\ Texts(1) = Append(<<"ttft">>, "role")
<1>1. Texts(0) = <<>>
  BY DEF Texts
<1>2. Texts(1) \in Seq(Items) /\ Append(<<"ttft">>, "role") \in Seq(Items)
  <2>1. "ttft" \in Items /\ "role" \in Items /\ <<"ttft">> \in Seq(Items)
    BY DEF Items
  <2> QED
    BY <2>1, TextsIs, AppendProperties
<1>3. /\ Len(Texts(1)) = 2
      /\ \A i \in 1 .. 2 : Texts(1)[i] = IF i = 1 THEN "ttft" ELSE "role"
  <2>1. /\ Len(Texts(1)) = IF 1 = 0 THEN 0 ELSE 1 + 1
        /\ \A i \in 1 .. Len(Texts(1)) :
             Texts(1)[i] = IF i = 1 THEN "ttft" ELSE IF i = 2 THEN "role" ELSE "text"
    BY TextsIs
  <2>2. Len(Texts(1)) = 2
    BY <2>1
  <2> QED
    BY <2>1, <2>2
<1>5. /\ Len(Append(<<"ttft">>, "role")) = 2
      /\ \A i \in 1 .. 2 : Append(<<"ttft">>, "role")[i] = IF i = 1 THEN "ttft" ELSE "role"
  <2>1. <<"ttft">> \in Seq(Items) /\ Len(<<"ttft">>) = 1 /\ <<"ttft">>[1] = "ttft"
    BY DEF Items
  <2> QED
    BY <2>1
<1>4. Texts(1) = Append(<<"ttft">>, "role")
  BY <1>2, <1>3, <1>5, SeqEqual
<1> QED
  BY <1>1, <1>4

LEMMA NextText == ASSUME NEW k \in Nat \ {0} PROVE Append(Texts(k), "text") = Texts(k + 1)
<1> DEFINE s == Append(Texts(k), "text")
<1>1. /\ Texts(k) \in Seq(Items) /\ Len(Texts(k)) = k + 1 /\ "text" \in Items
      /\ \A i \in 1 .. k + 1 : 
           Texts(k)[i] = IF i = 1 THEN "ttft" ELSE IF i = 2 THEN "role" ELSE "text"
  BY TextsIs DEF Items
<1>2. /\ s \in Seq(Items) /\ Len(s) = k + 2 /\ s[k + 2] = "text"
      /\ \A i \in 1 .. k + 1 : s[i] = Texts(k)[i]
  BY <1>1, AppendProperties
<1>3. /\ Texts(k + 1) \in Seq(Items) /\ Len(Texts(k + 1)) = k + 2
      /\ \A i \in 1 .. k + 2 :
           Texts(k + 1)[i] = IF i = 1 THEN "ttft" ELSE IF i = 2 THEN "role" ELSE "text"
  BY TextsIs
<1> HIDE DEF s
<1>4. \A i \in 1 .. k + 2 : s[i] = Texts(k + 1)[i]
  BY <1>1, <1>2, <1>3
<1>5. s = Texts(k + 1)
  BY <1>2, <1>3, <1>4, SeqEqual
<1> QED
  BY <1>5 DEF s

LEMMA PrefixOfMore ==
  ASSUME NEW S, NEW s \in Seq(S), NEW t \in Seq(S)
  PROVE  IsPrefix(s, s \o t)
<1>1. Len(s) \in Nat /\ Len(t) \in Nat /\ Len(s \o t) = Len(s) + Len(t) /\ s \o t \in Seq(S)
  BY ConcatProperties
<1>2. SubSeq(s, 1, Len(s)) = s
  BY SubSeqFull
<1>3. SubSeq(s \o t, 1, Len(s)) = s
  BY SubSeqOfConcat1, <1>2
<1> QED
  BY <1>1, <1>2, <1>3 DEF IsPrefix

LEMMA PrefixOfSelf == ASSUME NEW S, NEW s \in Seq(S) PROVE IsPrefix(s, s)
  BY DEF IsPrefix

(* The ends of a stream. *)
LEMMA Endings ==
  ASSUME NEW k \in 0 .. MaxChunks
  PROVE  /\ Append(Texts(k), "stop") \in Answers
         /\ Append(Append(Texts(k), "error"), "done") \in Answers
         /\ \E a \in Answers : IsPrefix(Texts(k), a)
         /\ \E a \in Answers : IsPrefix(Append(Texts(k), "error"), a)
<1>1. k \in Nat /\ Texts(k) \in Seq(Items)
  BY TextsIs, ConstantsOK
<1>2. /\ "stop" \in Items /\ "error" \in Items /\ "done" \in Items
      /\ <<"stop">> \in Seq(Items) /\ <<"done">> \in Seq(Items)
  BY DEF Items
<1>3. Append(Texts(k), "stop") = Texts(k) \o <<"stop">>
  BY <1>1, <1>2, AppendIsConcat
<1>4. /\ Append(Texts(k), "error") \in Seq(Items)
      /\ Append(Append(Texts(k), "error"), "done") = Texts(k) \o <<"error", "done">>
  <2>1. <<"error">> \in Seq(Items) /\ <<"error">> \o <<"done">> = <<"error", "done">>
    <3>1. <<"error">> \in Seq(Items) /\ <<"error", "done">> \in Seq(Items)
      BY <1>2
    <3>2. /\ <<"error">> \o <<"done">> \in Seq(Items)
          /\ Len(<<"error">> \o <<"done">>) = 2 /\ Len(<<"error", "done">>) = 2
          /\ \A i \in 1 .. 2 : (<<"error">> \o <<"done">>)[i] = <<"error", "done">>[i]
      BY <1>2, <3>1
    <3> QED
      BY <3>1, <3>2, SeqEqual
  <2>2. Append(Texts(k), "error") = Texts(k) \o <<"error">> /\ Append(Texts(k), "error") \in Seq(Items)
    BY <1>1, <1>2, AppendIsConcat, AppendProperties
  <2>3. Append(Append(Texts(k), "error"), "done") = Append(Texts(k), "error") \o <<"done">>
    BY <1>2, <2>2, AppendIsConcat
  <2>4. (Texts(k) \o <<"error">>) \o <<"done">> = Texts(k) \o (<<"error">> \o <<"done">>)
    BY <1>1, <1>2, <2>1, ConcatAssociative
  <2> QED
    BY <2>1, <2>2, <2>3, <2>4
<1>5. Append(Texts(k), "stop") \in Answers /\ Append(Append(Texts(k), "error"), "done") \in Answers
  BY <1>3, <1>4 DEF Answers
<1>6. IsPrefix(Texts(k), Append(Texts(k), "stop"))
  BY <1>1, <1>2, <1>3, PrefixOfMore
<1>7. IsPrefix(Append(Texts(k), "error"), Append(Append(Texts(k), "error"), "done"))
  <2>1. Append(Append(Texts(k), "error"), "done") = Append(Texts(k), "error") \o <<"done">>
    BY <1>2, <1>4, AppendIsConcat
  <2> QED
    BY <1>2, <1>4, <2>1, PrefixOfMore
<1> QED
  BY <1>5, <1>6, <1>7

-------------------------------------------------------------------------------
(* What is known of a request, by where it is suspended. *)

(* At most one usage record, none before the end, and nothing but a failure or  *)
(* a drop of its task takes it away.                                           *)
Counted(p, u, t, n, l) ==
  /\ p # "end" => u = <<>>
  /\ Len(u) <= 1 /\ t + n <= Len(u)
  /\ Len(u) = 1 => t + n = 1 \/ l \in {"logged", "dropped"}

(* At most one observation, made by the last lines of the inner generator, and  *)
(* against a miner only if it failed.                                          *)
Scored(p, o, s, m) ==
  /\ p \in {"idle", "query", "open", "forward", "next", "poll", "text", "crash"} =>
       s = <<>> /\ m = "none"
  /\ p = "fault" => s = <<>> /\ m = "failed"
  /\ p = "early" => s = <<"bad">>
  /\ p = "tail" => s = IF o = <<"stop">> THEN <<"good">> ELSE <<"bad">>
  /\ \/ s = <<>>
     \/ s = <<"good">> /\ m # "failed"
     \/ s = <<"bad">> /\ m = "failed"

(* What is about to be sent. *)
Queued(p, o) ==
  /\ p \in {"early", "crash"} => o \in {<<"error", "done">>, <<"done">>}
  /\ p = "text" => o \in {<<"ttft", "role">>, <<"role">>, <<"text">>}
  /\ p = "fault" => o = <<"error">>
  /\ p = "tail" => o \in {<<"stop">>, <<"done">>}

(* What a client that is still there received. *)
Shape(p, a, o, g, c) ==
  /\ p \in {"idle", "query", "open", "forward"} => g = <<>>
  /\ p \in {"early", "crash"} => g = IF o = <<"done">> THEN <<"error">> ELSE <<>>
  /\ p \in {"next", "fault"} => \E k \in 0 .. c : g = Texts(k)
  /\ p = "poll" => \E k \in 0 .. c : k < c /\ g = Texts(k)
  /\ p = "text" => \/ c > 0 /\ o = <<"ttft", "role">> /\ g = <<>>
                   \/ c > 0 /\ o = <<"role">> /\ g = <<"ttft">>
                   \/ o = <<"text">> /\ \E k \in 1 .. c : k < c /\ g = Texts(k)
  /\ p = "tail" => \E k \in 0 .. c :
       g = IF o = <<"stop">> THEN Texts(k) ELSE Append(Texts(k), "error")
  /\ p = "end" => g \in Answers \/ (g = <<>> /\ a # 200)

(* A client that was served. *)
Billed(p, g, u, s) ==
  ToSet(g) \cap {"json", "stop"} # {} => p = "end" /\ u = <<200>> /\ s = <<"good">>

Kept(r) ==
  /\ Counted(pc[r], usage[r], tasks[r], rows[r], lost[r])
  /\ Scored(pc[r], out[r], score[r], miner[r])
  /\ Queued(pc[r], out[r])
  /\ here[r] => Shape(pc[r], answer[r], out[r], got[r], chunks[r])
  /\ Billed(pc[r], got[r], usage[r], score[r])
  /\ \E a \in Answers : IsPrefix(got[r], a)

LifeInv == TypeOK /\ \A r \in Requests : Kept(r)

(* The short sequences. *)
LEMMA Shorts ==
  /\ \A v : Append(<<>>, v) = <<v>>
  /\ \A v, w : Head(<<v, w>>) = v /\ Tail(<<v, w>>) = <<w>> /\ Len(<<v, w>>) = 2
  /\ \A v : Head(<<v>>) = v /\ Len(<<v>>) = 1 /\ <<v>>[1] = v
  /\ \A v, w, x : <<v>> = <<w>> <=> v = w
  /\ \A v, w, x : <<v, w>> # <<x>>
  /\ \A v, w : <<v>> # <<>> /\ <<v, w>> # <<>>
<1>1. \A v : Append(<<>>, v) = <<v>>
  <2> TAKE v
  <2>1. <<>> \in Seq({v}) /\ v \in {v} /\ <<v>> \in Seq({v})
    OBVIOUS
  <2>2. Append(<<>>, v) = <<>> \o <<v>>
    BY <2>1, AppendIsConcat
  <2> QED
    BY <2>1, <2>2, ConcatEmptySeq
<1>2. \A v, w : Head(<<v, w>>) = v /\ Len(<<v, w>>) = 2
  OBVIOUS
<1>3. \A v, w : Tail(<<v, w>>) = <<w>>
  <2> TAKE v, w
  <2>1. <<v, w>> \in Seq({v, w}) /\ <<w>> \in Seq({v, w}) /\ <<v, w>> # <<>>
    OBVIOUS
  <2>2. /\ Tail(<<v, w>>) \in Seq({v, w}) /\ Len(Tail(<<v, w>>)) = 1
        /\ Tail(<<v, w>>)[1] = w
    BY <2>1
  <2> QED
    BY <2>1, <2>2, SeqEqual
<1>4. \A v : Head(<<v>>) = v /\ Len(<<v>>) = 1 /\ <<v>>[1] = v
  OBVIOUS
<1>5. \A v, w : <<v>> = <<w>> <=> v = w
  BY <1>4
<1>6. \A v, w, x : <<v, w>> # <<x>>
  BY <1>2, <1>4
<1>7. \A v, w : <<v>> # <<>> /\ <<v, w>> # <<>>
  BY <1>2, <1>4
<1> QED
  BY <1>1, <1>2, <1>3, <1>4, <1>5, <1>6, <1>7

LEMMA SetOf ==
  ASSUME NEW g \in Seq(Items), NEW x \in Items
  PROVE  /\ ToSet(<<>>) = {} /\ ToSet(<<x>>) = {x}
         /\ ToSet(Append(g, x)) = ToSet(g) \cup {x}
<1>1. ToSet(<<>>) = {} /\ ToSet(<<x>>) = {x}
  BY DEF ToSet
<1>2. /\ Append(g, x) \in Seq(Items) /\ Len(Append(g, x)) = Len(g) + 1 /\ Len(g) \in Nat
      /\ \A i \in 1 .. Len(g) : Append(g, x)[i] = g[i]
      /\ Append(g, x)[Len(g) + 1] = x
      /\ DOMAIN g = 1 .. Len(g) /\ DOMAIN Append(g, x) = 1 .. Len(g) + 1
  BY AppendProperties, LenProperties
<1>3. \A i \in 1 .. Len(g) + 1 : i \in 1 .. Len(g) \/ i = Len(g) + 1
  BY <1>2
<1>4. \A i \in 1 .. Len(g) : i \in 1 .. Len(g) + 1
  BY <1>2
<1>5. Len(g) + 1 \in 1 .. Len(g) + 1
  BY <1>2
<1>6. ToSet(Append(g, x)) = ToSet(g) \cup {x}
  BY <1>2, <1>3, <1>4, <1>5 DEF ToSet
<1> QED
  BY <1>1, <1>6

LEMMA FirstIn == ASSUME NEW k \in Nat PROVE "ttft" \in ToSet(Texts(k)) <=> k # 0
<1>1. CASE k = 0
  BY <1>1, FirstTexts, SetOf DEF Items, ToSet
<1>2. CASE k # 0
  <2>1. Texts(k) \in Seq(Items) /\ Len(Texts(k)) = k + 1 /\ Texts(k)[1] = "ttft"
    <3>1. /\ Texts(k) \in Seq(Items) /\ Len(Texts(k)) = k + 1
          /\ \A i \in 1 .. Len(Texts(k)) :
               Texts(k)[i] = IF i = 1 THEN "ttft" ELSE IF i = 2 THEN "role" ELSE "text"
      BY <1>2, TextsIs
    <3>2. 1 \in 1 .. Len(Texts(k))
      BY <3>1
    <3> QED
      BY <3>1, <3>2
  <2>2. 1 \in DOMAIN Texts(k)
    BY <1>2, <2>1, LenProperties
  <2> QED
    BY <1>2, <2>1, <2>2 DEF ToSet
<1> QED
  BY <1>1, <1>2

(* A client that is still there holds the beginning of an answer. *)
LEMMA ShapePrefix ==
  ASSUME NEW p \in PCs, NEW a, NEW o, NEW g \in Seq(Items), NEW c \in 0 .. MaxChunks,
         Queued(p, o), Shape(p, a, o, g, c)
  PROVE  \E b \in Answers : IsPrefix(g, b)
<1>1. MaxChunks \in Nat /\ 0 \in 0 .. MaxChunks /\ \A k \in 0 .. c : k \in 0 .. MaxChunks
  BY ConstantsOK
<1>2. CASE g = <<>>
  BY <1>1, <1>2, FirstTexts, Endings
<1>3. CASE \E k \in 0 .. c : g = Texts(k) \/ g = Append(Texts(k), "error")
  BY <1>1, <1>3, Endings
<1>4. CASE g = <<"error">>
  <2>1. g = Append(Texts(0), "error")
    BY <1>4, FirstTexts, Shorts
  <2> QED
    BY <1>1, <2>1, Endings
<1>5. CASE g = <<"ttft">> /\ c > 0
  <2>1. Texts(1) = <<"ttft">> \o <<"role">>
    <3>1. <<"ttft">> \in Seq(Items) /\ "role" \in Items
      BY DEF Items
    <3> QED
      BY <3>1, FirstTexts, AppendIsConcat
  <2>2. 1 \in 0 .. MaxChunks
    BY <1>1, <1>5
  <2>3. Append(Texts(1), "stop") \in Answers
    BY <2>2, Endings
  <2>4. Append(Texts(1), "stop") = <<"ttft">> \o <<"role", "stop">>
    <3>1. /\ <<"ttft">> \in Seq(Items) /\ <<"role">> \in Seq(Items) /\ <<"stop">> \in Seq(Items)
          /\ "stop" \in Items /\ <<"role", "stop">> \in Seq(Items)
      BY DEF Items
    <3>2. Append(Texts(1), "stop") = (<<"ttft">> \o <<"role">>) \o <<"stop">>
      BY <2>1, <3>1, AppendIsConcat, ConcatProperties
    <3>3. <<"role">> \o <<"stop">> = <<"role", "stop">>
      <4>1. /\ <<"role">> \o <<"stop">> \in Seq(Items)
            /\ Len(<<"role">> \o <<"stop">>) = 2 /\ Len(<<"role", "stop">>) = 2
            /\ \A i \in 1 .. 2 : (<<"role">> \o <<"stop">>)[i] = <<"role", "stop">>[i]
        BY <3>1
      <4> QED
        BY <3>1, <4>1, SeqEqual
    <3> QED
      BY <3>1, <3>2, <3>3, ConcatAssociative
  <2>5. <<"ttft">> \in Seq(Items) /\ <<"role", "stop">> \in Seq(Items)
    BY DEF Items
  <2> QED
    BY <1>5, <2>3, <2>4, <2>5, PrefixOfMore
<1>6. CASE g \in Answers
  BY <1>6, PrefixOfSelf
<1> QED
  <2>1. \A k \in 1 .. c : k \in 0 .. c
    BY <1>1
  <2>2. CASE p \in {"idle", "query", "open", "forward", "early", "crash"}
    BY <1>2, <1>4, <2>2 DEF Shape
  <2>3. CASE p \in {"next", "fault", "poll"}
    BY <1>3, <2>3 DEF Shape
  <2>4. CASE p = "text"
    BY <1>2, <1>3, <1>5, <2>1, <2>4 DEF Shape
  <2>5. CASE p = "tail"
    BY <1>3, <2>5 DEF Shape
  <2>6. CASE p = "end"
    BY <1>2, <1>6, <2>6 DEF Shape
  <2> QED
    BY <2>2, <2>3, <2>4, <2>5, <2>6 DEF PCs, Awaiting, Sending

-------------------------------------------------------------------------------
(* The steps. *)

(* What is known of one request. *)
LEMMA OfRequest ==
  ASSUME TypeOK, NEW r \in Requests
  PROVE  /\ pc[r] \in PCs /\ here[r] \in BOOLEAN /\ miner[r] \in {"none", "whole", "failed"}
         /\ answer[r] \in Statuses \cup {0} /\ out[r] \in Seq(Items) /\ got[r] \in Seq(Items)
         /\ chunks[r] \in 0 .. MaxChunks /\ score[r] \in Seq({"good", "bad"})
         /\ usage[r] \in Seq(Statuses) /\ tasks[r] \in Nat /\ rows[r] \in Nat
         /\ lost[r] \in {"no", "logged", "dropped"}
  BY DEF TypeOK

LEMMA InitLife == Init => LifeInv
<1> SUFFICES ASSUME Init PROVE LifeInv
  OBVIOUS
<1>1. /\ <<>> \in Seq(Items) /\ <<>> \in Seq(Statuses) /\ <<>> \in Seq({"good", "bad"})
      /\ 0 \in 0 .. MaxChunks /\ "idle" \in PCs /\ Len(<<>>) = 0
  BY ConstantsOK DEF PCs
<1>2. TypeOK
  BY <1>1 DEF Init, TypeOK
<1>3. ASSUME NEW r \in Requests PROVE Kept(r)
  <2>1. /\ pc[r] = "idle" /\ answer[r] = 0 /\ out[r] = <<>> /\ got[r] = <<>> /\ chunks[r] = 0
        /\ score[r] = <<>> /\ usage[r] = <<>> /\ tasks[r] = 0 /\ rows[r] = 0
        /\ miner[r] = "none"
    BY DEF Init
  <2>2. Queued(pc[r], out[r]) /\ Shape(pc[r], answer[r], out[r], got[r], chunks[r])
    BY <2>1 DEF Queued, Shape
  <2>3. \E a \in Answers : IsPrefix(got[r], a)
    BY <1>2, <2>2, OfRequest, ShapePrefix
  <2>4. ToSet(<<>>) = {}
    BY DEF ToSet
  <2> QED
    BY <1>1, <2>1, <2>2, <2>3, <2>4 DEF Kept, Counted, Scored, Billed
<1> QED
  BY <1>2, <1>3 DEF LifeInv

(* A step of r changes the values of r only. *)
LEMMA Others ==
  ASSUME TypeOK, NEW r \in Requests, NEW q \in Requests, q # r, Step(r)
  PROVE  /\ pc'[q] = pc[q] /\ here'[q] = here[q] /\ answer'[q] = answer[q]
         /\ out'[q] = out[q] /\ got'[q] = got[q] /\ chunks'[q] = chunks[q]
         /\ score'[q] = score[q] /\ usage'[q] = usage[q] /\ tasks'[q] = tasks[q]
         /\ rows'[q] = rows[q] /\ lost'[q] = lost[q] /\ miner'[q] = miner[q]
<1> USE DEF Goto, Observe, Record, Judge, Respond, stream, billing, ledger, TypeOK
<1>1. CASE Json(r)
  <2>1. CASE Unavailable(r) \/ Query(r) \/ Crash(r)
    BY <2>1 DEF Unavailable, Query, Crash
  <2>2. CASE MinerFails(r)
    BY <2>2 DEF MinerFails
  <2>3. CASE MinerAnswers(r)
    BY <2>3 DEF MinerAnswers
  <2> QED
    BY <1>1, <2>1, <2>2, <2>3 DEF Json
<1>2. CASE StreamUnavailable(r) \/ Open(r) \/ Start(r) \/ Forwarded(r) \/ ForwardFails(r)
  BY <1>2 DEF StreamUnavailable, Open, Start, Forwarded, ForwardFails
<1>3. CASE Chunk(r) \/ PollHere(r) \/ PollGone(r) \/ MidStreamError(r) \/ Exhausted(r)
  BY <1>3 DEF Chunk, PollHere, PollGone, MidStreamError, Exhausted
<1>4. CASE SendItem(r) \/ SendLast(r)
  <2>1. CASE SendItem(r)
    BY <2>1 DEF SendItem, Deliver
  <2>2. CASE SendLast(r)
    <3>1. /\ got'[q] = got[q] /\ here' = here /\ answer' = answer /\ chunks' = chunks
          /\ rows' = rows /\ lost' = lost /\ miner' = miner
      BY <2>2 DEF SendLast, Deliver
    <3>2. pc'[q] = pc[q] /\ out'[q] = out[q]
      BY <2>2 DEF SendLast
    <3>3. score'[q] = score[q] /\ usage'[q] = usage[q] /\ tasks'[q] = tasks[q]
      BY <2>2 DEF SendLast, RecordStream
    <3> QED
      BY <3>1, <3>2, <3>3
  <2> QED
    BY <1>4, <2>1, <2>2
<1>5. CASE Disconnect(r) \/ Close(r) \/ RecordUsage(r) \/ DropTask(r)
  <2>1. CASE Disconnect(r)
    BY <2>1 DEF Disconnect
  <2>2. CASE Close(r)
    <3>1. score'[q] = score[q]
      BY <2>2 DEF Close, ObserveClosed
    <3>2. usage'[q] = usage[q] /\ tasks'[q] = tasks[q]
      BY <2>2 DEF Close, RecordStream
    <3> QED
      BY <2>2, <3>1, <3>2 DEF Close
  <2>3. CASE RecordUsage(r)
    BY <2>3 DEF RecordUsage
  <2>4. CASE DropTask(r)
    BY <2>4 DEF DropTask
  <2> QED
    BY <1>5, <2>1, <2>2, <2>3, <2>4
<1> QED
  BY <1>1, <1>2, <1>3, <1>4, <1>5 DEF Step, Stream

(* So what is left to show of a step of r is about r. *)
LEMMA StepOfOne ==
  ASSUME LifeInv, NEW r \in Requests, Step(r), TypeOK', Kept(r)'
  PROVE  LifeInv'
<1>1. ASSUME NEW q \in Requests, q # r PROVE Kept(q)'
  <2>1. Kept(q) /\ TypeOK
    BY DEF LifeInv
  <2> QED
    BY <1>1, <2>1, Others DEF Kept
<1> QED
  BY <1>1 DEF LifeInv

(* The prefix of an answer stays one, or follows from the shape. *)
LEMMA PrefixKept ==
  ASSUME TypeOK', NEW r \in Requests, Kept(r), Queued(pc[r], out[r])',
         here'[r] => Shape(pc[r], answer[r], out[r], got[r], chunks[r])',
         got'[r] = got[r] \/ here'[r]
  PROVE  \E a \in Answers : IsPrefix(got'[r], a)
<1>1. CASE got'[r] = got[r]
  BY <1>1 DEF Kept
<1>2. CASE here'[r]
  BY <1>2, ShapePrefix DEF TypeOK
<1> QED
  BY <1>1, <1>2
(* The record_usage task of a request that has none yet. *)
LEMMA Recorded ==
  ASSUME TypeOK, NEW r \in Requests, Kept(r), pc[r] # "end", NEW s \in Statuses, Record(r, s),
         rows' = rows
  PROVE  /\ usage' \in [Requests -> Seq(Statuses)] /\ tasks' \in [Requests -> Nat]
         /\ usage'[r] = <<s>> /\ Len(usage'[r]) = 1 /\ tasks'[r] + rows'[r] = 1
<1>1. usage[r] = <<>> /\ tasks[r] \in Nat /\ rows[r] \in Nat /\ tasks[r] + rows[r] <= 0
  <2>1. Len(<<>>) = 0
    OBVIOUS
  <2> QED
    BY <2>1, OfRequest DEF Kept, Counted
<1>2. usage'[r] = <<s>> /\ tasks'[r] = tasks[r] + 1
  BY <1>1, Shorts DEF Record, TypeOK
<1>3. usage' \in [Requests -> Seq(Statuses)] /\ tasks' \in [Requests -> Nat]
  BY <1>1 DEF Record, TypeOK
<1> QED
  BY <1>1, <1>2, <1>3, Shorts

(* The observation of a request that made none yet. *)
LEMMA Observed ==
  ASSUME TypeOK, NEW r \in Requests, score[r] = <<>>, NEW v \in {"good", "bad"}, Observe(r, v)
  PROVE  score' \in [Requests -> Seq({"good", "bad"})] /\ score'[r] = <<v>>
  BY Shorts DEF Observe, TypeOK

LEMMA Words ==
  /\ \A p \in {"idle", "query", "open", "end", "forward", "next", "poll", "early", "text", "fault",
               "tail", "crash"} : p \in PCs
  /\ \A i \in {"json", "ttft", "role", "text", "error", "stop", "done"} : i \in Items
  /\ \A s \in {200, 500, 502, 503, 504} : s \in Statuses
  /\ <<>> \in Seq(Items) /\ <<"json">> \in Seq(Items) /\ <<"stop">> \in Seq(Items)
  /\ <<"error">> \in Seq(Items) /\ <<"error", "done">> \in Seq(Items) /\ <<"done">> \in Seq(Items)
  /\ <<"ttft", "role">> \in Seq(Items) /\ <<"role">> \in Seq(Items) /\ <<"text">> \in Seq(Items)
  /\ ToSet(<<>>) = {}
  BY DEF PCs, Awaiting, Sending, Items, Statuses, ToSet

LEMMA UnavailableKeeps ==
  ASSUME LifeInv, NEW r \in Requests, Unavailable(r) \/ Crash(r)
  PROVE  TypeOK' /\ Kept(r)'
<1>1. PICK s \in {500, 503} : Respond(r, s) /\ Record(r, s)
  BY DEF Unavailable, Crash
<1>2. /\ pc[r] \in {"idle", "query"} /\ TypeOK /\ Kept(r)
      /\ pc' = [pc EXCEPT ![r] = "end"] /\ answer' = [answer EXCEPT ![r] = s]
      /\ UNCHANGED <<here, out, got, chunks, score, rows, lost, miner>>
  BY <1>1 DEF Unavailable, Crash, LifeInv, Goto, Respond, stream, ledger
<1>3. /\ usage' \in [Requests -> Seq(Statuses)] /\ tasks' \in [Requests -> Nat]
      /\ usage'[r] = <<s>> /\ Len(usage'[r]) = 1 /\ tasks'[r] + rows'[r] = 1
  BY <1>1, <1>2, Words, Recorded
<1>4. TypeOK'
  <2>1. pc' \in [Requests -> PCs] /\ answer' \in [Requests -> Statuses \cup {0}]
    BY <1>2 DEF TypeOK, PCs, Statuses
  <2> QED
    BY <1>2, <1>3, <2>1 DEF TypeOK
<1>5. pc'[r] = "end" /\ answer'[r] = s /\ s # 200
  BY <1>2 DEF TypeOK
<1>6. Counted(pc[r], usage[r], tasks[r], rows[r], lost[r])'
  BY <1>3, <1>5 DEF Counted
<1>7. /\ Scored(pc[r], out[r], score[r], miner[r])' /\ Queued(pc[r], out[r])'
      /\ (here[r] => Shape(pc[r], answer[r], out[r], got[r], chunks[r]))'
  BY <1>2, <1>5 DEF Kept, Scored, Queued, Shape
<1>8. Billed(pc[r], got[r], usage[r], score[r])'
  BY <1>2 DEF Kept, Billed
<1> QED
  BY <1>2, <1>4, <1>6, <1>7, <1>8, PrefixKept DEF Kept

(* Steps that only go on. *)
LEMMA MovesKeeps ==
  ASSUME LifeInv, NEW r \in Requests, Query(r) \/ Open(r) \/ Forwarded(r)
  PROVE  TypeOK' /\ Kept(r)'
<1>1. PICK p \in {"query", "open", "next"} :
        /\ pc' = [pc EXCEPT ![r] = p]
        /\ p = "next" => pc[r] = "forward"
  BY DEF Query, Open, Forwarded, Goto
<1>2. /\ pc[r] \in {"idle", "forward"} /\ TypeOK /\ Kept(r)
      /\ answer' \in [Requests -> Statuses \cup {0}]
      /\ UNCHANGED <<here, out, got, chunks, score, usage, tasks, rows, lost, miner>>
  <2>1. /\ pc[r] \in {"idle", "forward"} /\ TypeOK /\ Kept(r)
        /\ answer' = answer \/ answer' = [answer EXCEPT ![r] = 200]
        /\ UNCHANGED <<here, out, got, chunks, score, usage, tasks, rows, lost, miner>>
    BY DEF Query, Open, Forwarded, LifeInv, Respond, stream, billing, ledger
  <2>2. answer \in [Requests -> Statuses \cup {0}] /\ 200 \in Statuses \cup {0}
    BY <2>1 DEF TypeOK, Statuses
  <2>3. answer' \in [Requests -> Statuses \cup {0}]
    BY <2>1, <2>2
  <2> QED
    BY <2>1, <2>3
<1>3. TypeOK'
  BY <1>1, <1>2, Words DEF TypeOK
<1>4. pc'[r] = p
  BY <1>1, <1>2 DEF TypeOK
<1>5. /\ Counted(pc[r], usage[r], tasks[r], rows[r], lost[r])'
      /\ Scored(pc[r], out[r], score[r], miner[r])' /\ Queued(pc[r], out[r])'
  BY <1>2, <1>4 DEF Kept, Counted, Scored, Queued
<1>6. here'[r] => Shape(pc[r], answer[r], out[r], got[r], chunks[r])'
  <2>1. 0 \in 0 .. chunks[r]
    BY <1>2, OfRequest
  <2> QED
    BY <1>2, <1>4, <2>1, FirstTexts DEF Kept, Shape
<1>7. Billed(pc[r], got[r], usage[r], score[r])'
  BY <1>2, <1>4 DEF Kept, Billed
<1> QED
  BY <1>2, <1>3, <1>5, <1>6, <1>7, PrefixKept DEF Kept

(* No usage record where nothing was asked of a miner. *)
LEMMA StreamUnavailableKeeps ==
  ASSUME LifeInv, NEW r \in Requests, StreamUnavailable(r)
  PROVE  TypeOK' /\ Kept(r)'
<1>1. /\ pc[r] = "idle" /\ TypeOK /\ Kept(r)
      /\ pc' = [pc EXCEPT ![r] = "end"] /\ answer' = [answer EXCEPT ![r] = 503]
      /\ UNCHANGED <<here, out, got, chunks, score, usage, tasks, rows, lost, miner>>
  BY DEF StreamUnavailable, LifeInv, Goto, Respond, stream, billing, ledger
<1>2. TypeOK'
  BY <1>1, Words DEF TypeOK
<1>3. pc'[r] = "end" /\ answer'[r] = 503
  BY <1>1 DEF TypeOK
<1>4. /\ Counted(pc[r], usage[r], tasks[r], rows[r], lost[r])'
      /\ Scored(pc[r], out[r], score[r], miner[r])' /\ Queued(pc[r], out[r])'
      /\ (here[r] => Shape(pc[r], answer[r], out[r], got[r], chunks[r]))'
      /\ Billed(pc[r], got[r], usage[r], score[r])'
  BY <1>1, <1>3 DEF Kept, Counted, Scored, Queued, Shape, Billed
<1> QED
  BY <1>1, <1>2, <1>4, PrefixKept DEF Kept

LEMMA MinerFailsKeeps ==
  ASSUME LifeInv, NEW r \in Requests, MinerFails(r)
  PROVE  TypeOK' /\ Kept(r)'
<1>1. PICK s \in {502, 504} : Respond(r, s) /\ Record(r, s)
  BY DEF MinerFails
<1>2. /\ pc[r] = "query" /\ TypeOK /\ Kept(r) /\ score[r] = <<>> /\ Observe(r, "bad")
      /\ pc' = [pc EXCEPT ![r] = "end"] /\ answer' = [answer EXCEPT ![r] = s]
      /\ miner' = [miner EXCEPT ![r] = "failed"]
      /\ UNCHANGED <<here, out, got, chunks, rows, lost>>
  <2>1. pc[r] = "query" /\ TypeOK /\ Kept(r)
    BY DEF MinerFails, LifeInv
  <2>2. score[r] = <<>>
    BY <2>1 DEF Kept, Scored
  <2> QED
    BY <1>1, <2>1, <2>2 DEF MinerFails, Goto, Respond, Judge, stream, ledger
<1>3. /\ usage' \in [Requests -> Seq(Statuses)] /\ tasks' \in [Requests -> Nat]
      /\ usage'[r] = <<s>> /\ Len(usage'[r]) = 1 /\ tasks'[r] + rows'[r] = 1
  BY <1>1, <1>2, Words, Recorded
<1>4. score' \in [Requests -> Seq({"good", "bad"})] /\ score'[r] = <<"bad">>
  BY <1>2, Observed
<1>5. TypeOK'
  <2>1. /\ pc' \in [Requests -> PCs] /\ answer' \in [Requests -> Statuses \cup {0}]
        /\ miner' \in [Requests -> {"none", "whole", "failed"}]
    BY <1>2 DEF TypeOK, PCs, Statuses
  <2> QED
    BY <1>2, <1>3, <1>4, <2>1 DEF TypeOK
<1>6. pc'[r] = "end" /\ answer'[r] = s /\ s # 200 /\ miner'[r] = "failed"
  BY <1>2 DEF TypeOK
<1>7. Counted(pc[r], usage[r], tasks[r], rows[r], lost[r])'
  BY <1>3, <1>6 DEF Counted
<1>8. /\ Scored(pc[r], out[r], score[r], miner[r])' /\ Queued(pc[r], out[r])'
      /\ (here[r] => Shape(pc[r], answer[r], out[r], got[r], chunks[r]))'
  BY <1>2, <1>4, <1>6 DEF Kept, Scored, Queued, Shape
<1>9. Billed(pc[r], got[r], usage[r], score[r])'
  BY <1>2 DEF Kept, Billed
<1> QED
  BY <1>2, <1>5, <1>7, <1>8, <1>9, PrefixKept DEF Kept

LEMMA MinerAnswersKeeps ==
  ASSUME LifeInv, NEW r \in Requests, MinerAnswers(r)
  PROVE  TypeOK' /\ Kept(r)'
<1>1. /\ pc[r] = "query" /\ TypeOK /\ Kept(r) /\ score[r] = <<>> /\ Observe(r, "good")
      /\ pc' = [pc EXCEPT ![r] = "end"] /\ miner' = [miner EXCEPT ![r] = "whole"]
      /\ UNCHANGED <<here, out, chunks, rows, lost>>
  BY DEF MinerAnswers, LifeInv, Goto, Judge, Kept, Scored, ledger
<1>2. score' \in [Requests -> Seq({"good", "bad"})] /\ score'[r] = <<"good">>
  BY <1>1, Observed
<1>3. pc'[r] = "end" /\ miner'[r] = "whole"
  BY <1>1 DEF TypeOK
<1>4. Scored(pc[r], out[r], score[r], miner[r])' /\ Queued(pc[r], out[r])'
  BY <1>2, <1>3 DEF Scored, Queued
<1>5. CASE /\ Respond(r, 200) /\ Record(r, 200)
           /\ got' = [got EXCEPT ![r] = IF here[r] THEN <<"json">> ELSE <<>>]
  <2>1. /\ usage' \in [Requests -> Seq(Statuses)] /\ tasks' \in [Requests -> Nat]
        /\ usage'[r] = <<200>> /\ Len(usage'[r]) = 1 /\ tasks'[r] + rows'[r] = 1
    BY <1>1, <1>5, Words, Recorded
  <2>2. /\ answer' \in [Requests -> Statuses \cup {0}] /\ answer'[r] = 200
        /\ got' \in [Requests -> Seq(Items)]
        /\ got'[r] = IF here[r] THEN <<"json">> ELSE <<>>
    BY <1>1, <1>5, Words DEF Respond, TypeOK
  <2>3. TypeOK'
    BY <1>1, <1>2, <2>1, <2>2, Words DEF TypeOK
  <2>4. <<"json">> \in Answers
    BY DEF Answers
  <2>5. Counted(pc[r], usage[r], tasks[r], rows[r], lost[r])'
    BY <1>3, <2>1 DEF Counted
  <2>6. (here[r] => Shape(pc[r], answer[r], out[r], got[r], chunks[r]))'
    BY <1>1, <1>3, <2>2, <2>4 DEF Shape
  <2>7. Billed(pc[r], got[r], usage[r], score[r])'
    BY <1>2, <1>3, <2>1 DEF Billed
  <2>8. \E a \in Answers : IsPrefix(got'[r], a)
    <3>1. IsPrefix(<<"json">>, <<"json">>)
      BY Words, PrefixOfSelf
    <3>2. <<>> \o <<"json">> = <<"json">>
      BY Words, ConcatEmptySeq
    <3>3. IsPrefix(<<>>, <<>> \o <<"json">>)
      BY Words, PrefixOfMore
    <3> QED
      BY <2>2, <2>4, <3>1, <3>2, <3>3
  <2> QED
    BY <1>4, <2>3, <2>5, <2>6, <2>7, <2>8 DEF Kept
<1>6. CASE Respond(r, 502) /\ UNCHANGED <<got, billing>>
  <2>1. /\ answer' \in [Requests -> Statuses \cup {0}] /\ answer'[r] = 502
        /\ got' = got /\ usage' = usage /\ tasks' = tasks
    BY <1>1, <1>6, Words DEF Respond, TypeOK, billing, ledger
  <2>2. TypeOK'
    BY <1>1, <1>2, <2>1, Words DEF TypeOK
  <2>3. Counted(pc[r], usage[r], tasks[r], rows[r], lost[r])'
    BY <1>1, <2>1, <1>3 DEF Kept, Counted
  <2>4. (here[r] => Shape(pc[r], answer[r], out[r], got[r], chunks[r]))'
    BY <1>1, <1>3, <2>1 DEF Kept, Shape
  <2>5. Billed(pc[r], got[r], usage[r], score[r])'
    BY <1>1, <2>1 DEF Kept, Billed
  <2> QED
    BY <1>1, <1>4, <2>1, <2>2, <2>3, <2>4, <2>5, PrefixKept DEF Kept
<1> QED
  BY <1>5, <1>6 DEF MinerAnswers

-------------------------------------------------------------------------------
(* Steps of a stream, up to its sends. *)

(* The generator starts, or its request cannot be converted. *)
LEMMA StartKeeps ==
  ASSUME LifeInv, NEW r \in Requests, Start(r)
  PROVE  TypeOK' /\ Kept(r)'
<1>1. /\ pc[r] = "open" /\ TypeOK /\ Kept(r)
      /\ UNCHANGED <<here, answer, got, chunks, score, usage, tasks, rows, lost, miner>>
  BY DEF Start, LifeInv, billing, ledger
<1>2. \/ pc' = [pc EXCEPT ![r] = "forward"] /\ out' = out
      \/ /\ pc' = [pc EXCEPT ![r] = "crash"]
         /\ out' = [out EXCEPT ![r] = <<"error", "done">>]
  BY DEF Start, Goto
<1>3. TypeOK'
  <2>1. <<"error", "done">> \in Seq(Items)
    BY DEF Items
  <2>2. pc' \in [Requests -> PCs]
    BY <1>1, <1>2 DEF TypeOK, PCs, Awaiting, Sending
  <2>3. out' \in [Requests -> Seq(Items)]
    BY <1>1, <1>2, <2>1 DEF TypeOK
  <2> QED
    BY <1>1, <2>2, <2>3 DEF TypeOK
<1>4. pc'[r] = "forward" \/ (pc'[r] = "crash" /\ out'[r] = <<"error", "done">>)
  BY <1>1, <1>2 DEF TypeOK
<1>5. /\ Counted(pc[r], usage[r], tasks[r], rows[r], lost[r])'
      /\ Scored(pc[r], out[r], score[r], miner[r])' /\ Queued(pc[r], out[r])'
      /\ Billed(pc[r], got[r], usage[r], score[r])'
  BY <1>1, <1>4 DEF Kept, Counted, Scored, Queued, Billed
<1>6. here'[r] => Shape(pc[r], answer[r], out[r], got[r], chunks[r])'
  BY <1>1, <1>4, Shorts DEF Kept, Shape
<1> QED
  BY <1>1, <1>3, <1>5, <1>6, PrefixKept DEF Kept

LEMMA ForwardFailsKeeps ==
  ASSUME LifeInv, NEW r \in Requests, ForwardFails(r)
  PROVE  TypeOK' /\ Kept(r)'
<1>1. /\ pc[r] = "forward" /\ TypeOK /\ Kept(r) /\ Observe(r, "bad")
      /\ pc' = [pc EXCEPT ![r] = "early"] /\ miner' = [miner EXCEPT ![r] = "failed"]
      /\ out' = [out EXCEPT ![r] = <<"error", "done">>]
      /\ UNCHANGED <<here, answer, got, chunks, usage, tasks, rows, lost>>
  BY DEF ForwardFails, LifeInv, Goto, Judge, billing, ledger
<1>2. score' \in [Requests -> Seq({"good", "bad"})] /\ score'[r] = <<"bad">>
  <2>1. score[r] = <<>>
    BY <1>1 DEF Kept, Scored
  <2> QED
    BY <1>1, <2>1, Observed
<1>3. TypeOK'
  <2>1. <<"error", "done">> \in Seq(Items)
    BY DEF Items
  <2>2. /\ pc' \in [Requests -> PCs] /\ out' \in [Requests -> Seq(Items)]
        /\ miner' \in [Requests -> {"none", "whole", "failed"}]
    BY <1>1, <2>1 DEF TypeOK, PCs, Sending
  <2> QED
    BY <1>1, <1>2, <2>2 DEF TypeOK
<1>4. pc'[r] = "early" /\ out'[r] = <<"error", "done">> /\ miner'[r] = "failed"
  BY <1>1 DEF TypeOK
<1>5. /\ Counted(pc[r], usage[r], tasks[r], rows[r], lost[r])'
      /\ Scored(pc[r], out[r], score[r], miner[r])' /\ Queued(pc[r], out[r])'
      /\ Billed(pc[r], got[r], usage[r], score[r])'
  BY <1>1, <1>2, <1>4 DEF Kept, Counted, Scored, Queued, Billed
<1>6. here'[r] => Shape(pc[r], answer[r], out[r], got[r], chunks[r])'
  BY <1>1, <1>4, Shorts DEF Kept, Shape
<1> QED
  BY <1>1, <1>3, <1>5, <1>6, PrefixKept DEF Kept

LEMMA ChunkKeeps ==
  ASSUME LifeInv, NEW r \in Requests, Chunk(r)
  PROVE  TypeOK' /\ Kept(r)'
<1>1. /\ pc[r] = "next" /\ TypeOK /\ Kept(r) /\ chunks[r] < MaxChunks
      /\ pc' = [pc EXCEPT ![r] = "poll"] /\ chunks' = [chunks EXCEPT ![r] = chunks[r] + 1]
      /\ UNCHANGED <<here, answer, out, got, score, usage, tasks, rows, lost, miner>>
  BY DEF Chunk, LifeInv, Goto, billing, ledger
<1>2. chunks[r] \in Nat /\ chunks[r] + 1 \in 0 .. MaxChunks
  BY <1>1, OfRequest, ConstantsOK
<1>3. TypeOK'
  <2>1. pc' \in [Requests -> PCs] /\ chunks' \in [Requests -> 0 .. MaxChunks]
    BY <1>1, <1>2 DEF TypeOK, PCs, Awaiting
  <2> QED
    BY <1>1, <2>1 DEF TypeOK
<1>4. pc'[r] = "poll" /\ chunks'[r] = chunks[r] + 1
  BY <1>1 DEF TypeOK
<1>5. /\ Counted(pc[r], usage[r], tasks[r], rows[r], lost[r])'
      /\ Scored(pc[r], out[r], score[r], miner[r])' /\ Queued(pc[r], out[r])'
      /\ Billed(pc[r], got[r], usage[r], score[r])'
  BY <1>1, <1>4 DEF Kept, Counted, Scored, Queued, Billed
<1>6. here'[r] => Shape(pc[r], answer[r], out[r], got[r], chunks[r])'
  <2> SUFFICES ASSUME here'[r] PROVE Shape(pc[r], answer[r], out[r], got[r], chunks[r])'
    OBVIOUS
  <2>1. PICK k \in 0 .. chunks[r] : got[r] = Texts(k)
    BY <1>1 DEF Kept, Shape
  <2>2. k \in 0 .. chunks[r] + 1 /\ k < chunks[r] + 1
    BY <1>2
  <2>3. \E j \in 0 .. chunks'[r] : j < chunks'[r] /\ got'[r] = Texts(j)
    BY <1>1, <1>4, <2>1, <2>2
  <2> QED
    BY <1>4, <2>3 DEF Shape
<1> QED
  BY <1>1, <1>3, <1>5, <1>6, PrefixKept DEF Kept

LEMMA PollHereKeeps ==
  ASSUME LifeInv, NEW r \in Requests, PollHere(r)
  PROVE  TypeOK' /\ Kept(r)'
<1> DEFINE o == IF FirstText(r) THEN <<"ttft", "role">> ELSE <<"text">>
<1>1. /\ pc[r] = "poll" /\ here[r] /\ TypeOK /\ Kept(r)
      /\ UNCHANGED <<here, answer, got, chunks, score, usage, tasks, rows, lost, miner>>
  BY DEF PollHere, LifeInv, billing, ledger
<1>2. \/ pc' = [pc EXCEPT ![r] = "next"] /\ out' = out
      \/ pc' = [pc EXCEPT ![r] = "text"] /\ out' = [out EXCEPT ![r] = o]
  BY DEF PollHere, Goto
<1>3. PICK k \in 0 .. chunks[r] : k < chunks[r] /\ got[r] = Texts(k)
  BY <1>1 DEF Kept, Shape
<1>4. k \in Nat /\ chunks[r] \in Nat /\ chunks[r] > 0 /\ (k # 0 => k \in 1 .. chunks[r])
  BY <1>1, <1>3, OfRequest
<1>5. \/ k = 0 /\ got[r] = <<>> /\ o = <<"ttft", "role">>
      \/ k # 0 /\ o = <<"text">>
  <2>1. FirstText(r) <=> k = 0
    BY <1>3, <1>4, FirstIn DEF FirstText
  <2> QED
    BY <1>3, <2>1, FirstTexts
<1>6. o \in Seq(Items)
  <2>1. <<"ttft", "role">> \in Seq(Items) /\ <<"text">> \in Seq(Items)
    BY DEF Items
  <2> QED
    BY <2>1
<1> HIDE DEF o
<1>7. TypeOK'
  <2>1. pc' \in [Requests -> PCs]
    BY <1>1, <1>2 DEF TypeOK, PCs, Awaiting, Sending
  <2>2. out' \in [Requests -> Seq(Items)]
    BY <1>1, <1>2, <1>6 DEF TypeOK
  <2> QED
    BY <1>1, <2>1, <2>2 DEF TypeOK
<1>8. pc'[r] = "next" \/ (pc'[r] = "text" /\ out'[r] = o)
  BY <1>1, <1>2 DEF TypeOK
<1>9. /\ Counted(pc[r], usage[r], tasks[r], rows[r], lost[r])'
      /\ Scored(pc[r], out[r], score[r], miner[r])' /\ Queued(pc[r], out[r])'
      /\ Billed(pc[r], got[r], usage[r], score[r])'
  BY <1>1, <1>5, <1>8 DEF Kept, Counted, Scored, Queued, Billed
<1>10. here'[r] => Shape(pc[r], answer[r], out[r], got[r], chunks[r])'
  <2>1. CASE pc'[r] = "next"
    BY <1>1, <1>3, <2>1 DEF Shape
  <2>2. CASE pc'[r] = "text" /\ out'[r] = o
    BY <1>1, <1>3, <1>4, <1>5, <2>2 DEF Shape
  <2> QED
    BY <1>8, <2>1, <2>2
<1> QED
  BY <1>1, <1>7, <1>9, <1>10, PrefixKept DEF Kept

LEMMA PollGoneKeeps ==
  ASSUME LifeInv, NEW r \in Requests, PollGone(r)
  PROVE  TypeOK' /\ Kept(r)'
<1>1. /\ pc[r] = "poll" /\ ~ here[r] /\ TypeOK /\ Kept(r) /\ Record(r, 200)
      /\ pc' = [pc EXCEPT ![r] = "end"]
      /\ UNCHANGED <<here, answer, out, got, chunks, score, rows, lost, miner>>
  BY DEF PollGone, LifeInv, Goto, stream, ledger
<1>2. /\ usage' \in [Requests -> Seq(Statuses)] /\ tasks' \in [Requests -> Nat]
      /\ usage'[r] = <<200>> /\ Len(usage'[r]) = 1 /\ tasks'[r] + rows'[r] = 1
  <2>1. 200 \in Statuses
    BY DEF Statuses
  <2> QED
    BY <1>1, <2>1, Recorded
<1>3. TypeOK'
  <2>1. pc' \in [Requests -> PCs]
    BY <1>1 DEF TypeOK, PCs
  <2> QED
    BY <1>1, <1>2, <2>1 DEF TypeOK
<1>4. pc'[r] = "end" /\ ~ here'[r]
  BY <1>1 DEF TypeOK
<1>5. /\ Counted(pc[r], usage[r], tasks[r], rows[r], lost[r])'
      /\ Scored(pc[r], out[r], score[r], miner[r])' /\ Queued(pc[r], out[r])'
      /\ Billed(pc[r], got[r], usage[r], score[r])'
  BY <1>1, <1>2, <1>4 DEF Kept, Counted, Scored, Queued, Billed
<1> QED
  BY <1>1, <1>3, <1>4, <1>5, PrefixKept DEF Kept

LEMMA MidStreamErrorKeeps ==
  ASSUME LifeInv, NEW r \in Requests, MidStreamError(r)
  PROVE  TypeOK' /\ Kept(r)'
<1>1. /\ pc[r] = "next" /\ TypeOK /\ Kept(r)
      /\ pc' = [pc EXCEPT ![r] = "fault"] /\ miner' = [miner EXCEPT ![r] = "failed"]
      /\ out' = [out EXCEPT ![r] = <<"error">>]
      /\ UNCHANGED <<here, answer, got, chunks, score, usage, tasks, rows, lost>>
  BY DEF MidStreamError, LifeInv, Goto, Judge, billing, ledger
<1>2. TypeOK'
  <2>1. <<"error">> \in Seq(Items)
    BY DEF Items
  <2>2. /\ pc' \in [Requests -> PCs] /\ out' \in [Requests -> Seq(Items)]
        /\ miner' \in [Requests -> {"none", "whole", "failed"}]
    BY <1>1, <2>1 DEF TypeOK, PCs, Sending
  <2> QED
    BY <1>1, <2>2 DEF TypeOK
<1>3. pc'[r] = "fault" /\ out'[r] = <<"error">> /\ miner'[r] = "failed"
  BY <1>1 DEF TypeOK
<1>4. /\ Counted(pc[r], usage[r], tasks[r], rows[r], lost[r])'
      /\ Scored(pc[r], out[r], score[r], miner[r])' /\ Queued(pc[r], out[r])'
      /\ Billed(pc[r], got[r], usage[r], score[r])'
  BY <1>1, <1>3 DEF Kept, Counted, Scored, Queued, Billed
<1>5. here'[r] => Shape(pc[r], answer[r], out[r], got[r], chunks[r])'
  BY <1>1, <1>3 DEF Kept, Shape
<1> QED
  BY <1>1, <1>2, <1>4, <1>5, PrefixKept DEF Kept

LEMMA ExhaustedKeeps ==
  ASSUME LifeInv, NEW r \in Requests, Exhausted(r)
  PROVE  TypeOK' /\ Kept(r)'
<1>1. /\ pc[r] = "next" /\ TypeOK /\ Kept(r) /\ Observe(r, "good")
      /\ pc' = [pc EXCEPT ![r] = "tail"] /\ miner' = [miner EXCEPT ![r] = "whole"]
      /\ out' = [out EXCEPT ![r] = <<"stop">>]
      /\ UNCHANGED <<here, answer, got, chunks, usage, tasks, rows, lost>>
  BY DEF Exhausted, LifeInv, Goto, Judge, billing, ledger
<1>2. score' \in [Requests -> Seq({"good", "bad"})] /\ score'[r] = <<"good">>
  <2>1. score[r] = <<>>
    BY <1>1 DEF Kept, Scored
  <2> QED
    BY <1>1, <2>1, Observed
<1>3. TypeOK'
  <2>1. <<"stop">> \in Seq(Items)
    BY DEF Items
  <2>2. /\ pc' \in [Requests -> PCs] /\ out' \in [Requests -> Seq(Items)]
        /\ miner' \in [Requests -> {"none", "whole", "failed"}]
    BY <1>1, <2>1 DEF TypeOK, PCs, Sending
  <2> QED
    BY <1>1, <1>2, <2>2 DEF TypeOK
<1>4. pc'[r] = "tail" /\ out'[r] = <<"stop">> /\ miner'[r] = "whole"
  BY <1>1 DEF TypeOK
<1>5. /\ Counted(pc[r], usage[r], tasks[r], rows[r], lost[r])'
      /\ Scored(pc[r], out[r], score[r], miner[r])' /\ Queued(pc[r], out[r])'
      /\ Billed(pc[r], got[r], usage[r], score[r])'
  BY <1>1, <1>2, <1>4 DEF Kept, Counted, Scored, Queued, Billed
<1>6. here'[r] => Shape(pc[r], answer[r], out[r], got[r], chunks[r])'
  BY <1>1, <1>4 DEF Kept, Shape
<1> QED
  BY <1>1, <1>3, <1>5, <1>6, PrefixKept DEF Kept

-------------------------------------------------------------------------------
(* Sends. *)

LEMMA Delivered ==
  ASSUME TypeOK, NEW r \in Requests, Kept(r), pc[r] # "end", NEW i \in Items, Head(out[r]) = i,
         Deliver(r)
  PROVE  /\ got' \in [Requests -> Seq(Items)]
         /\ got'[r] = IF here[r] THEN Append(got[r], i) ELSE got[r]
         /\ i \notin {"json", "stop"} => ToSet(got'[r]) \cap {"json", "stop"} = {}
<1>1. got[r] \in Seq(Items) /\ Append(got[r], i) \in Seq(Items)
  BY OfRequest, AppendProperties
<1>2. got'[r] = IF here[r] THEN Append(got[r], i) ELSE got[r]
  BY DEF Deliver, TypeOK
<1>3. got' \in [Requests -> Seq(Items)]
  <2>1. (IF here[r] THEN Append(got[r], i) ELSE got[r]) \in Seq(Items)
    BY <1>1
  <2>2. got' = [got EXCEPT ![r] = IF here[r] THEN Append(got[r], i) ELSE got[r]]
    BY DEF Deliver
  <2>3. got \in [Requests -> Seq(Items)]
    BY DEF TypeOK
  <2> HIDE DEF TypeOK
  <2> QED
    BY <2>1, <2>2, <2>3
<1>4. ToSet(got[r]) \cap {"json", "stop"} = {}
  BY DEF Kept, Billed
<1>5. ToSet(Append(got[r], i)) = ToSet(got[r]) \cup {i}
  BY <1>1, SetOf
<1> QED
  BY <1>2, <1>3, <1>4, <1>5

LEMMA SendItemKeeps ==
  ASSUME LifeInv, NEW r \in Requests, SendItem(r)
  PROVE  TypeOK' /\ Kept(r)'
<1>1. /\ pc[r] \in Sending /\ Len(out[r]) > 1 /\ TypeOK /\ Kept(r) /\ Deliver(r)
      /\ out' = [out EXCEPT ![r] = Tail(out[r])]
      /\ UNCHANGED <<pc, here, answer, chunks, score, usage, tasks, rows, lost, miner>>
  BY DEF SendItem, LifeInv, billing, ledger
<1>2. \/ pc[r] \in {"early", "crash"} /\ out[r] = <<"error", "done">>
      \/ pc[r] = "text" /\ out[r] = <<"ttft", "role">>
  <2>1. Len(out[r]) \in Nat
    BY <1>1, OfRequest, LenProperties
  <2>2. Len(out[r]) # 1
    <3>1. \A n \in Nat : n > 1 => n # 1
      OBVIOUS
    <3>2. Len(out[r]) > 1
      BY DEF SendItem
    <3> QED
      BY <2>1, <3>1, <3>2, Zenon
  <2>3. \A v : out[r] # <<v>>
    BY <2>2, Shorts
  <2>4. CASE pc[r] \in {"early", "crash"}
    BY <1>1, <2>3, <2>4 DEF Kept, Queued
  <2>5. CASE pc[r] = "text"
    BY <1>1, <2>3, <2>5 DEF Kept, Queued
  <2>6. CASE pc[r] \in {"fault", "tail"}
    BY <1>1, <2>3, <2>6 DEF Kept, Queued
  <2> QED
    BY <1>1, <2>4, <2>5, <2>6 DEF Sending
<1>3. PICK i \in {"error", "ttft"}, j \in {"done", "role"} :
        /\ Head(out[r]) = i /\ Tail(out[r]) = <<j>>
        /\ \/ pc[r] \in {"early", "crash"} /\ i = "error" /\ j = "done"
           \/ pc[r] = "text" /\ i = "ttft" /\ j = "role"
  <2>1. Head(<<"error", "done">>) = "error" /\ Tail(<<"error", "done">>) = <<"done">>
    BY Shorts
  <2>2. Head(<<"ttft", "role">>) = "ttft" /\ Tail(<<"ttft", "role">>) = <<"role">>
    BY Shorts
  <2> QED
    BY <1>2, <2>1, <2>2
<1>4. /\ got' \in [Requests -> Seq(Items)]
      /\ got'[r] = IF here[r] THEN Append(got[r], i) ELSE got[r]
      /\ ToSet(got'[r]) \cap {"json", "stop"} = {}
  <2>1. i \in Items /\ pc[r] # "end" /\ i \notin {"json", "stop"}
    BY <1>3 DEF Items
  <2> QED
    BY <1>1, <1>3, <2>1, Delivered
<1>5. TypeOK'
  <2>1. <<j>> \in Seq(Items)
    BY DEF Items
  <2>2. out' \in [Requests -> Seq(Items)]
    BY <1>1, <1>3, <2>1 DEF TypeOK
  <2> QED
    BY <1>1, <1>4, <2>2 DEF TypeOK
<1>6. out'[r] = <<j>>
  BY <1>1, <1>3 DEF TypeOK
<1>7. /\ Counted(pc[r], usage[r], tasks[r], rows[r], lost[r])'
      /\ Scored(pc[r], out[r], score[r], miner[r])' /\ Billed(pc[r], got[r], usage[r], score[r])'
  BY <1>1, <1>3, <1>4 DEF Kept, Counted, Scored, Billed
<1>8. Queued(pc[r], out[r])'
  BY <1>1, <1>3, <1>6 DEF Queued
<1>9. here'[r] => Shape(pc[r], answer[r], out[r], got[r], chunks[r])'
  <2> SUFFICES ASSUME here[r] PROVE Shape(pc[r], answer[r], out[r], got[r], chunks[r])'
    BY <1>1
  <2>1. got[r] = <<>> /\ (pc[r] = "text" => chunks[r] > 0)
    BY <1>1, <1>2, Shorts DEF Kept, Shape
  <2>2. got'[r] = <<i>>
    BY <1>4, <2>1, Shorts
  <2> QED
    BY <1>1, <1>3, <1>6, <2>1, <2>2 DEF Shape
<1> QED
  BY <1>1, <1>4, <1>5, <1>7, <1>8, <1>9, PrefixKept DEF Kept

(* The last item of a chunk. *)
LEMMA SendChunkKeeps ==
  ASSUME LifeInv, NEW r \in Requests, SendLast(r), pc[r] = "text"
  PROVE  TypeOK' /\ Kept(r)'
<1>1. /\ Len(out[r]) = 1 /\ TypeOK /\ Kept(r) /\ Deliver(r)
      /\ pc' = [pc EXCEPT ![r] = "next"] /\ out' = [out EXCEPT ![r] = <<>>]
      /\ UNCHANGED <<here, answer, chunks, score, usage, tasks, rows, lost, miner>>
  BY DEF SendLast, LifeInv, Goto, billing, ledger
<1>2. PICK i \in {"role", "text"} : out[r] = <<i>> /\ Head(out[r]) = i
  BY <1>1, Shorts DEF Kept, Queued
<1>3. /\ got' \in [Requests -> Seq(Items)]
      /\ got'[r] = IF here[r] THEN Append(got[r], i) ELSE got[r]
      /\ ToSet(got'[r]) \cap {"json", "stop"} = {}
  <2>1. i \in Items /\ i \notin {"json", "stop"}
    BY <1>2 DEF Items
  <2> QED
    BY <1>1, <1>2, <2>1, Delivered
<1>4. TypeOK'
  <2>1. pc' \in [Requests -> PCs] /\ out' \in [Requests -> Seq(Items)]
    BY <1>1 DEF TypeOK, PCs, Awaiting
  <2> QED
    BY <1>1, <1>3, <2>1 DEF TypeOK
<1>5. pc'[r] = "next" /\ out'[r] = <<>>
  BY <1>1 DEF TypeOK
<1>6. /\ Counted(pc[r], usage[r], tasks[r], rows[r], lost[r])'
      /\ Scored(pc[r], out[r], score[r], miner[r])' /\ Queued(pc[r], out[r])'
      /\ Billed(pc[r], got[r], usage[r], score[r])'
  BY <1>1, <1>3, <1>5 DEF Kept, Counted, Scored, Queued, Billed
<1>7. here'[r] => Shape(pc[r], answer[r], out[r], got[r], chunks[r])'
  <2> SUFFICES ASSUME here[r] PROVE \E k \in 0 .. chunks[r] : got'[r] = Texts(k)
    BY <1>1, <1>5 DEF Shape
  <2>1. chunks[r] \in Nat /\ got'[r] = Append(got[r], i)
    BY <1>1, <1>3, OfRequest
  <2>2. \/ i = "role" /\ chunks[r] > 0 /\ got[r] = <<"ttft">>
        \/ i = "text" /\ \E k \in 1 .. chunks[r] : k < chunks[r] /\ got[r] = Texts(k)
    BY <1>1, <1>2, Shorts DEF Kept, Shape
  <2>3. CASE i = "role" /\ chunks[r] > 0 /\ got[r] = <<"ttft">>
    <3>1. 1 \in 0 .. chunks[r]
      BY <2>1, <2>3
    <3>2. got'[r] = Texts(1)
      BY <2>1, <2>3, FirstTexts
    <3> QED
      BY <3>1, <3>2
  <2>4. CASE i = "text" /\ \E k \in 1 .. chunks[r] : k < chunks[r] /\ got[r] = Texts(k)
    <3>1. PICK k \in 1 .. chunks[r] : k < chunks[r] /\ got[r] = Texts(k)
      BY <2>4
    <3>2. k \in Nat \ {0} /\ k + 1 \in 0 .. chunks[r]
      BY <2>1, <3>1
    <3>3. got'[r] = Texts(k + 1)
      BY <2>1, <2>4, <3>1, <3>2, NextText
    <3> QED
      BY <3>2, <3>3
  <2> QED
    BY <2>2, <2>3, <2>4
<1> QED
  BY <1>1, <1>3, <1>4, <1>6, <1>7, PrefixKept DEF Kept

(* The error item of a stream that failed in the middle. *)
LEMMA SendFaultKeeps ==
  ASSUME LifeInv, NEW r \in Requests, SendLast(r), pc[r] = "fault"
  PROVE  TypeOK' /\ Kept(r)'
<1>1. /\ TypeOK /\ Kept(r) /\ Deliver(r) /\ Observe(r, "bad")
      /\ pc' = [pc EXCEPT ![r] = "tail"] /\ out' = [out EXCEPT ![r] = <<"done">>]
      /\ UNCHANGED <<here, answer, chunks, usage, tasks, rows, lost, miner>>
  BY DEF SendLast, LifeInv, Goto, billing, ledger
<1>2. out[r] = <<"error">> /\ score[r] = <<>> /\ miner[r] = "failed" /\ Head(out[r]) = "error"
  BY <1>1, Shorts DEF Kept, Queued, Scored
<1>3. /\ got' \in [Requests -> Seq(Items)]
      /\ got'[r] = IF here[r] THEN Append(got[r], "error") ELSE got[r]
      /\ ToSet(got'[r]) \cap {"json", "stop"} = {}
  <2>1. "error" \in Items /\ "error" \notin {"json", "stop"}
    BY DEF Items
  <2> QED
    BY <1>1, <1>2, <2>1, Delivered
<1>4. score' \in [Requests -> Seq({"good", "bad"})] /\ score'[r] = <<"bad">>
  BY <1>1, <1>2, Observed
<1>5. TypeOK'
  <2>1. <<"done">> \in Seq(Items)
    BY DEF Items
  <2>2. pc' \in [Requests -> PCs] /\ out' \in [Requests -> Seq(Items)]
    BY <1>1, <2>1 DEF TypeOK, PCs, Sending
  <2> QED
    BY <1>1, <1>3, <1>4, <2>2 DEF TypeOK
<1>6. pc'[r] = "tail" /\ out'[r] = <<"done">> /\ <<"done">> # <<"stop">>
  BY <1>1, Shorts DEF TypeOK
<1>7. /\ Counted(pc[r], usage[r], tasks[r], rows[r], lost[r])'
      /\ Scored(pc[r], out[r], score[r], miner[r])' /\ Queued(pc[r], out[r])'
      /\ Billed(pc[r], got[r], usage[r], score[r])'
  BY <1>1, <1>2, <1>3, <1>4, <1>6 DEF Kept, Counted, Scored, Queued, Billed
<1>8. here'[r] => Shape(pc[r], answer[r], out[r], got[r], chunks[r])'
  <2> SUFFICES ASSUME here[r]
               PROVE  \E k \in 0 .. chunks[r] : got'[r] = Append(Texts(k), "error")
    BY <1>1, <1>6 DEF Shape
  <2>1. PICK k \in 0 .. chunks[r] : got[r] = Texts(k)
    BY <1>1 DEF Kept, Shape
  <2> QED
    BY <1>3, <2>1
<1> QED
  BY <1>1, <1>3, <1>5, <1>7, <1>8, PrefixKept DEF Kept

(* The last item of a stream. *)
LEMMA SendEndKeeps ==
  ASSUME LifeInv, NEW r \in Requests, SendLast(r), pc[r] \in {"early", "tail", "crash"}
  PROVE  TypeOK' /\ Kept(r)'
<1>1. /\ Len(out[r]) = 1 /\ TypeOK /\ Kept(r) /\ Deliver(r)
      /\ pc' = [pc EXCEPT ![r] = "end"] /\ out' = [out EXCEPT ![r] = <<>>]
      /\ UNCHANGED <<here, answer, chunks, score, rows, lost, miner>>
  BY DEF SendLast, LifeInv, Goto, ledger
<1>2. PICK s \in {200, 502} : Record(r, s) /\ (pc[r] # "crash" => s = 200)
  BY DEF SendLast, RecordStream
<1>3. PICK i \in {"stop", "done"} :
        out[r] = <<i>> /\ Head(out[r]) = i /\ (i = "stop" => pc[r] = "tail")
  <2>1. /\ pc[r] \in {"early", "tail", "crash"}
        /\ pc[r] \in {"early", "crash"} => out[r] \in {<<"error", "done">>, <<"done">>}
        /\ pc[r] = "tail" => out[r] \in {<<"stop">>, <<"done">>}
    BY <1>1 DEF Kept, Queued
  <2>2. Len(<<"error", "done">>) = 2
    OBVIOUS
  <2>3. out[r] = <<"done">> \/ (out[r] = <<"stop">> /\ pc[r] = "tail")
    BY <1>1, <2>1, <2>2
  <2>4. Head(<<"done">>) = "done" /\ Head(<<"stop">>) = "stop"
    OBVIOUS
  <2> QED
    BY <2>3, <2>4
<1>4. i \in Items /\ pc[r] # "end" /\ s \in Statuses
  BY DEF Items, Statuses
<1>5. /\ got' \in [Requests -> Seq(Items)]
      /\ got'[r] = IF here[r] THEN Append(got[r], i) ELSE got[r]
      /\ ToSet(got'[r]) \cap {"json", "stop"} # {} => i = "stop"
  <2>1. /\ TypeOK /\ Kept(r) /\ Deliver(r) /\ Head(out[r]) = i
        /\ i \in Items /\ pc[r] # "end"
    BY <1>1, <1>3, <1>4
  <2>2. got' \in [Requests -> Seq(Items)]
    BY <2>1, Delivered
  <2>3. got'[r] = IF here[r] THEN Append(got[r], i) ELSE got[r]
    <3>1. got'[r] = IF here[r] THEN Append(got[r], Head(out[r])) ELSE got[r]
      BY <1>1 DEF Deliver, TypeOK
    <3>2. Head(out[r]) = i
      BY <1>3
    <3> QED
      BY <3>1, <3>2, Zenon
  <2>4. i # "stop" => ToSet(got'[r]) \cap {"json", "stop"} = {}
    <3> SUFFICES ASSUME i = "done" PROVE ToSet(got'[r]) \cap {"json", "stop"} = {}
      OBVIOUS
    <3>1. "done" \in Items /\ "done" \notin {"json", "stop"} /\ Head(out[r]) = "done"
      BY <2>1 DEF Items
    <3> QED
      BY <2>1, <3>1, Delivered
  <2>5. ToSet(got'[r]) \cap {"json", "stop"} # {} => i = "stop"
    BY <2>4, Zenon
  <2> QED
    BY <2>2, <2>3, <2>5, Zenon
<1>6. /\ usage' \in [Requests -> Seq(Statuses)] /\ tasks' \in [Requests -> Nat]
      /\ usage'[r] = <<s>> /\ Len(usage'[r]) = 1 /\ tasks'[r] + rows'[r] = 1
  BY <1>1, <1>2, <1>4, Recorded
<1>7. TypeOK'
  <2>1. pc' \in [Requests -> PCs] /\ out' \in [Requests -> Seq(Items)]
    BY <1>1 DEF TypeOK, PCs
  <2> QED
    BY <1>1, <1>5, <1>6, <2>1 DEF TypeOK
<1>8. pc'[r] = "end" /\ out'[r] = <<>>
  BY <1>1 DEF TypeOK
<1>9. /\ Counted(pc[r], usage[r], tasks[r], rows[r], lost[r])'
      /\ Scored(pc[r], out[r], score[r], miner[r])' /\ Queued(pc[r], out[r])'
  BY <1>1, <1>6, <1>8 DEF Kept, Counted, Scored, Queued
<1>10. Billed(pc[r], got[r], usage[r], score[r])'
  <2>1. i = "stop" => s = 200 /\ score[r] = <<"good">>
    BY <1>1, <1>2, <1>3 DEF Kept, Scored
  <2> QED
    BY <1>1, <1>5, <1>6, <1>8, <2>1 DEF Billed
<1>11. here'[r] => Shape(pc[r], answer[r], out[r], got[r], chunks[r])'
  <2> SUFFICES ASSUME here[r] PROVE got'[r] \in Answers
    BY <1>1, <1>8 DEF Shape
  <2>1. got'[r] = Append(got[r], i)
    BY <1>5
  <2>2. 0 \in 0 .. MaxChunks /\ \A k \in 0 .. chunks[r] : k \in 0 .. MaxChunks
    BY <1>1, OfRequest, ConstantsOK
  <2>3. CASE pc[r] \in {"early", "crash"}
    <3>1. i = "done" /\ out[r] = <<"done">>
      BY <1>3, <2>3
    <3>2. got[r] = <<"error">>
      BY <1>1, <2>3, <3>1 DEF Kept, Shape
    <3>3. got[r] = Append(Texts(0), "error")
      BY <3>2, FirstTexts, Shorts
    <3> QED
      BY <2>1, <2>2, <3>1, <3>3, Endings
  <2>4. CASE pc[r] = "tail"
    <3>1. PICK k \in 0 .. chunks[r] :
            got[r] = IF out[r] = <<"stop">> THEN Texts(k) ELSE Append(Texts(k), "error")
      BY <1>1, <2>4 DEF Kept, Shape
    <3>2. \/ i = "stop" /\ got[r] = Texts(k)
          \/ i = "done" /\ got[r] = Append(Texts(k), "error")
      <4>1. out[r] = <<"stop">> <=> i = "stop"
        BY <1>3, Shorts
      <4> QED
        BY <3>1, <4>1
    <3>3. k \in 0 .. MaxChunks
      BY <2>2
    <3>4. /\ Append(Texts(k), "stop") \in Answers
          /\ Append(Append(Texts(k), "error"), "done") \in Answers
      BY <3>3, Endings
    <3>5. CASE i = "stop" /\ got[r] = Texts(k)
      <4>1. got'[r] = Append(Texts(k), "stop")
        BY <2>1, <3>5, Zenon
      <4> QED
        BY <3>4, <4>1, Zenon
    <3>6. CASE i = "done" /\ got[r] = Append(Texts(k), "error")
      BY <2>1, <3>4, <3>6, Zenon
    <3> QED
      BY <3>2, <3>5, <3>6, Zenon
  <2> QED
    BY <2>3, <2>4
<1> QED
  BY <1>1, <1>5, <1>7, <1>9, <1>10, <1>11, PrefixKept DEF Kept

-------------------------------------------------------------------------------
(* Disconnects, cancellation and the usage task. *)

LEMMA DisconnectKeeps ==
  ASSUME LifeInv, NEW r \in Requests, Disconnect(r)
  PROVE  TypeOK' /\ Kept(r)'
<1>1. /\ TypeOK /\ Kept(r) /\ here' = [here EXCEPT ![r] = FALSE]
      /\ UNCHANGED <<pc, answer, out, got, chunks, score, usage, tasks, rows, lost, miner>>
  BY DEF Disconnect, LifeInv, stream, billing, ledger
<1>2. TypeOK' /\ ~ here'[r]
  BY <1>1 DEF TypeOK
<1> QED
  BY <1>1, <1>2 DEF Kept

LEMMA CloseKeeps ==
  ASSUME LifeInv, NEW r \in Requests, Close(r)
  PROVE  TypeOK' /\ Kept(r)'
<1>1. /\ pc[r] \in {"query", "open"} \cup Awaiting \cup Sending /\ TypeOK /\ Kept(r)
      /\ pc' = [pc EXCEPT ![r] = "end"] /\ here' = [here EXCEPT ![r] = FALSE]
      /\ out' = [out EXCEPT ![r] = <<>>]
      /\ UNCHANGED <<answer, got, chunks, rows, lost, miner>>
  BY DEF Close, LifeInv, Goto, ledger
<1>2. pc[r] # "end"
  BY <1>1 DEF Awaiting, Sending
<1>3. /\ score' \in [Requests -> Seq({"good", "bad"})]
      /\ \/ score'[r] = <<>>
         \/ score'[r] = <<"good">> /\ miner[r] # "failed"
         \/ score'[r] = <<"bad">> /\ miner[r] = "failed"
  <2>1. ObserveClosed(r)
    BY DEF Close
  <2>2. CASE pc[r] \in {"next", "poll", "text"}
    <3>1. score[r] = <<>> /\ miner[r] = "none" /\ Observe(r, "good")
      BY <1>1, <2>1, <2>2 DEF Kept, Scored, ObserveClosed
    <3>2. score' \in [Requests -> Seq({"good", "bad"})] /\ score'[r] = <<"good">>
      BY <1>1, <3>1, Observed
    <3> QED
      BY <3>1, <3>2
  <2>3. CASE pc[r] = "fault"
    <3>1. score[r] = <<>> /\ miner[r] = "failed" /\ Observe(r, "bad")
      BY <1>1, <2>1, <2>3 DEF Kept, Scored, ObserveClosed
    <3>2. score' \in [Requests -> Seq({"good", "bad"})] /\ score'[r] = <<"bad">>
      BY <1>1, <3>1, Observed
    <3> QED
      BY <3>1, <3>2
  <2>4. CASE pc[r] \notin {"next", "poll", "text", "fault"}
    <3>1. score' = score
      BY <2>1, <2>4 DEF ObserveClosed
    <3>2. score \in [Requests -> Seq({"good", "bad"})]
      BY <1>1 DEF TypeOK
    <3> QED
      BY <1>1, <3>1, <3>2 DEF Kept, Scored
  <2> QED
    BY <2>2, <2>3, <2>4
<1>4. /\ usage' \in [Requests -> Seq(Statuses)] /\ tasks' \in [Requests -> Nat]
      /\ Len(usage'[r]) <= 1 /\ tasks'[r] + rows'[r] <= Len(usage'[r])
      /\ Len(usage'[r]) = 1 => tasks'[r] + rows'[r] = 1 \/ lost'[r] \in {"logged", "dropped"}
  <2>1. CASE pc[r] \in {"query", "open"}
    <3>1. usage' = usage /\ tasks' = tasks
      BY <2>1 DEF Close, billing, ledger
    <3> QED
      BY <1>1, <3>1 DEF TypeOK, Kept, Counted
  <2>2. CASE pc[r] \notin {"query", "open"}
    <3>1. PICK s \in {200, 502} : Record(r, s)
      BY <2>2 DEF Close, RecordStream
    <3>2. s \in Statuses
      BY DEF Statuses
    <3>3. /\ usage' \in [Requests -> Seq(Statuses)] /\ tasks' \in [Requests -> Nat]
          /\ Len(usage'[r]) = 1 /\ tasks'[r] + rows'[r] = 1
      BY <1>1, <1>2, <3>1, <3>2, Recorded
    <3> QED
      BY <3>3
  <2> QED
    BY <2>1, <2>2
<1>5. TypeOK'
  <2>1. /\ pc' \in [Requests -> PCs] /\ here' \in [Requests -> BOOLEAN]
        /\ out' \in [Requests -> Seq(Items)]
    BY <1>1 DEF TypeOK, PCs
  <2> QED
    BY <1>1, <1>3, <1>4, <2>1 DEF TypeOK
<1>6. pc'[r] = "end" /\ ~ here'[r]
  BY <1>1 DEF TypeOK
<1>7. /\ Counted(pc[r], usage[r], tasks[r], rows[r], lost[r])'
      /\ Scored(pc[r], out[r], score[r], miner[r])' /\ Queued(pc[r], out[r])'
      /\ Billed(pc[r], got[r], usage[r], score[r])'
  BY <1>1, <1>2, <1>3, <1>4, <1>6 DEF Kept, Counted, Scored, Queued, Billed
<1> QED
  BY <1>1, <1>5, <1>6, <1>7 DEF Kept

LEMMA TaskEndKeeps ==
  ASSUME LifeInv, NEW r \in Requests, RecordUsage(r) \/ DropTask(r)
  PROVE  TypeOK' /\ Kept(r)'
<1>1. /\ tasks[r] > 0 /\ TypeOK /\ Kept(r) /\ tasks' = [tasks EXCEPT ![r] = tasks[r] - 1]
      /\ UNCHANGED <<pc, here, answer, out, got, chunks, score, usage, miner>>
  BY DEF RecordUsage, DropTask, LifeInv, stream
<1>2. PICK n \in {0, 1}, l \in {"no", "logged", "dropped"} :
        /\ rows' = [rows EXCEPT ![r] = rows[r] + n]
        /\ lost' = [lost EXCEPT ![r] = l]
        /\ n = 1 \/ l # "no"
  <2>1. /\ rows \in [Requests -> Nat] /\ rows[r] + 0 = rows[r]
        /\ lost \in [Requests -> {"no", "logged", "dropped"}]
    BY <1>1 DEF TypeOK
  <2>2. rows = [rows EXCEPT ![r] = rows[r] + 0] /\ lost = [lost EXCEPT ![r] = lost[r]]
    BY <2>1
  <2>3. CASE DropTask(r)
    <3>1. rows' = rows /\ lost' = [lost EXCEPT ![r] = "dropped"]
      BY <2>3 DEF DropTask
    <3> QED
      BY <2>2, <3>1
  <2>4. CASE RecordUsage(r)
    <3>1. \/ rows' = [rows EXCEPT ![r] = rows[r] + 1] /\ lost' = lost
          \/ /\ lost' = [lost EXCEPT ![r] = "logged"]
             /\ rows' = [rows EXCEPT ![r] = rows[r] + 1] \/ rows' = rows
      BY <2>4 DEF RecordUsage
    <3>2. CASE rows' = [rows EXCEPT ![r] = rows[r] + 1] /\ lost' = lost
      BY <2>1, <2>2, <3>2
    <3>3. CASE /\ lost' = [lost EXCEPT ![r] = "logged"]
               /\ rows' = [rows EXCEPT ![r] = rows[r] + 1] \/ rows' = rows
      BY <2>2, <3>3
    <3> QED
      BY <3>1, <3>2, <3>3
  <2> QED
    BY <2>3, <2>4
<1>3. /\ tasks[r] \in Nat /\ rows[r] \in Nat /\ tasks[r] - 1 \in Nat /\ rows[r] + n \in Nat
      /\ tasks[r] + rows[r] <= Len(usage[r]) /\ Len(usage[r]) \in Nat
      /\ Len(usage[r]) = 1 => tasks[r] + rows[r] = 1 \/ lost[r] \in {"logged", "dropped"}
      /\ Len(usage[r]) <= 1
  BY <1>1, OfRequest, LenProperties DEF Kept, Counted
<1>4. /\ tasks' \in [Requests -> Nat] /\ rows' \in [Requests -> Nat]
      /\ lost' \in [Requests -> {"no", "logged", "dropped"}]
      /\ tasks'[r] = tasks[r] - 1 /\ rows'[r] = rows[r] + n /\ lost'[r] = l
  BY <1>1, <1>2, <1>3 DEF TypeOK
<1>5. TypeOK'
  BY <1>1, <1>4 DEF TypeOK
<1>6. /\ tasks'[r] + rows'[r] <= Len(usage[r])
      /\ tasks'[r] + rows'[r] = 1 \/ lost'[r] \in {"logged", "dropped"}
  BY <1>1, <1>2, <1>3, <1>4
<1>7. Counted(pc[r], usage[r], tasks[r], rows[r], lost[r])'
  BY <1>1, <1>6 DEF Kept, Counted
<1> QED
  BY <1>1, <1>5, <1>7 DEF Kept

LEMMA StutterKeeps == ASSUME LifeInv, UNCHANGED vars PROVE LifeInv'
  BY DEF LifeInv, TypeOK, Kept, vars

LEMMA StepKeeps == ASSUME LifeInv, NEW r \in Requests, Step(r) PROVE LifeInv'
<1>1. CASE Unavailable(r) \/ Crash(r)
  BY <1>1, UnavailableKeeps, StepOfOne
<1>2. CASE Query(r) \/ Open(r) \/ Forwarded(r)
  BY <1>2, MovesKeeps, StepOfOne
<1>3. CASE MinerFails(r)
  BY <1>3, MinerFailsKeeps, StepOfOne
<1>4. CASE MinerAnswers(r)
  BY <1>4, MinerAnswersKeeps, StepOfOne
<1>5. CASE StreamUnavailable(r)
  BY <1>5, StreamUnavailableKeeps, StepOfOne
<1>6. CASE Start(r)
  BY <1>6, StartKeeps, StepOfOne
<1>7. CASE ForwardFails(r)
  BY <1>7, ForwardFailsKeeps, StepOfOne
<1>8. CASE Chunk(r)
  BY <1>8, ChunkKeeps, StepOfOne
<1>9. CASE PollHere(r)
  BY <1>9, PollHereKeeps, StepOfOne
<1>10. CASE PollGone(r)
  BY <1>10, PollGoneKeeps, StepOfOne
<1>11. CASE MidStreamError(r)
  BY <1>11, MidStreamErrorKeeps, StepOfOne
<1>12. CASE Exhausted(r)
  BY <1>12, ExhaustedKeeps, StepOfOne
<1>13. CASE SendItem(r)
  BY <1>13, SendItemKeeps, StepOfOne
<1>14. CASE SendLast(r)
  <2>1. pc[r] \in Sending /\ pc[r] \in {"text", "fault"} \cup {"early", "tail", "crash"}
    BY <1>14 DEF SendLast, Sending
  <2>2. CASE pc[r] = "text"
    BY <1>14, <2>2, SendChunkKeeps, StepOfOne
  <2>3. CASE pc[r] = "fault"
    BY <1>14, <2>3, SendFaultKeeps, StepOfOne
  <2>4. CASE pc[r] \in {"early", "tail", "crash"}
    BY <1>14, <2>4, SendEndKeeps, StepOfOne
  <2> QED
    BY <2>1, <2>2, <2>3, <2>4
<1>15. CASE Disconnect(r)
  BY <1>15, DisconnectKeeps, StepOfOne
<1>16. CASE Close(r)
  BY <1>16, CloseKeeps, StepOfOne
<1>17. CASE RecordUsage(r) \/ DropTask(r)
  BY <1>17, TaskEndKeeps, StepOfOne
<1> QED
  BY <1>1, <1>2, <1>3, <1>4, <1>5, <1>6, <1>7, <1>8, <1>9, <1>10, <1>11, <1>12, <1>13, <1>14,
     <1>15, <1>16, <1>17 DEF Step, Json, Stream

LEMMA LifeInvariant == Spec => []LifeInv
<1>1. ASSUME LifeInv, [Next]_vars PROVE LifeInv'
  <2>1. CASE Next
    BY <1>1, <2>1, StepKeeps DEF Next
  <2>2. CASE UNCHANGED vars
    BY <1>1, <2>2, StutterKeeps
  <2> QED
    BY <1>1, <2>1, <2>2
<1> QED
  BY <1>1, InitLife, PTL DEF Spec

-------------------------------------------------------------------------------
(* The theorems. *)

(* Every variable keeps its type, whatever is interrupted where.               *)
THEOREM LifeTypes == Spec => []TypeOK
<1>1. LifeInv => TypeOK
  BY DEF LifeInv
<1> QED
  BY <1>1, LifeInvariant, PTL

(* However many requests there are and however they are interrupted, each is   *)
(* observed at most once and leaves at most one usage row: no finally clause   *)
(* of execute_stream repeats what an except clause or the normal end has done. *)
THEOREM OnceOnly == Spec => []AtMostOnce
<1>1. ASSUME LifeInv, NEW r \in Requests
      PROVE  Len(score[r]) <= 1 /\ Len(usage[r]) <= 1 /\ tasks[r] + rows[r] <= Len(usage[r])
  <2>1. /\ score[r] = <<>> \/ score[r] = <<"good">> \/ score[r] = <<"bad">>
        /\ Len(usage[r]) <= 1 /\ tasks[r] + rows[r] <= Len(usage[r])
    BY <1>1 DEF LifeInv, Kept, Counted, Scored
  <2>2. Len(<<>>) <= 1 /\ Len(<<"good">>) <= 1 /\ Len(<<"bad">>) <= 1
    OBVIOUS
  <2> QED
    BY <2>1, <2>2
<1>2. LifeInv => AtMostOnce
  BY <1>1 DEF AtMostOnce
<1> QED
  BY <1>2, LifeInvariant, PTL

(* For any number of chunks, what a client received is the beginning of a JSON *)
(* body or of a well-formed stream, and all of it once a request answered 200  *)
(* has ended and the client is still there (format_stream_chunk, sse_error).   *)
THEOREM AnswersWellFormed == Spec => []WellFormedAnswer
<1>1. ASSUME LifeInv, NEW r \in Requests
      PROVE  IF pc[r] = "end" /\ answer[r] = 200 /\ here[r]
               THEN got[r] \in Answers
               ELSE \E a \in Answers : IsPrefix(got[r], a)
  BY <1>1 DEF LifeInv, Kept, Shape
<1>2. LifeInv => WellFormedAnswer
  BY <1>1 DEF WellFormedAnswer
<1> QED
  BY <1>2, LifeInvariant, PTL

(* A client that got a JSON body or a stop chunk leaves a good observation and   *)
(* one usage row with status 200, unless its task is still to write it, failed   *)
(* and was logged, or was dropped.                                              *)
THEOREM Served == Spec => []ServedIsBilled
<1>1. ASSUME LifeInv, NEW r \in Requests, ToSet(got[r]) \cap {"json", "stop"} # {}
      PROVE  /\ usage[r] = <<200>> /\ score[r] = <<"good">>
             /\ tasks[r] + rows[r] = 1 \/ lost[r] \in {"logged", "dropped"}
  <2>1. Counted(pc[r], usage[r], tasks[r], rows[r], lost[r]) /\ usage[r] = <<200>>
        /\ score[r] = <<"good">>
    BY <1>1 DEF LifeInv, Kept, Billed
  <2>2. Len(<<200>>) = 1
    OBVIOUS
  <2> QED
    BY <2>1, <2>2 DEF Counted
<1>2. LifeInv => ServedIsBilled
  BY <1>1 DEF ServedIsBilled
<1> QED
  BY <1>2, LifeInvariant, PTL

(* The scorer holds against a miner only what the miner did, and credits none  *)
(* that failed.                                                                *)
THEOREM Fair == Spec => []ScoresFair
<1>1. ASSUME LifeInv, NEW r \in Requests
      PROVE  /\ "bad" \in ToSet(score[r]) => miner[r] = "failed"
             /\ "good" \in ToSet(score[r]) => miner[r] # "failed"
  <2>1. \/ score[r] = <<>>
        \/ score[r] = <<"good">> /\ miner[r] # "failed"
        \/ score[r] = <<"bad">> /\ miner[r] = "failed"
    BY <1>1 DEF LifeInv, Kept, Scored
  <2>2. ToSet(<<>>) = {} /\ ToSet(<<"good">>) = {"good"} /\ ToSet(<<"bad">>) = {"bad"}
    BY DEF ToSet
  <2> QED
    BY <2>1, <2>2
<1>2. LifeInv => ScoresFair
  BY <1>1 DEF ScoresFair
<1> QED
  BY <1>2, LifeInvariant, PTL
===============================================================================
