---------------------------- MODULE ChatProofs ----------------------------
(***************************************************************************)
(* Proofs about a chat session on disk (ChatStore): what the Markdown      *)
(* format writes it reads back, for sessions of any length, and so does a  *)
(* request that had the files to itself.                                   *)
(***************************************************************************)
EXTENDS ChatStore, WellFoundedInduction, SequenceTheorems, TLAPS

-----------------------------------------------------------------------------
(* Induction and recursion.  The library states both for operators; with a *)
(* set in the place of the operator they can be cited.                     *)

Below == {pair \in Nat \X Nat : pair[1] < pair[2]}

LEMMA BelowIsWellFounded == IsWellFoundedOn(Below, Nat)
BY NatLessThanWellFounded DEF OpToRel, Below

LEMMA SetInduction ==
    ASSUME NEW S, 0 \in S, \A n \in Nat : n \in S => n + 1 \in S
    PROVE  \A n \in Nat : n \in S
<1>. SUFFICES ASSUME NEW T, T = {n \in Nat : n \notin S}, T # {} PROVE FALSE
  OBVIOUS
<1>1. PICK x \in T : \A y \in T : ~ (<<y, x>> \in Below)
  BY BelowIsWellFounded, WFMin
<1>2. x \in Nat \ {0} /\ x - 1 \in Nat /\ x - 1 < x
  OBVIOUS
<1>3. x - 1 \in T
  BY <1>2
<1>4. <<x - 1, x>> \in Below
  BY <1>2 DEF Below
<1>. QED BY <1>1, <1>3, <1>4

(* Induction up to the length of a sequence. *)
LEMMA SetInductionTo ==
    ASSUME NEW n \in Nat, NEW S, 0 \in S, \A k \in 0..(n - 1) : k \in S => k + 1 \in S
    PROVE  \A k \in 0..n : k \in S
<1>. DEFINE T == {k \in Nat : k <= n => k \in S}
<1>1. 0 \in T
  OBVIOUS
<1>2. \A k \in Nat : k \in T => k + 1 \in T
  OBVIOUS
<1>. HIDE DEF T
<1>3. \A k \in Nat : k \in T
  BY <1>1, <1>2, SetInduction
<1>. QED BY <1>3 DEF T

(* g is what folding s by F from base passes through. *)
Folds(g, F, base, s, A) ==
    /\ g \in [0..Len(s) -> A] /\ g[0] = base
    /\ \A k \in 1..Len(s) : g[k] = F[<<g[k - 1], s[k]>>]

LEMMA FoldExists ==
    ASSUME NEW A, NEW B, NEW F \in [A \X B -> A], NEW base \in A, NEW s \in Seq(B)
    PROVE  \E g : Folds(g, F, base, s, A)
<1>. DEFINE Upto(g, n) == /\ g \in [0..n -> A] /\ g[0] = base
                          /\ \A k \in 1..n : g[k] = F[<<g[k - 1], s[k]>>]
            S == {n \in Nat : \E g : Upto(g, n)}
<1>0. Len(s) \in Nat /\ \A k \in 1..Len(s) : s[k] \in B
  OBVIOUS
<1>1. 0 \in S
  <2>1. Upto([k \in 0..0 |-> base], 0)
    OBVIOUS
  <2>. QED BY <2>1
<1>2. ASSUME NEW n \in 0..(Len(s) - 1), n \in S PROVE n + 1 \in S
  <2>1. PICK g : Upto(g, n)
    BY <1>2
  <2>. DEFINE h == [k \in 0..(n + 1) |-> IF k = n + 1 THEN F[<<g[n], s[n + 1]>>] ELSE g[k]]
  <2>2. s[n + 1] \in B /\ g[n] \in A /\ n \in Nat
    BY <1>0, <2>1
  <2>3. F[<<g[n], s[n + 1]>>] \in A
    BY <2>2
  <2>4. h \in [0..(n + 1) -> A] /\ h[0] = base
    BY <2>1, <2>2, <2>3
  <2>5. ASSUME NEW k \in 1..(n + 1) PROVE h[k] = F[<<h[k - 1], s[k]>>]
    <3>1. CASE k = n + 1
      <4>1. k \in 0..(n + 1) /\ n \in 0..(n + 1) /\ n # n + 1 /\ k - 1 = n
        BY <2>2, <3>1
      <4>2. h[k] = F[<<g[n], s[n + 1]>>] /\ h[n] = g[n]
        BY <3>1, <4>1
      <4>. HIDE DEF h
      <4>. QED BY <3>1, <4>1, <4>2
    <3>2. CASE k # n + 1
      <4>1. k \in 1..n /\ k \in 0..(n + 1) /\ k - 1 \in 0..(n + 1) /\ k - 1 # n + 1
        BY <2>2, <3>2
      <4>2. h[k] = g[k] /\ h[k - 1] = g[k - 1]
        BY <3>2, <4>1
      <4>. HIDE DEF h
      <4>. QED BY <2>1, <4>1, <4>2
    <3>. QED BY <3>1, <3>2
  <2>6. Upto(h, n + 1)
    BY <2>4, <2>5
  <2>. HIDE DEF h, Upto
  <2>. QED BY <2>2, <2>6
<1>. HIDE DEF S
<1>3. \A k \in 0..Len(s) : k \in S
  BY <1>0, <1>1, <1>2, SetInductionTo
<1>4. PICK g : Upto(g, Len(s))
  BY <1>0, <1>3 DEF S
<1>5. Folds(g, F, base, s, A)
  BY <1>4 DEF Folds
<1>. HIDE DEF Upto
<1>. QED BY <1>5

(* A function that follows F wherever its last value is in A is in A. *)
LEMMA FoldStays ==
    ASSUME NEW A, NEW B, NEW F \in [A \X B -> A], NEW base \in A, NEW s \in Seq(B), NEW g,
           g = [k \in 0..Len(s) |-> g[k]], g[0] = base,
           \A k \in 1..Len(s) : g[k - 1] \in A => g[k] = F[<<g[k - 1], s[k]>>]
    PROVE  Folds(g, F, base, s, A)
<1>. DEFINE S == {k \in 0..Len(s) : g[k] \in A}
<1>1. Len(s) \in Nat /\ \A k \in 1..Len(s) : s[k] \in B
  OBVIOUS
<1>2. 0 \in S
  BY <1>1
<1>3. ASSUME NEW k \in 0..(Len(s) - 1), k \in S PROVE k + 1 \in S
  <2>1. k + 1 \in 1..Len(s) /\ (k + 1) - 1 = k /\ k + 1 \in 0..Len(s) /\ g[k] \in A
    BY <1>1, <1>3
  <2>2. g[k + 1] = F[<<g[k], s[k + 1]>>] /\ s[k + 1] \in B
    BY <1>1, <2>1
  <2>. QED BY <2>1, <2>2
<1>. HIDE DEF S
<1>4. \A k \in 0..Len(s) : k \in S
  BY <1>1, <1>2, <1>3, SetInductionTo
<1>5. \A k \in 0..Len(s) : g[k] \in A
  BY <1>4 DEF S
<1>6. \A k \in 1..Len(s) : k - 1 \in 0..Len(s)
  BY <1>1
<1>. QED BY <1>5, <1>6 DEF Folds

-----------------------------------------------------------------------------
(* What the recursive definitions of the format compute. *)

Acc == [lines : Seq(Lines), files : Seq(Nat \X Images)]

LEMMA ImageLineType ==
    ASSUME NEW n \in Nat, NEW image \in Images
    PROVE  /\ ImageLine(n, image) \in Lines
           /\ image.as = "picture" => ImageLine(n, image).kind = "image" /\ ImageLine(n, image).n = n
           /\ image.as # "picture" => /\ ImageLine(n, image).kind = "odd"
                                      /\ ImageLine(n, image) = ImageLine(0, image)
BY ChatsAssumption DEF ImageLine, Line, Lines, Kinds, Images

(* The images that use up a number. *)
Numbered(image) == image.as \in {"picture", "odd", "lost"}

LEMMA AddImageIs ==
    ASSUME NEW acc \in Acc, NEW image \in Images, Numbered(image)
    PROVE  LET n == Len(acc.files) + 1
           IN  /\ n \in Nat
               /\ WriteImage(acc, image).files = Append(acc.files, <<n, image>>)
               /\ image.as = "lost" => WriteImage(acc, image).lines = acc.lines
               /\ image.as # "lost" => WriteImage(acc, image).lines = Append(acc.lines, ImageLine(n, image))
               /\ WriteImage(acc, image) \in Acc
<1>. DEFINE n == Len(acc.files) + 1
            line == ImageLine(n, image)
            file == <<n, image>>
<1>0. acc.lines \in Seq(Lines) /\ acc.files \in Seq(Nat \X Images) /\ n \in Nat
  BY DEF Acc
<1>1. WriteImage(acc, image) = [lines |-> IF image.as = "lost" THEN acc.lines ELSE Append(acc.lines, line),
                                files |-> Append(acc.files, file)]
  BY DEF WriteImage, AddImage, AddNumbered, Numbered
<1>2. line \in Lines /\ file \in Nat \X Images
  BY <1>0, ImageLineType
<1>. HIDE DEF line, file
<1>3. Append(acc.lines, line) \in Seq(Lines) /\ Append(acc.files, file) \in Seq(Nat \X Images)
  BY <1>0, <1>2
<1>4. WriteImage(acc, image) \in Acc
  BY <1>0, <1>1, <1>3 DEF Acc
<1>. QED BY <1>0, <1>1, <1>4 DEF line, file

LEMMA WriteImageType ==
    ASSUME NEW acc \in Acc, NEW image \in Images
    PROVE  WriteImage(acc, image) \in Acc
<1>1. CASE Numbered(image)
  BY <1>1, AddImageIs
<1>2. CASE image.as = "link"
  <2>. DEFINE line == Line("link", 0, image.of)
  <2>1. line \in Lines /\ acc.lines \in Seq(Lines)
    BY DEF Line, Lines, Kinds, Acc, Images
  <2>2. WriteImage(acc, image) = [acc EXCEPT !.lines = Append(acc.lines, line)]
    BY <1>2 DEF WriteImage
  <2>. HIDE DEF line
  <2>3. Append(acc.lines, line) \in Seq(Lines)
    BY <2>1
  <2>. QED BY <2>2, <2>3 DEF Acc
<1>3. CASE image.as = "broken"
  BY <1>3 DEF WriteImage
<1>. QED BY <1>1, <1>2, <1>3 DEF Images, Numbered

LEMMA DrawnDef ==
    ASSUME NEW acc \in Acc, NEW pictures \in Seq(Images)
    PROVE  /\ Drawn(acc, pictures) \in [0..Len(pictures) -> Acc]
           /\ Drawn(acc, pictures)[0] = acc
           /\ \A k \in 1..Len(pictures) :
                 Drawn(acc, pictures)[k] = WriteImage(Drawn(acc, pictures)[k - 1], pictures[k])
<1>. DEFINE F == [x \in Acc \X Images |-> WriteImage(x[1], x[2])]
            Eq(g) == g = [k \in 0..Len(pictures) |->
                            IF k = 0 THEN acc ELSE WriteImage(g[k - 1], pictures[k])]
            D == Drawn(acc, pictures)
<1>1. F \in [Acc \X Images -> Acc]
  BY WriteImageType
<1>2. Len(pictures) \in Nat /\ \A k \in 1..Len(pictures) : pictures[k] \in Images
  OBVIOUS
<1>3. \E g : Eq(g)
  <2>1. PICK g : Folds(g, F, acc, pictures, Acc)
    <3>. HIDE DEF F
    <3>. QED BY <1>1, FoldExists
  <2>2. Eq(g)
    BY <1>2, <2>1 DEF Folds
  <2>. QED BY <2>2
<1>4. Eq(D)
  <2>1. D = CHOOSE g : Eq(g)
    BY DEF Drawn
  <2>. HIDE DEF Eq
  <2>. QED BY <1>3, <2>1
<1>5. /\ D = [k \in 0..Len(pictures) |-> D[k]] /\ D[0] = acc
      /\ \A k \in 1..Len(pictures) : D[k] = WriteImage(D[k - 1], pictures[k])
  <2>. HIDE DEF D
  <2>. QED BY <1>2, <1>4
<1>6. Folds(D, F, acc, pictures, Acc)
  <2>1. \A k \in 1..Len(pictures) : D[k - 1] \in Acc => D[k] = F[<<D[k - 1], pictures[k]>>]
    BY <1>2, <1>5
  <2>. HIDE DEF F, D
  <2>. QED BY <1>1, <1>5, <2>1, FoldStays
<1>. QED BY <1>5, <1>6 DEF Folds

LEMMA TwoAppended ==
    ASSUME NEW S, NEW s \in Seq(S), NEW a \in S, NEW b \in S
    PROVE  s \o <<a, b>> = Append(Append(s, a), b) /\ s \o <<a, b>> \in Seq(S)
OBVIOUS

LEMMA WriteMessageType ==
    ASSUME NEW acc \in Acc, NEW msg \in ChatMessage
    PROVE  /\ WriteMessage(acc, msg) \in Acc
           /\ \E begun \in Acc :
                 /\ begun.lines = Append(Append(acc.lines, Line("marker", 0, msg.role)), Line("head", 0, ""))
                 /\ begun.files = acc.files
                 /\ WriteMessage(acc, msg) = [Drawn(begun, msg.images)[Len(msg.images)]
                                                  EXCEPT !.lines = @ \o msg.text]
<1>. DEFINE marker == Line("marker", 0, msg.role)
            head == Line("head", 0, "")
            begun == [acc EXCEPT !.lines = @ \o <<marker, head>>]
            drawn == Drawn(begun, msg.images)[Len(msg.images)]
<1>0. /\ acc.lines \in Seq(Lines) /\ acc.files \in Seq(Nat \X Images)
      /\ msg.role \in Words /\ msg.text \in Seq(Lines) /\ msg.images \in Seq(Images)
  BY ChatsAssumption DEF Acc, ChatMessage
<1>1. marker \in Lines /\ head \in Lines
  BY <1>0, ChatsAssumption DEF Line, Lines, Kinds
<1>. HIDE DEF marker, head
<1>2. /\ acc.lines \o <<marker, head>> = Append(Append(acc.lines, marker), head)
      /\ acc.lines \o <<marker, head>> \in Seq(Lines)
  BY <1>0, <1>1, TwoAppended
<1>3. /\ begun = [acc EXCEPT !.lines = acc.lines \o <<marker, head>>]
      /\ begun \in Acc /\ begun.lines = Append(Append(acc.lines, marker), head)
      /\ begun.files = acc.files
  BY <1>0, <1>2 DEF Acc
<1>4. WriteMessage(acc, msg) = [drawn EXCEPT !.lines = @ \o msg.text]
  BY DEF WriteMessage, marker, head
<1>. HIDE DEF begun
<1>5. drawn \in Acc
  <2>1. Len(msg.images) \in 0..Len(msg.images)
    BY <1>0
  <2>2. Drawn(begun, msg.images) \in [0..Len(msg.images) -> Acc]
    BY <1>0, <1>3, DrawnDef
  <2>. QED BY <2>1, <2>2
<1>. HIDE DEF drawn
<1>6. [drawn EXCEPT !.lines = @ \o msg.text] \in Acc
  <2>1. drawn.lines \o msg.text \in Seq(Lines)
    BY <1>0, <1>5 DEF Acc
  <2>. QED BY <1>5, <2>1 DEF Acc
<1>. QED BY <1>3, <1>4, <1>6 DEF drawn, marker, head

LEMMA EmptyType == Empty \in Acc
BY DEF Empty, Acc

LEMMA MessagesDef ==
    ASSUME NEW chat \in Seq(ChatMessage)
    PROVE  /\ Messages(chat) \in [0..Len(chat) -> Acc]
           /\ Messages(chat)[0] = Empty
           /\ \A k \in 1..Len(chat) :
                 Messages(chat)[k] = WriteMessage(Messages(chat)[k - 1], chat[k])
<1>. DEFINE F == [x \in Acc \X ChatMessage |-> WriteMessage(x[1], x[2])]
            Eq(g) == g = [k \in 0..Len(chat) |->
                            IF k = 0 THEN Empty ELSE WriteMessage(g[k - 1], chat[k])]
            D == Messages(chat)
<1>1. F \in [Acc \X ChatMessage -> Acc] /\ Empty \in Acc
  BY WriteMessageType, EmptyType
<1>2. Len(chat) \in Nat /\ \A k \in 1..Len(chat) : chat[k] \in ChatMessage
  OBVIOUS
<1>3. \E g : Eq(g)
  <2>1. PICK g : Folds(g, F, Empty, chat, Acc)
    <3>. HIDE DEF F
    <3>. QED BY <1>1, FoldExists
  <2>2. g \in [0..Len(chat) -> Acc] /\ g[0] = Empty
    BY <2>1 DEF Folds
  <2>3. ASSUME NEW k \in 1..Len(chat) PROVE g[k] = WriteMessage(g[k - 1], chat[k])
    <3>1. k - 1 \in 0..Len(chat) /\ chat[k] \in ChatMessage
      BY <1>2
    <3>2. <<g[k - 1], chat[k]>> \in Acc \X ChatMessage
      BY <2>2, <3>1
    <3>3. g[k] = F[<<g[k - 1], chat[k]>>]
      BY <2>1 DEF Folds
    <3>. QED BY <3>2, <3>3
  <2>4. Eq(g)
    BY <1>2, <2>2, <2>3
  <2>. QED BY <2>4
<1>4. Eq(D)
  <2>1. D = CHOOSE g : Eq(g)
    BY DEF Messages
  <2>. HIDE DEF Eq
  <2>. QED BY <1>3, <2>1
<1>5. /\ D = [k \in 0..Len(chat) |-> D[k]] /\ D[0] = Empty
      /\ \A k \in 1..Len(chat) : D[k] = WriteMessage(D[k - 1], chat[k])
  <2>. HIDE DEF D
  <2>. QED BY <1>2, <1>4
<1>6. Folds(D, F, Empty, chat, Acc)
  <2>1. \A k \in 1..Len(chat) : D[k - 1] \in Acc => D[k] = F[<<D[k - 1], chat[k]>>]
    BY <1>2, <1>5
  <2>. HIDE DEF F, D
  <2>. QED BY <1>1, <1>5, <2>1, FoldStays
<1>. QED BY <1>5, <1>6 DEF Folds

(* The reader.  It is shown the files F. *)

Msg == [role : Words, headed : BOOLEAN, text : Seq(Lines), images : Seq(Images)]

Pictured(F) == \A n \in DOMAIN F : F[n] \in Words

LEMMA AddLineType ==
    ASSUME NEW msg \in Msg, NEW line \in Lines, NEW F, Pictured(F)
    PROVE  AddLine(msg, line, F) \in Msg
<1>0. msg.text \in Seq(Lines) /\ msg.images \in Seq(Images)
  BY DEF Msg
<1>1. Append(msg.text, line) \in Seq(Lines)
  BY <1>0
<1>2. ASSUME Resolves(line, F) PROVE Append(msg.images, ImageOf(line, F)) \in Seq(Images)
  <2>1. ImageOf(line, F) \in Images
    BY <1>2 DEF Resolves, ImageOf, Pictured, Images, Lines
  <2>. QED BY <1>0, <2>1
<1>. QED BY <1>1, <1>2 DEF AddLine, Msg

LEMMA ReadLineType ==
    ASSUME NEW msgs \in Seq(Msg), NEW line \in Lines, NEW F, Pictured(F)
    PROVE  ReadLine(msgs, line, F) \in Seq(Msg)
<1>1. CASE line.kind = "marker"
  <2>1. Opened(line.s) \in Msg
    BY DEF Opened, Msg, Lines
  <2>. QED BY <1>1, <2>1 DEF ReadLine
<1>2. CASE line.kind # "marker" /\ msgs # <<>>
  <2>1. Len(msgs) \in 1..Len(msgs) /\ msgs[Len(msgs)] \in Msg
    BY <1>2
  <2>2. AddLine(msgs[Len(msgs)], line, F) \in Msg
    BY <2>1, AddLineType
  <2>. QED BY <1>2, <2>1, <2>2 DEF ReadLine
<1>3. CASE line.kind # "marker" /\ msgs = <<>>
  BY <1>3 DEF ReadLine
<1>. QED BY <1>1, <1>2, <1>3

LEMMA ScanDef ==
    ASSUME NEW lines \in Seq(Lines), NEW F, Pictured(F)
    PROVE  /\ Scan(lines, F) \in [0..Len(lines) -> Seq(Msg)]
           /\ Scan(lines, F)[0] = <<>>
           /\ \A k \in 1..Len(lines) :
                 Scan(lines, F)[k] = ReadLine(Scan(lines, F)[k - 1], lines[k], F)
<1>. DEFINE G == [x \in Seq(Msg) \X Lines |-> ReadLine(x[1], x[2], F)]
            Eq(g) == g = [k \in 0..Len(lines) |->
                            IF k = 0 THEN <<>> ELSE ReadLine(g[k - 1], lines[k], F)]
            D == Scan(lines, F)
<1>1. G \in [Seq(Msg) \X Lines -> Seq(Msg)] /\ <<>> \in Seq(Msg)
  BY ReadLineType
<1>2. Len(lines) \in Nat /\ \A k \in 1..Len(lines) : lines[k] \in Lines
  OBVIOUS
<1>3. \E g : Eq(g)
  <2>1. PICK g : Folds(g, G, <<>>, lines, Seq(Msg))
    <3>. HIDE DEF G
    <3>. QED BY <1>1, FoldExists
  <2>2. g \in [0..Len(lines) -> Seq(Msg)] /\ g[0] = <<>>
    BY <2>1 DEF Folds
  <2>3. ASSUME NEW k \in 1..Len(lines) PROVE g[k] = ReadLine(g[k - 1], lines[k], F)
    <3>1. k - 1 \in 0..Len(lines) /\ lines[k] \in Lines
      BY <1>2
    <3>2. <<g[k - 1], lines[k]>> \in Seq(Msg) \X Lines
      BY <2>2, <3>1
    <3>3. g[k] = G[<<g[k - 1], lines[k]>>]
      BY <2>1 DEF Folds
    <3>. QED BY <3>2, <3>3
  <2>4. Eq(g)
    BY <1>2, <2>2, <2>3
  <2>. QED BY <2>4
<1>4. Eq(D)
  <2>1. D = CHOOSE g : Eq(g)
    BY DEF Scan
  <2>. HIDE DEF Eq
  <2>. QED BY <1>3, <2>1
<1>5. /\ D = [k \in 0..Len(lines) |-> D[k]] /\ D[0] = <<>>
      /\ \A k \in 1..Len(lines) : D[k] = ReadLine(D[k - 1], lines[k], F)
  <2>. HIDE DEF D
  <2>. QED BY <1>2, <1>4
<1>6. Folds(D, G, <<>>, lines, Seq(Msg))
  <2>1. \A k \in 1..Len(lines) : D[k - 1] \in Seq(Msg) => D[k] = G[<<D[k - 1], lines[k]>>]
    BY <1>2, <1>5
  <2>. HIDE DEF G, D
  <2>. QED BY <1>1, <1>5, <2>1, FoldStays
<1>. QED BY <1>5, <1>6 DEF Folds

(* What the reader shows of a message's images: lines of text, and images. *)
View == [text : Seq(Lines), images : Seq(Images)]

NoView == [text |-> <<>>, images |-> <<>>]

LEMMA NoViewType == NoView \in View
BY DEF NoView, View

LEMMA ShownType ==
    ASSUME NEW shown \in View, NEW image \in Images
    PROVE  Shown(shown, image) \in View
<1>. DEFINE line == ImageLine(0, image)
<1>1. line \in Lines /\ shown.text \in Seq(Lines) /\ shown.images \in Seq(Images)
  BY ImageLineType DEF View
<1>2. Shown(shown, image) = CASE image.as \in {"picture", "link"} -> [shown EXCEPT !.images = Append(@, image)]
                              [] image.as = "odd" -> [shown EXCEPT !.text = Append(@, line)]
                              [] OTHER -> shown
  BY DEF Shown
<1>. HIDE DEF line
<1>3. Append(shown.text, line) \in Seq(Lines) /\ Append(shown.images, image) \in Seq(Images)
  BY <1>1
<1>4. CASE image.as \in {"picture", "link"}
  <2>1. Shown(shown, image) = [shown EXCEPT !.images = Append(shown.images, image)]
    BY <1>2, <1>4
  <2>. QED BY <1>3, <2>1 DEF View
<1>5. CASE image.as = "odd"
  <2>1. Shown(shown, image) = [shown EXCEPT !.text = Append(shown.text, line)]
    BY <1>2, <1>5
  <2>. QED BY <1>3, <2>1 DEF View
<1>6. CASE image.as \notin {"picture", "link", "odd"}
  BY <1>2, <1>6
<1>. QED BY <1>4, <1>5, <1>6

LEMMA AllShownDef ==
    ASSUME NEW pictures \in Seq(Images)
    PROVE  /\ AllShown(pictures) \in [0..Len(pictures) -> View]
           /\ AllShown(pictures)[0] = NoView
           /\ \A k \in 1..Len(pictures) :
                 AllShown(pictures)[k] = Shown(AllShown(pictures)[k - 1], pictures[k])
<1>. DEFINE F == [x \in View \X Images |-> Shown(x[1], x[2])]
            Eq(g) == g = [k \in 0..Len(pictures) |->
                            IF k = 0 THEN NoView ELSE Shown(g[k - 1], pictures[k])]
            D == AllShown(pictures)
<1>1. F \in [View \X Images -> View] /\ NoView \in View
  BY ShownType, NoViewType
<1>2. Len(pictures) \in Nat /\ \A k \in 1..Len(pictures) : pictures[k] \in Images
  OBVIOUS
<1>3. \E g : Eq(g)
  <2>1. PICK g : Folds(g, F, NoView, pictures, View)
    <3>. HIDE DEF F
    <3>. QED BY <1>1, FoldExists
  <2>2. g \in [0..Len(pictures) -> View] /\ g[0] = NoView
    BY <2>1 DEF Folds
  <2>3. ASSUME NEW k \in 1..Len(pictures) PROVE g[k] = Shown(g[k - 1], pictures[k])
    <3>1. k - 1 \in 0..Len(pictures) /\ pictures[k] \in Images
      BY <1>2
    <3>2. <<g[k - 1], pictures[k]>> \in View \X Images
      BY <2>2, <3>1
    <3>3. g[k] = F[<<g[k - 1], pictures[k]>>]
      BY <2>1 DEF Folds
    <3>. QED BY <3>2, <3>3
  <2>4. Eq(g)
    BY <1>2, <2>2, <2>3
  <2>. QED BY <2>4
<1>4. Eq(D)
  <2>1. D = CHOOSE g : Eq(g)
    BY DEF AllShown, NoView
  <2>. HIDE DEF Eq
  <2>. QED BY <1>3, <2>1
<1>5. /\ D = [k \in 0..Len(pictures) |-> D[k]] /\ D[0] = NoView
      /\ \A k \in 1..Len(pictures) : D[k] = Shown(D[k - 1], pictures[k])
  <2>. HIDE DEF D
  <2>. QED BY <1>2, <1>4
<1>6. Folds(D, F, NoView, pictures, View)
  <2>1. \A k \in 1..Len(pictures) : D[k - 1] \in View => D[k] = F[<<D[k - 1], pictures[k]>>]
    BY <1>2, <1>5
  <2>. HIDE DEF F, D
  <2>. QED BY <1>1, <1>5, <2>1, FoldStays
<1>. QED BY <1>5, <1>6 DEF Folds

-----------------------------------------------------------------------------
(* What is written is read back. *)

Seen(lines, F) == Scan(lines, F)[Len(lines)]

(* A prefix is read as if nothing came after it. *)
LEMMA SeenAppend ==
    ASSUME NEW lines \in Seq(Lines), NEW line \in Lines, NEW F, Pictured(F)
    PROVE  /\ Seen(lines, F) \in Seq(Msg)
           /\ Seen(Append(lines, line), F) = ReadLine(Seen(lines, F), line, F)
<1>. DEFINE more == Append(lines, line)
            n == Len(lines)
            S == {k \in 0..n : Scan(more, F)[k] = Scan(lines, F)[k]}
<1>1. /\ n \in Nat /\ more \in Seq(Lines) /\ Len(more) = n + 1 /\ more[n + 1] = line
      /\ \A k \in 1..n : more[k] = lines[k]
  OBVIOUS
<1>. HIDE DEF more, n
<1>2. /\ Scan(lines, F) \in [0..n -> Seq(Msg)] /\ Scan(lines, F)[0] = <<>>
      /\ \A k \in 1..n : Scan(lines, F)[k] = ReadLine(Scan(lines, F)[k - 1], lines[k], F)
  BY ScanDef DEF n
<1>3. /\ Scan(more, F)[0] = <<>>
      /\ \A k \in 1..(n + 1) : Scan(more, F)[k] = ReadLine(Scan(more, F)[k - 1], more[k], F)
  BY <1>1, ScanDef
<1>4. 0 \in S
  <2>1. Scan(more, F)[0] = Scan(lines, F)[0]
    BY <1>2, <1>3
  <2>. QED BY <1>1, <2>1
<1>5. ASSUME NEW k \in 0..(n - 1), k \in S PROVE k + 1 \in S
  <2>1. k + 1 \in 1..n /\ k + 1 \in 1..(n + 1) /\ k + 1 \in 0..n /\ (k + 1) - 1 = k
    BY <1>1
  <2>2. /\ Scan(lines, F)[k + 1] = ReadLine(Scan(lines, F)[k], lines[k + 1], F)
        /\ Scan(more, F)[k + 1] = ReadLine(Scan(more, F)[k], more[k + 1], F)
    BY <1>2, <1>3, <2>1
  <2>. QED BY <1>1, <1>5, <2>1, <2>2
<1>. HIDE DEF S
<1>6. \A k \in 0..n : k \in S
  BY <1>1, <1>4, <1>5, SetInductionTo
<1>7. Scan(more, F)[n] = Scan(lines, F)[n]
  BY <1>1, <1>6 DEF S
<1>8. Scan(more, F)[n + 1] = ReadLine(Scan(more, F)[n], line, F)
  <2>1. n + 1 \in 1..(n + 1) /\ (n + 1) - 1 = n
    BY <1>1
  <2>. QED BY <1>1, <1>3, <2>1
<1>9. Scan(lines, F)[n] \in Seq(Msg)
  BY <1>1, <1>2
<1>. QED BY <1>1, <1>7, <1>8, <1>9 DEF Seen, n, more

LEMMA SeenEmpty == ASSUME NEW F, Pictured(F) PROVE Seen(<<>>, F) = <<>>
<1>1. <<>> \in Seq(Lines) /\ Len(<<>>) = 0
  OBVIOUS
<1>. QED BY <1>1, ScanDef DEF Seen

(* A line goes to the last message. *)
LEMMA ReadLineLast ==
    ASSUME NEW msgs \in Seq(Msg), NEW m \in Msg, NEW line \in Lines, NEW F, Pictured(F),
           line.kind # "marker"
    PROVE  ReadLine(Append(msgs, m), line, F) = Append(msgs, AddLine(m, line, F))
<1>. DEFINE all == Append(msgs, m)
            new == AddLine(m, line, F)
<1>1. new \in Msg
  BY AddLineType
<1>2. all \in Seq(Msg) /\ all # <<>> /\ Len(all) = Len(msgs) + 1 /\ all[Len(all)] = m
  OBVIOUS
<1>3. ReadLine(all, line, F) = [all EXCEPT ![Len(all)] = AddLine(all[Len(all)], line, F)]
  BY <1>2 DEF ReadLine
<1>4. ReadLine(all, line, F) = [all EXCEPT ![Len(all)] = new]
  BY <1>2, <1>3
<1>. HIDE DEF new
<1>5. [all EXCEPT ![Len(all)] = new] = Append(msgs, new)
  <2>. DEFINE put == [all EXCEPT ![Len(all)] = new]
  <2>1. put \in Seq(Msg) /\ Append(msgs, new) \in Seq(Msg)
    BY <1>1, <1>2
  <2>2. Len(put) = Len(all) /\ Len(Append(msgs, new)) = Len(all)
    BY <1>1, <1>2
  <2>3. ASSUME NEW i \in 1..Len(all) PROVE put[i] = Append(msgs, new)[i]
    <3>1. CASE i = Len(msgs) + 1
      <4>1. Append(msgs, new)[i] = new
        BY <1>1, <3>1
      <4>2. put[i] = new
        BY <1>2, <3>1
      <4>. QED BY <4>1, <4>2
    <3>2. CASE i # Len(msgs) + 1
      <4>1. i \in 1..Len(msgs)
        BY <1>2, <3>2
      <4>2. Append(msgs, new)[i] = msgs[i] /\ all[i] = msgs[i]
        BY <1>1, <4>1
      <4>3. put[i] = all[i]
        <5>1. i # Len(all) /\ i \in DOMAIN all
          BY <1>2, <3>2
        <5>. HIDE DEF all
        <5>. QED BY <5>1
      <4>. QED BY <4>2, <4>3
    <3>. QED BY <3>1, <3>2
  <2>. HIDE DEF put, all
  <2>4. put = Append(msgs, new)
    BY <2>1, <2>2, <2>3, SeqEqual
  <2>. QED BY <2>4 DEF put
<1>. QED BY <1>4, <1>5 DEF new

(* A message with its heading read: of a role, with what is seen of it. *)
Viewed(role, view) == [role |-> role, headed |-> TRUE, text |-> view.text, images |-> view.images]

LEMMA ViewedType == ASSUME NEW role \in Words, NEW view \in View PROVE Viewed(role, view) \in Msg
BY DEF Viewed, View, Msg

(* If it is a picture the reader knows, it is in F under its number. *)
Filed(F, n, image) == image.as = "picture" => n \in DOMAIN F /\ F[n] = image.of

Stored(acc, F) == \A i \in DOMAIN acc.files : Filed(F, acc.files[i][1], acc.files[i][2])

(* The lines are read as msgs and, last, m. *)
EndsIn(lines, F, msgs, m) == Seen(lines, F) = Append(msgs, m)

LEMMA EndsInAppend ==
    ASSUME NEW lines \in Seq(Lines), NEW line \in Lines, NEW msgs \in Seq(Msg), NEW m \in Msg,
           NEW F, Pictured(F), line.kind # "marker", EndsIn(lines, F, msgs, m)
    PROVE  EndsIn(Append(lines, line), F, msgs, AddLine(m, line, F))
<1>1. Seen(Append(lines, line), F) = ReadLine(Append(msgs, m), line, F)
  BY SeenAppend DEF EndsIn
<1>2. ReadLine(Append(msgs, m), line, F) = Append(msgs, AddLine(m, line, F))
  BY ReadLineLast
<1>. QED BY <1>1, <1>2 DEF EndsIn

LEMMA WriteImageSeen ==
    ASSUME NEW acc \in Acc, NEW image \in Images, NEW msgs \in Seq(Msg), NEW role \in Words,
           NEW view \in View, NEW F, Pictured(F), Stored(WriteImage(acc, image), F),
           EndsIn(acc.lines, F, msgs, Viewed(role, view))
    PROVE  EndsIn(WriteImage(acc, image).lines, F, msgs, Viewed(role, Shown(view, image)))
<1>. DEFINE m == Viewed(role, view)
<1>0. /\ acc.lines \in Seq(Lines) /\ acc.files \in Seq(Nat \X Images) /\ m \in Msg
      /\ m.headed = TRUE /\ m.text = view.text /\ m.images = view.images
  BY ViewedType DEF Acc, Viewed
<1>1. CASE image.as = "picture"
  <2>. DEFINE n == Len(acc.files) + 1
              line == ImageLine(n, image)
              file == <<n, image>>
              files == Append(acc.files, file)
  <2>1. /\ n \in Nat /\ WriteImage(acc, image).files = files
        /\ WriteImage(acc, image).lines = Append(acc.lines, line)
    BY <1>1, AddImageIs DEF Numbered
  <2>2. line \in Lines /\ line.kind = "image" /\ line.n = n
    BY <1>1, <2>1, ImageLineType
  <2>3. file[1] = n /\ file[2] = image
    OBVIOUS
  <2>. HIDE DEF line, file
  <2>4. n \in DOMAIN files /\ files[n] = file
    BY <1>0
  <2>. HIDE DEF n, files
  <2>5. n \in DOMAIN F /\ F[n] = image.of
    BY <1>1, <2>1, <2>3, <2>4 DEF Stored, Filed
  <2>6. Resolves(line, F) /\ ImageOf(line, F) = image
    BY <1>1, <2>2, <2>5 DEF Resolves, ImageOf, Images
  <2>7. AddLine(m, line, F) = Viewed(role, Shown(view, image))
    BY <1>1, <2>2, <2>6 DEF AddLine, Shown, View, Viewed
  <2>. QED BY <1>0, <2>1, <2>2, <2>7, EndsInAppend
<1>2. CASE image.as = "odd"
  <2>. DEFINE line == ImageLine(0, image)
  <2>1. WriteImage(acc, image).lines = Append(acc.lines, line)
    BY <1>2, AddImageIs, ImageLineType DEF Numbered
  <2>2. line \in Lines /\ line.kind = "odd"
    BY <1>2, ImageLineType
  <2>3. Shown(view, image) = [view EXCEPT !.text = Append(@, line)]
    BY <1>2 DEF Shown
  <2>. HIDE DEF line
  <2>4. AddLine(m, line, F) = Viewed(role, Shown(view, image))
    BY <2>2, <2>3 DEF AddLine, Resolves, View, Viewed
  <2>. QED BY <1>0, <2>1, <2>2, <2>4, EndsInAppend
<1>3. CASE image.as = "link"
  <2>. DEFINE line == Line("link", 0, image.of)
  <2>1. line \in Lines /\ line.kind = "link" /\ line.s = image.of
    BY DEF Line, Lines, Kinds, Images
  <2>2. WriteImage(acc, image).lines = Append(acc.lines, line)
    BY <1>3 DEF WriteImage, Acc
  <2>. HIDE DEF line
  <2>3. Resolves(line, F) /\ ImageOf(line, F) = image
    BY <1>3, <2>1 DEF Resolves, ImageOf, Images
  <2>4. AddLine(m, line, F) = Viewed(role, Shown(view, image))
    BY <1>3, <2>1, <2>3 DEF AddLine, Shown, View, Viewed
  <2>. QED BY <1>0, <2>1, <2>2, <2>4, EndsInAppend
<1>4. CASE image.as = "lost"
  <2>1. WriteImage(acc, image).lines = acc.lines /\ Shown(view, image) = view
    BY <1>4, AddImageIs DEF Numbered, Shown
  <2>. QED BY <2>1
<1>5. CASE image.as = "broken"
  BY <1>5 DEF WriteImage, Shown
<1>. QED BY <1>1, <1>2, <1>3, <1>4, <1>5 DEF Images

LEMMA StoredBefore ==
    ASSUME NEW acc \in Acc, NEW image \in Images, NEW F, Stored(WriteImage(acc, image), F)
    PROVE  Stored(acc, F)
<1>0. acc.files \in Seq(Nat \X Images) /\ Len(acc.files) \in Nat
  BY DEF Acc
<1>1. CASE Numbered(image)
  <2>. DEFINE file == <<Len(acc.files) + 1, image>>
              files == Append(acc.files, file)
  <2>1. WriteImage(acc, image).files = files
    BY <1>1, AddImageIs
  <2>2. file \in Nat \X Images
    BY <1>0
  <2>. HIDE DEF file
  <2>3. \A i \in DOMAIN acc.files : i \in DOMAIN files /\ files[i] = acc.files[i]
    BY <1>0, <2>2
  <2>. HIDE DEF files
  <2>. QED BY <2>1, <2>3 DEF Stored
<1>2. CASE ~Numbered(image)
  <2>1. WriteImage(acc, image).files = acc.files
    BY <1>2 DEF WriteImage, Acc, Numbered
  <2>. QED BY <2>1 DEF Stored
<1>. QED BY <1>1, <1>2

LEMMA DrawnSeen ==
    ASSUME NEW acc \in Acc, NEW pictures \in Seq(Images), NEW msgs \in Seq(Msg), NEW role \in Words,
           NEW F, Pictured(F), Stored(Drawn(acc, pictures)[Len(pictures)], F),
           EndsIn(acc.lines, F, msgs, Viewed(role, NoView))
    PROVE  /\ Stored(acc, F)
           /\ EndsIn(Drawn(acc, pictures)[Len(pictures)].lines, F, msgs,
                     Viewed(role, AllShown(pictures)[Len(pictures)]))
<1>. DEFINE n == Len(pictures)
            D == Drawn(acc, pictures)
            U == AllShown(pictures)
            back == {j \in 0..n : Stored(D[n - j], F)}
            told == {k \in 0..n : Seen(D[k].lines, F) = Append(msgs, Viewed(role, U[k]))}
<1>0. n \in Nat /\ \A k \in 1..n : pictures[k] \in Images
  OBVIOUS
<1>1. /\ D \in [0..n -> Acc] /\ D[0] = acc
      /\ \A k \in 1..n : D[k] = WriteImage(D[k - 1], pictures[k])
  BY DrawnDef
<1>2. /\ U \in [0..n -> View] /\ U[0] = NoView
      /\ \A k \in 1..n : U[k] = Shown(U[k - 1], pictures[k])
  BY AllShownDef
<1>. HIDE DEF D, U
<1>3. \A k \in 0..n : Stored(D[k], F)
  <2>1. 0 \in back
    BY <1>0, <1>1 DEF D
  <2>2. ASSUME NEW j \in 0..(n - 1), j \in back PROVE j + 1 \in back
    <3>1. n - j \in 1..n /\ (n - j) - 1 = n - (j + 1) /\ j + 1 \in 0..n /\ n - (j + 1) \in 0..n
      BY <1>0
    <3>2. D[n - j] = WriteImage(D[n - (j + 1)], pictures[n - j]) /\ D[n - (j + 1)] \in Acc
      BY <1>1, <3>1
    <3>3. Stored(D[n - j], F)
      BY <2>2
    <3>4. Stored(D[n - (j + 1)], F)
      BY <1>0, <3>1, <3>2, <3>3, StoredBefore
    <3>. QED BY <3>1, <3>4
  <2>. HIDE DEF back
  <2>3. \A j \in 0..n : j \in back
    BY <1>0, <2>1, <2>2, SetInductionTo
  <2>. SUFFICES ASSUME NEW k \in 0..n PROVE Stored(D[k], F)
    OBVIOUS
  <2>4. n - k \in 0..n /\ n - (n - k) = k
    BY <1>0
  <2>. QED BY <2>3, <2>4 DEF back
<1>4. 0 \in told
  BY <1>0, <1>1, <1>2 DEF EndsIn
<1>5. ASSUME NEW k \in 0..(n - 1), k \in told PROVE k + 1 \in told
  <2>. DEFINE a == D[k]
              view == U[k]
              image == pictures[k + 1]
  <2>1. k + 1 \in 1..n /\ (k + 1) - 1 = k /\ k \in 0..n /\ k + 1 \in 0..n
    BY <1>0
  <2>2. /\ D[k + 1] = WriteImage(a, image) /\ a \in Acc
        /\ U[k + 1] = Shown(view, image) /\ view \in View
        /\ Stored(D[k + 1], F) /\ image \in Images
    BY <1>0, <1>1, <1>2, <1>3, <2>1
  <2>3. EndsIn(a.lines, F, msgs, Viewed(role, view))
    BY <1>5 DEF EndsIn
  <2>. HIDE DEF a, view, image
  <2>4. EndsIn(WriteImage(a, image).lines, F, msgs, Viewed(role, Shown(view, image)))
    BY <2>2, <2>3, WriteImageSeen
  <2>. QED BY <2>1, <2>2, <2>4 DEF EndsIn
<1>. HIDE DEF told
<1>6. \A k \in 0..n : k \in told
  BY <1>0, <1>4, <1>5, SetInductionTo
<1>. HIDE DEF n
<1>7. Seen(D[n].lines, F) = Append(msgs, Viewed(role, U[n]))
  BY <1>0, <1>6 DEF told
<1>8. Stored(acc, F)
  BY <1>0, <1>1, <1>3
<1>. QED BY <1>7, <1>8 DEF n, D, U, EndsIn

LEMMA ConcatAppend ==
    ASSUME NEW S, NEW s \in Seq(S), NEW u \in Seq(S), NEW e \in S
    PROVE  s \o Append(u, e) = Append(s \o u, e)
<1>1. <<e>> \in Seq(S) /\ s \o u \in Seq(S)
  OBVIOUS
<1>2. Append(u, e) = u \o <<e>> /\ Append(s \o u, e) = (s \o u) \o <<e>>
  BY <1>1, AppendIsConcat
<1>3. (s \o u) \o <<e>> = s \o (u \o <<e>>)
  BY <1>1, ConcatAssociative
<1>. QED BY <1>2, <1>3

(* What is seen of a message once its text has been read. *)
WithText(view, text) == [view EXCEPT !.text = @ \o text]

LEMMA WithTextType ==
    ASSUME NEW view \in View, NEW text \in Seq(Lines)
    PROVE  /\ WithText(view, text) \in View
           /\ WithText(view, text) = [text |-> view.text \o text, images |-> view.images]
<1>. DEFINE whole == view.text \o text
<1>1. whole \in Seq(Lines)
  BY DEF View
<1>2. WithText(view, text) = [view EXCEPT !.text = whole]
  BY DEF WithText
<1>. HIDE DEF whole
<1>3. WithText(view, text) = [text |-> whole, images |-> view.images]
  BY <1>2 DEF View
<1>. QED BY <1>1, <1>3 DEF View, whole

(* A line of a message's text that the reader leaves in the text. *)
LeftAsText(line, F) == line.kind # "marker" /\ ~Resolves(line, F)

LEMMA PrefixGrows ==
    ASSUME NEW S, NEW s \in Seq(S)
    PROVE  /\ Len(s) \in Nat /\ SubSeq(s, 1, 0) = <<>> /\ SubSeq(s, 1, Len(s)) = s
           /\ \A j \in 0..Len(s) : SubSeq(s, 1, j) \in Seq(S)
           /\ \A j \in 0..(Len(s) - 1) : /\ s[j + 1] \in S
                                        /\ SubSeq(s, 1, j + 1) = Append(SubSeq(s, 1, j), s[j + 1])
<1>1. ASSUME NEW j \in 0..(Len(s) - 1)
      PROVE  s[j + 1] \in S /\ SubSeq(s, 1, j + 1) = Append(SubSeq(s, 1, j), s[j + 1])
  OBVIOUS
<1>2. Len(s) \in Nat /\ SubSeq(s, 1, 0) = <<>> /\ SubSeq(s, 1, Len(s)) = s
  OBVIOUS
<1>3. ASSUME NEW j \in 0..Len(s) PROVE SubSeq(s, 1, j) \in Seq(S)
  OBVIOUS
<1>. QED BY <1>1, <1>2, <1>3

(* A text that the reader leaves as it is. *)
PlainText(text, F) == \A j \in 1..Len(text) : LeftAsText(text[j], F)

LEMMA TextSeen ==
    ASSUME NEW lines \in Seq(Lines), NEW text \in Seq(Lines), NEW msgs \in Seq(Msg), NEW role \in Words,
           NEW view \in View, NEW F, Pictured(F), PlainText(text, F),
           EndsIn(lines, F, msgs, Viewed(role, view))
    PROVE  EndsIn(lines \o text, F, msgs, Viewed(role, WithText(view, text)))
<1>. DEFINE n == Len(text)
            part(j) == SubSeq(text, 1, j)
            S == {j \in 0..n : EndsIn(lines \o part(j), F, msgs, Viewed(role, WithText(view, part(j))))}
<1>0. n \in Nat /\ part(0) = <<>> /\ part(n) = text /\ \A j \in 0..n : part(j) \in Seq(Lines)
  BY PrefixGrows
<1>1. ASSUME NEW j \in 0..(n - 1) PROVE part(j + 1) = Append(part(j), text[j + 1]) /\ text[j + 1] \in Lines
  BY PrefixGrows
<1>2. lines \o part(0) = lines /\ WithText(view, part(0)) = view
  <2>1. lines \o <<>> = lines
    BY ConcatEmptySeq
  <2>2. WithText(view, <<>>) = view
    BY ConcatEmptySeq DEF WithText, View
  <2>. QED BY <1>0, <2>1, <2>2
<1>. HIDE DEF part
<1>3. 0 \in S
  <2>1. EndsIn(lines \o part(0), F, msgs, Viewed(role, WithText(view, part(0))))
    BY <1>2
  <2>. QED BY <1>0, <2>1
<1>4. ASSUME NEW j \in 0..(n - 1), j \in S PROVE j + 1 \in S
  <2>. DEFINE seen == WithText(view, part(j))
              line == text[j + 1]
              before == lines \o part(j)
              after == Append(seen.text, line)
  <2>1. j \in 0..n /\ j + 1 \in 0..n /\ j + 1 \in 1..n /\ part(j) \in Seq(Lines)
    BY <1>0
  <2>2. /\ seen \in View /\ seen = [text |-> view.text \o part(j), images |-> view.images]
        /\ view.text \in Seq(Lines)
    BY <2>1, WithTextType DEF View
  <2>3. before \in Seq(Lines) /\ line \in Lines /\ LeftAsText(line, F)
    BY <1>1, <2>1 DEF PlainText
  <2>4. lines \o part(j + 1) = Append(before, line) /\ view.text \o part(j + 1) = Append(view.text \o part(j), line)
    <3>1. line \in Lines /\ part(j + 1) = Append(part(j), line)
      BY <1>1
    <3>2. lines \in Seq(Lines) /\ part(j) \in Seq(Lines) /\ view.text \in Seq(Lines)
      BY <2>1, <2>2
    <3>. DEFINE p == part(j)
                t == view.text
    <3>. HIDE DEF line, p, t
    <3>3. /\ line \in Lines /\ lines \in Seq(Lines) /\ p \in Seq(Lines) /\ t \in Seq(Lines)
          /\ part(j + 1) = Append(p, line)
      BY <3>1, <3>2 DEF p, t
    <3>4. lines \o Append(p, line) = Append(lines \o p, line)
      BY <3>3, ConcatAppend
    <3>5. t \o Append(p, line) = Append(t \o p, line)
      BY <3>3, ConcatAppend
    <3>. QED BY <3>3, <3>4, <3>5 DEF p, t
  <2>5. EndsIn(before, F, msgs, Viewed(role, seen))
    BY <1>4
  <2>6. WithText(view, part(j + 1)) = [seen EXCEPT !.text = after]
    <3>1. WithText(view, part(j + 1)) = [text |-> view.text \o part(j + 1), images |-> view.images]
      BY <1>0, <2>1, WithTextType
    <3>. DEFINE now == view.text \o part(j)
                then == view.text \o part(j + 1)
    <3>2. seen = [text |-> now, images |-> view.images] /\ Append(now, line) = then
      BY <2>2, <2>4
    <3>. HIDE DEF seen, line, now, then
    <3>3. seen.text = now
      BY <3>2
    <3>4. [seen EXCEPT !.text = then] = [text |-> then, images |-> view.images]
      BY <3>2
    <3>. QED BY <3>1, <3>2, <3>3, <3>4 DEF then
  <2>. HIDE DEF seen, line, before
  <2>7. Viewed(role, seen) \in Msg
    BY <2>2, ViewedType
  <2>8. EndsIn(Append(before, line), F, msgs, AddLine(Viewed(role, seen), line, F))
    BY <2>3, <2>5, <2>7, EndsInAppend DEF LeftAsText
  <2>9. AddLine(Viewed(role, seen), line, F) = Viewed(role, [seen EXCEPT !.text = after])
    BY <2>2, <2>3 DEF AddLine, LeftAsText, Viewed
  <2>. QED BY <2>1, <2>4, <2>6, <2>8, <2>9
<1>. HIDE DEF S
<1>5. \A j \in 0..n : j \in S
  BY <1>0, <1>3, <1>4, SetInductionTo
<1>. HIDE DEF n
<1>. QED BY <1>0, <1>5 DEF S

(* What is seen of a message's images, and the message as it is read. *)
ImagesShown(msg) == AllShown(msg.images)[Len(msg.images)]

AsRead(msg) == Viewed(msg.role, WithText(ImagesShown(msg), msg.text))

LEMMA AsReadType ==
    ASSUME NEW msg \in ChatMessage
    PROVE  /\ ImagesShown(msg) \in View /\ AsRead(msg) \in Msg
           /\ Kept(msg) = [role |-> AsRead(msg).role, text |-> AsRead(msg).text, images |-> AsRead(msg).images]
<1>. DEFINE shown == ImagesShown(msg)
<1>1. /\ msg.images \in Seq(Images) /\ Len(msg.images) \in 0..Len(msg.images)
      /\ msg.text \in Seq(Lines) /\ msg.role \in Words
  <2>1. msg.images \in Seq(Images) /\ msg.text \in Seq(Lines) /\ msg.role \in {"user", "assistant"}
    BY DEF ChatMessage
  <2>2. Len(msg.images) \in 0..Len(msg.images)
    BY <2>1
  <2>. QED BY <2>1, <2>2, ChatsAssumption
<1>2. AllShown(msg.images) \in [0..Len(msg.images) -> View]
  BY <1>1, AllShownDef
<1>3. shown \in View
  BY <1>1, <1>2 DEF ImagesShown
<1>4. Kept(msg) = [role |-> msg.role, text |-> shown.text \o msg.text, images |-> shown.images]
  BY DEF Kept, ImagesShown
<1>. HIDE DEF shown
<1>5. AsRead(msg) = Viewed(msg.role, WithText(shown, msg.text))
  BY DEF AsRead, shown
<1>6. WithText(shown, msg.text) \in View
  BY <1>1, <1>3, WithTextType
<1>7. AsRead(msg) \in Msg
  BY <1>1, <1>5, <1>6, ViewedType
<1>8. WithText(shown, msg.text) = [text |-> shown.text \o msg.text, images |-> shown.images]
  BY <1>1, <1>3, WithTextType
<1>9. Kept(msg) = [role |-> AsRead(msg).role, text |-> AsRead(msg).text, images |-> AsRead(msg).images]
  BY <1>4, <1>5, <1>8 DEF Viewed
<1>. QED BY <1>3, <1>7, <1>9 DEF shown

LEMMA WriteMessageSeen ==
    ASSUME NEW acc \in Acc, NEW msg \in ChatMessage, NEW F, Pictured(F),
           Stored(WriteMessage(acc, msg), F), \A j \in 1..Len(msg.text) : LeftAsText(msg.text[j], F)
    PROVE  /\ Stored(acc, F)
           /\ Seen(WriteMessage(acc, msg).lines, F) = Append(Seen(acc.lines, F), AsRead(msg))
<1>. DEFINE marker == Line("marker", 0, msg.role)
            head == Line("head", 0, "")
            msgs == Seen(acc.lines, F)
            opened == Opened(msg.role)
            m0 == Viewed(msg.role, NoView)
            n == Len(msg.images)
            shown == ImagesShown(msg)
<1>0. /\ acc.lines \in Seq(Lines) /\ msg.role \in Words /\ msg.text \in Seq(Lines)
      /\ msg.images \in Seq(Images) /\ n \in 0..n
  <2>1. acc.lines \in Seq(Lines)
    BY DEF Acc
  <2>2. msg.text \in Seq(Lines) /\ msg.images \in Seq(Images) /\ msg.role \in {"user", "assistant"}
    BY DEF ChatMessage
  <2>3. n \in 0..n
    BY <2>2
  <2>. QED BY <2>1, <2>2, <2>3, ChatsAssumption
<1>1. /\ marker \in Lines /\ marker.kind = "marker" /\ marker.s = msg.role
      /\ head \in Lines /\ head.kind = "head"
  BY <1>0, ChatsAssumption DEF Line, Lines, Kinds
<1>2. PICK begun \in Acc :
         /\ begun.lines = Append(Append(acc.lines, marker), head)
         /\ begun.files = acc.files
         /\ WriteMessage(acc, msg) = [Drawn(begun, msg.images)[n] EXCEPT !.lines = @ \o msg.text]
  BY WriteMessageType
<1>3. opened \in Msg /\ m0 \in Msg
  BY <1>0, NoViewType, ViewedType DEF Opened, Msg
<1>4. AddLine(opened, head, F) = m0
  BY <1>1 DEF AddLine, Opened, Viewed, NoView
<1>5. msgs \in Seq(Msg)
  BY <1>0, <1>1, SeenAppend
<1>. HIDE DEF marker, head, msgs
<1>6. Seen(begun.lines, F) = Append(msgs, m0)
  <2>1. Append(acc.lines, marker) \in Seq(Lines)
    BY <1>0, <1>1
  <2>2. Seen(Append(acc.lines, marker), F) = Append(msgs, opened)
    BY <1>0, <1>1, SeenAppend DEF msgs, ReadLine
  <2>3. Seen(begun.lines, F) = ReadLine(Append(msgs, opened), head, F)
    BY <1>1, <1>2, <2>1, <2>2, SeenAppend
  <2>. HIDE DEF opened, m0
  <2>4. ReadLine(Append(msgs, opened), head, F) = Append(msgs, AddLine(opened, head, F))
    BY <1>1, <1>3, <1>5, ReadLineLast
  <2>. QED BY <1>4, <2>3, <2>4
<1>. DEFINE drawn == Drawn(begun, msg.images)[n]
<1>7. drawn \in Acc
  BY <1>0, DrawnDef
<1>8. /\ WriteMessage(acc, msg).lines = drawn.lines \o msg.text
      /\ WriteMessage(acc, msg).files = drawn.files
  <2>. HIDE DEF drawn
  <2>. QED BY <1>2, <1>7 DEF Acc, drawn
<1>9. Stored(drawn, F)
  BY <1>8 DEF Stored
<1>10. shown \in View
  BY AsReadType
<1>. HIDE DEF m0
<1>11. Stored(begun, F) /\ EndsIn(drawn.lines, F, msgs, Viewed(msg.role, shown))
  <2>. DEFINE pictures == msg.images
              role == msg.role
  <2>1. /\ Stored(Drawn(begun, pictures)[Len(pictures)], F) /\ pictures \in Seq(Images) /\ role \in Words
        /\ EndsIn(begun.lines, F, msgs, Viewed(role, NoView))
    BY <1>0, <1>6, <1>9 DEF m0, EndsIn
  <2>2. shown = AllShown(pictures)[Len(pictures)]
    BY DEF ImagesShown
  <2>. HIDE DEF pictures, role, shown
  <2>3. /\ Stored(begun, F)
        /\ EndsIn(Drawn(begun, pictures)[Len(pictures)].lines, F, msgs,
                  Viewed(role, AllShown(pictures)[Len(pictures)]))
    BY <1>5, <2>1, DrawnSeen
  <2>. QED BY <2>2, <2>3 DEF pictures, role
<1>. HIDE DEF shown, drawn
<1>12. drawn.lines \in Seq(Lines)
  BY <1>7 DEF Acc
<1>13. EndsIn(drawn.lines \o msg.text, F, msgs, Viewed(msg.role, WithText(shown, msg.text)))
  <2>. DEFINE text == msg.text
              role == msg.role
              before == drawn.lines
  <2>1. /\ text \in Seq(Lines) /\ before \in Seq(Lines) /\ role \in Words
        /\ PlainText(text, F) /\ EndsIn(before, F, msgs, Viewed(role, shown))
    BY <1>0, <1>11, <1>12 DEF PlainText
  <2>. HIDE DEF text, before, role
  <2>2. EndsIn(before \o text, F, msgs, Viewed(role, WithText(shown, text)))
    BY <1>5, <1>10, <2>1, TextSeen
  <2>. QED BY <2>2 DEF text, before, role
<1>14. Stored(acc, F)
  BY <1>2, <1>11 DEF Stored
<1>. QED BY <1>8, <1>13, <1>14 DEF msgs, EndsIn, AsRead, shown

(* Texts that do not look like the format: chat_history.go:72. *)
Unambiguous(chat, F) == \A i \in 1..Len(chat) : \A j \in 1..Len(chat[i].text) : LeftAsText(chat[i].text[j], F)

LEMMA MessagesSeen ==
    ASSUME NEW chat \in Seq(ChatMessage), NEW F, Pictured(F),
           Stored(Written(chat), F), Unambiguous(chat, F)
    PROVE  Seen(Written(chat).lines, F) = [i \in 1..Len(chat) |-> AsRead(chat[i])]
<1>. DEFINE n == Len(chat)
            D == Messages(chat)
            told(k) == [i \in 1..k |-> AsRead(chat[i])]
            back == {j \in 0..n : Stored(D[n - j], F)}
            S == {k \in 0..n : Seen(D[k].lines, F) = told(k)}
<1>0. n \in Nat /\ \A i \in 1..n : chat[i] \in ChatMessage
  OBVIOUS
<1>1. /\ D \in [0..n -> Acc] /\ D[0] = Empty
      /\ \A k \in 1..n : D[k] = WriteMessage(D[k - 1], chat[k])
  BY MessagesDef
<1>2. Stored(D[n], F) /\ \A i \in 1..n : \A j \in 1..Len(chat[i].text) : LeftAsText(chat[i].text[j], F)
  BY DEF Written, Unambiguous
<1>. HIDE DEF D
<1>3. \A k \in 0..n : Stored(D[k], F)
  <2>1. 0 \in back
    BY <1>0, <1>2
  <2>2. ASSUME NEW j \in 0..(n - 1), j \in back PROVE j + 1 \in back
    <3>1. n - j \in 1..n /\ (n - j) - 1 = n - (j + 1) /\ j + 1 \in 0..n /\ n - (j + 1) \in 0..n
      BY <1>0
    <3>. DEFINE acc == D[n - (j + 1)]
                msg == chat[n - j]
    <3>2. /\ acc \in Acc /\ msg \in ChatMessage /\ D[n - j] = WriteMessage(acc, msg)
          /\ Stored(D[n - j], F) /\ \A i \in 1..Len(msg.text) : LeftAsText(msg.text[i], F)
      BY <1>0, <1>1, <1>2, <2>2, <3>1
    <3>. HIDE DEF acc, msg
    <3>3. Stored(acc, F)
      BY <3>2, WriteMessageSeen
    <3>. QED BY <3>1, <3>3 DEF acc
  <2>. HIDE DEF back
  <2>3. \A j \in 0..n : j \in back
    BY <1>0, <2>1, <2>2, SetInductionTo
  <2>. SUFFICES ASSUME NEW k \in 0..n PROVE Stored(D[k], F)
    OBVIOUS
  <2>4. n - k \in 0..n /\ n - (n - k) = k
    BY <1>0
  <2>. QED BY <2>3, <2>4 DEF back
<1>4. 0 \in S
  <2>1. told(0) = <<>> /\ D[0].lines = <<>>
    BY <1>1 DEF Empty
  <2>. HIDE DEF told
  <2>. QED BY <1>0, <2>1, SeenEmpty
<1>5. ASSUME NEW k \in 0..(n - 1), k \in S PROVE k + 1 \in S
  <2>. DEFINE acc == D[k]
              msg == chat[k + 1]
  <2>1. k + 1 \in 1..n /\ (k + 1) - 1 = k /\ k \in 0..n /\ k + 1 \in 0..n
    BY <1>0
  <2>2. /\ acc \in Acc /\ msg \in ChatMessage /\ D[k + 1] = WriteMessage(acc, msg)
        /\ Stored(D[k + 1], F) /\ \A i \in 1..Len(msg.text) : LeftAsText(msg.text[i], F)
    BY <1>0, <1>1, <1>2, <1>3, <2>1
  <2>3. Append(told(k), AsRead(msg)) = told(k + 1)
    <3>1. \A i \in 1..k : AsRead(chat[i]) \in Msg
      BY <1>0, AsReadType
    <3>2. told(k) \in Seq(Msg) /\ Len(told(k)) = k /\ AsRead(msg) \in Msg
      BY <2>2, <3>1, AsReadType
    <3>. QED BY <2>1, <3>2
  <2>4. Seen(acc.lines, F) = told(k)
    BY <1>5
  <2>. HIDE DEF acc, msg, told
  <2>5. Seen(WriteMessage(acc, msg).lines, F) = Append(Seen(acc.lines, F), AsRead(msg))
    BY <2>2, WriteMessageSeen
  <2>. QED BY <2>1, <2>2, <2>3, <2>4, <2>5
<1>. HIDE DEF S
<1>6. \A k \in 0..n : k \in S
  BY <1>0, <1>4, <1>5, SetInductionTo
<1>7. Seen(D[n].lines, F) = told(n)
  BY <1>0, <1>6 DEF S
<1>. QED BY <1>7 DEF D, Written

(* The format: of a session of any length, with any images, every message  *)
(* is read back with its role, its text, its links and those pictures that *)
(* were stored in a format the reader knows; one of another format is a    *)
(* line before the text, and one that was not stored is left out without   *)
(* shifting the others' numbers.  F holds the pictures that were stored,   *)
(* and no line of a text looks like the format's own                       *)
(* (writeChatSessionMarkdown, readChatSessionMarkdown).                    *)
THEOREM FormatReadsBack ==
    ASSUME NEW chat \in Seq(ChatMessage), NEW F, Pictured(F),
           Stored(Written(chat), F), Unambiguous(chat, F)
    PROVE  Read(Written(chat).lines, F) = [i \in DOMAIN chat |-> Kept(chat[i])]
<1>. DEFINE lines == Written(chat).lines
            told == [i \in 1..Len(chat) |-> AsRead(chat[i])]
<1>1. Seen(lines, F) = told
  BY MessagesSeen
<1>2. Read(lines, F) = [i \in 1..Len(chat) |-> [role |-> told[i].role, text |-> told[i].text,
                                                images |-> told[i].images]]
  <2>. HIDE DEF lines
  <2>. QED BY <1>1 DEF Read, Seen
<1>3. ASSUME NEW i \in 1..Len(chat)
      PROVE  [role |-> told[i].role, text |-> told[i].text, images |-> told[i].images] = Kept(chat[i])
  <2>1. chat[i] \in ChatMessage
    OBVIOUS
  <2>2. told[i] = AsRead(chat[i])
    OBVIOUS
  <2>. DEFINE msg == chat[i]
  <2>. HIDE DEF told, msg
  <2>3. [role |-> AsRead(msg).role, text |-> AsRead(msg).text, images |-> AsRead(msg).images] = Kept(msg)
    BY <2>1, AsReadType DEF msg
  <2>. QED BY <2>2, <2>3 DEF msg
<1>4. DOMAIN chat = 1..Len(chat)
  OBVIOUS
<1>. HIDE DEF lines, told
<1>. QED BY <1>2, <1>3, <1>4 DEF lines

-----------------------------------------------------------------------------
(* Images are numbered in the order they are written, over all messages,   *)
(* so that none is written over another.                                   *)

FilesNumbered(acc) == \A i \in DOMAIN acc.files : acc.files[i][1] = i

LEMMA WriteImageNumbered ==
    ASSUME NEW acc \in Acc, NEW image \in Images, FilesNumbered(acc)
    PROVE  FilesNumbered(WriteImage(acc, image))
<1>0. acc.files \in Seq(Nat \X Images) /\ Len(acc.files) \in Nat
  BY DEF Acc
<1>1. CASE Numbered(image)
  <2>. DEFINE n == Len(acc.files) + 1
              file == <<n, image>>
              files == Append(acc.files, file)
  <2>1. WriteImage(acc, image).files = files
    BY <1>1, AddImageIs
  <2>2. file[1] = n /\ file \in Nat \X Images
    BY <1>0
  <2>. HIDE DEF file
  <2>3. /\ DOMAIN files = 1..n /\ files[n] = file
        /\ \A i \in 1..n : i # n => i \in DOMAIN acc.files /\ files[i] = acc.files[i]
    BY <1>0, <2>2
  <2>. HIDE DEF n, files
  <2>. QED BY <2>1, <2>2, <2>3 DEF FilesNumbered
<1>2. CASE ~Numbered(image)
  <2>1. WriteImage(acc, image).files = acc.files
    BY <1>2 DEF WriteImage, Acc, Numbered
  <2>. QED BY <2>1 DEF FilesNumbered
<1>. QED BY <1>1, <1>2

LEMMA WriteMessageNumbered ==
    ASSUME NEW acc \in Acc, NEW msg \in ChatMessage, FilesNumbered(acc)
    PROVE  FilesNumbered(WriteMessage(acc, msg))
<1>. DEFINE pictures == msg.images
            n == Len(pictures)
<1>0. pictures \in Seq(Images) /\ n \in Nat /\ \A k \in 1..n : pictures[k] \in Images
  BY DEF ChatMessage
<1>1. PICK begun \in Acc :
         /\ begun.files = acc.files
         /\ WriteMessage(acc, msg) = [Drawn(begun, pictures)[n] EXCEPT !.lines = @ \o msg.text]
  BY WriteMessageType
<1>. DEFINE D == Drawn(begun, pictures)
            S == {k \in 0..n : FilesNumbered(D[k])}
<1>2. /\ D \in [0..n -> Acc] /\ D[0] = begun
      /\ \A k \in 1..n : D[k] = WriteImage(D[k - 1], pictures[k])
  BY <1>0, DrawnDef
<1>. HIDE DEF D, pictures
<1>3. 0 \in S
  BY <1>0, <1>1, <1>2 DEF FilesNumbered
<1>4. ASSUME NEW k \in 0..(n - 1), k \in S PROVE k + 1 \in S
  <2>1. k + 1 \in 1..n /\ (k + 1) - 1 = k /\ k \in 0..n /\ k + 1 \in 0..n
    BY <1>0
  <2>. DEFINE before == D[k]
              image == pictures[k + 1]
  <2>2. before \in Acc /\ image \in Images /\ D[k + 1] = WriteImage(before, image) /\ FilesNumbered(before)
    BY <1>0, <1>2, <1>4, <2>1
  <2>. HIDE DEF before, image
  <2>. QED BY <2>1, <2>2, WriteImageNumbered
<1>. HIDE DEF S
<1>5. \A k \in 0..n : k \in S
  BY <1>0, <1>3, <1>4, SetInductionTo
<1>6. FilesNumbered(D[n]) /\ D[n] \in Acc
  BY <1>0, <1>2, <1>5 DEF S
<1>. DEFINE drawn == D[n]
<1>7. WriteMessage(acc, msg).files = drawn.files
  <2>1. WriteMessage(acc, msg) = [drawn EXCEPT !.lines = @ \o msg.text] /\ drawn \in Acc
    BY <1>1, <1>6 DEF D
  <2>. HIDE DEF drawn
  <2>. QED BY <2>1 DEF Acc
<1>. QED BY <1>6, <1>7 DEF FilesNumbered

LEMMA WrittenType ==
    ASSUME NEW chat \in Seq(ChatMessage)
    PROVE  Written(chat) \in Acc /\ FilesNumbered(Written(chat))
<1>. DEFINE n == Len(chat)
            D == Messages(chat)
            S == {k \in 0..n : FilesNumbered(D[k])}
<1>0. n \in Nat /\ \A i \in 1..n : chat[i] \in ChatMessage
  OBVIOUS
<1>1. /\ D \in [0..n -> Acc] /\ D[0] = Empty
      /\ \A k \in 1..n : D[k] = WriteMessage(D[k - 1], chat[k])
  BY MessagesDef
<1>. HIDE DEF D
<1>2. 0 \in S
  BY <1>0, <1>1 DEF FilesNumbered, Empty
<1>3. ASSUME NEW k \in 0..(n - 1), k \in S PROVE k + 1 \in S
  <2>1. k + 1 \in 1..n /\ (k + 1) - 1 = k /\ k \in 0..n /\ k + 1 \in 0..n
    BY <1>0
  <2>. DEFINE before == D[k]
              msg == chat[k + 1]
  <2>2. before \in Acc /\ msg \in ChatMessage /\ D[k + 1] = WriteMessage(before, msg) /\ FilesNumbered(before)
    BY <1>0, <1>1, <1>3, <2>1
  <2>. HIDE DEF before, msg
  <2>. QED BY <2>1, <2>2, WriteMessageNumbered
<1>. HIDE DEF S
<1>4. \A k \in 0..n : k \in S
  BY <1>0, <1>2, <1>3, SetInductionTo
<1>5. D[n] \in Acc /\ FilesNumbered(D[n])
  BY <1>0, <1>1, <1>4 DEF S
<1>. QED BY <1>5 DEF D, Written

-----------------------------------------------------------------------------
(* Types *)

Sessions == Chats \cup {<<>>}

LEMMA SessionsType == ASSUME NEW chat \in Sessions PROVE chat \in Seq(ChatMessage)
<1>1. <<>> \in Seq(ChatMessage)
  OBVIOUS
<1>. QED BY <1>1, ChatsAssumption DEF Sessions

Stages == {"none", "images", "file", "truncated", "remove", "sweep"}

ChatTypes ==
    /\ md \in [there : BOOLEAN, lines : Seq(Lines)]
    /\ Pictured(images)
    /\ client \in [Clients -> [at : Stages, chat : Sessions, left : Seq(Nat \X Images)]]
    /\ ops \in 0..MaxOps
    /\ last \in [deleted : BOOLEAN, clean : BOOLEAN, chat : Sessions]

LEMMA TypesKept == ChatTypes /\ [ChatNext]_chatVars => ChatTypes'
<1>. DEFINE Request == [at : Stages, chat : Sessions, left : Seq(Nat \X Images)]
<1>. SUFFICES ASSUME ChatTypes, [ChatNext]_chatVars PROVE ChatTypes'
  OBVIOUS
<1>0. MaxOps \in Nat /\ NoRequest \in Request /\ \A c \in Clients : client[c] \in Request
  BY OpsAssumption DEF ChatTypes, NoRequest, Stages, Sessions
<1>1. ASSUME NEW c \in Clients, NEW at \in Stages, NEW chat \in Sessions, NEW left \in Seq(Nat \X Images),
             BeginRequest(c, at, chat, left)
      PROVE  ChatTypes'
  <2>. DEFINE request == [at |-> at, chat |-> chat, left |-> left]
  <2>1. request \in Request
    OBVIOUS
  <2>2. client' = [client EXCEPT ![c] = request]
    BY <1>1 DEF BeginRequest
  <2>. HIDE DEF request
  <2>3. client' \in [Clients -> Request]
    BY <2>1, <2>2 DEF ChatTypes
  <2>4. ops' \in 0..MaxOps
    BY <1>0, <1>1 DEF BeginRequest, ChatTypes
  <2>5. last' \in [deleted : BOOLEAN, clean : BOOLEAN, chat : Sessions]
    BY <1>1 DEF BeginRequest
  <2>. QED BY <1>1, <2>3, <2>4, <2>5 DEF BeginRequest, ChatTypes
<1>2. ASSUME NEW c \in Clients, NEW chat \in Chats, Save(c, chat) PROVE ChatTypes'
  <2>1. chat \in Sessions
    BY DEF Sessions
  <2>2. Written(chat) \in Acc
    BY <2>1, SessionsType, WrittenType
  <2>3. Written(chat).files \in Seq(Nat \X Images)
    BY <2>2 DEF Acc
  <2>. QED BY <1>1, <1>2, <2>1, <2>3 DEF Save, Stages
<1>3. ASSUME NEW c \in Clients, Delete(c) PROVE ChatTypes'
  <2>1. "remove" \in Stages /\ <<>> \in Sessions /\ <<>> \in Seq(Nat \X Images)
    BY DEF Stages, Sessions
  <2>2. BeginRequest(c, "remove", <<>>, <<>>)
    BY <1>3 DEF Delete
  <2>. QED BY <1>1, <2>1, <2>2
<1>4. ASSUME NEW c \in Clients, StoreImage(c) PROVE ChatTypes'
  <2>1. CASE client[c].left = <<>>
    <3>0. client' = [client EXCEPT ![c].at = "file"] /\ images' = images
      BY <1>4, <2>1 DEF StoreImage
    <3>1. client' \in [Clients -> Request]
      BY <1>0, <3>0 DEF ChatTypes, Stages
    <3>. QED BY <1>4, <3>0, <3>1 DEF StoreImage, ChatTypes
  <2>2. CASE client[c].left # <<>>
    <3>. DEFINE left == client[c].left
                file == Head(left)
                image == file[2]
    <3>1. left \in Seq(Nat \X Images) /\ left # <<>>
      BY <1>0, <2>2
    <3>. HIDE DEF left
    <3>2. Tail(left) \in Seq(Nat \X Images) /\ file \in Nat \X Images
      BY <3>1
    <3>3. client' = [client EXCEPT ![c].left = Tail(left)]
      BY <1>4, <2>2 DEF StoreImage, left
    <3>4. client' \in [Clients -> Request]
      BY <1>0, <3>2, <3>3 DEF ChatTypes
    <3>5. StoreFile(file[1], image)
      BY <1>4, <2>2 DEF StoreImage, left
    <3>6. image.of \in Words /\ "" \in Words /\ Pictured(images)
      BY <3>2, ChatsAssumption DEF Images, ChatTypes
    <3>. HIDE DEF file, image
    <3>7. \A word \in Words : Pictured(Holding(file[1], word))
      BY <3>6 DEF Pictured, Holding
    <3>8. Pictured(images')
      BY <3>5, <3>6, <3>7 DEF StoreFile
    <3>. QED BY <1>4, <3>4, <3>8 DEF StoreImage, ChatTypes
  <2>. QED BY <2>1, <2>2
<1>5. ASSUME NEW c \in Clients, TruncateFile(c) PROVE ChatTypes'
  <2>1. client' \in [Clients -> Request]
    BY <1>0, <1>5 DEF TruncateFile, ChatTypes, Stages
  <2>. QED BY <1>5, <2>1 DEF TruncateFile, ChatTypes
<1>6. ASSUME NEW c \in Clients, WriteFile(c) PROVE ChatTypes'
  <2>1. client' \in [Clients -> Request]
    BY <1>0, <1>6 DEF WriteFile, ChatTypes
  <2>. DEFINE acc == Written(client[c].chat)
  <2>2. acc \in Acc
    BY <1>0, SessionsType, WrittenType
  <2>3. acc.lines \in Seq(Lines)
    <3>. HIDE DEF acc
    <3>. QED BY <2>2 DEF Acc
  <2>4. md' = IF md.there THEN [md EXCEPT !.lines = acc.lines] ELSE md
    BY <1>6 DEF WriteFile
  <2>. HIDE DEF acc
  <2>5. md' \in [there : BOOLEAN, lines : Seq(Lines)]
    BY <2>3, <2>4 DEF ChatTypes
  <2>. QED BY <1>6, <2>1, <2>5 DEF WriteFile, ChatTypes
<1>7. ASSUME NEW c \in Clients, RemoveFile(c) PROVE ChatTypes'
  <2>1. client' \in [Clients -> Request]
    BY <1>0, <1>7 DEF RemoveFile, ChatTypes, Stages
  <2>. QED BY <1>7, <2>1 DEF RemoveFile, ChatTypes, NoFile
<1>8. ASSUME NEW c \in Clients, RemoveImages(c) PROVE ChatTypes'
  <2>1. client' \in [Clients -> Request]
    BY <1>0, <1>8 DEF RemoveImages, ChatTypes
  <2>. QED BY <1>8, <2>1 DEF RemoveImages, ChatTypes, Pictured
<1>9. CASE Cut
  <2>1. client' \in [Clients -> Request]
    BY <1>0, <1>9 DEF Cut
  <2>2. last' \in [deleted : BOOLEAN, clean : BOOLEAN, chat : Sessions]
    BY <1>9 DEF Cut, ChatTypes
  <2>. QED BY <1>9, <2>1, <2>2 DEF Cut, ChatTypes
<1>10. CASE UNCHANGED chatVars
  BY <1>10 DEF chatVars, ChatTypes
<1>11. ASSUME NEW c \in Clients, FileFails(c) \/ RemoveFails(c) \/ SweepFails(c) PROVE ChatTypes'
  <2>1. client' = [client EXCEPT ![c] = NoRequest] /\ last' = [last EXCEPT !.clean = FALSE] /\ ops' = ops
    BY <1>11 DEF FileFails, RemoveFails, SweepFails
  <2>2. client' \in [Clients -> Request] /\ last' \in [deleted : BOOLEAN, clean : BOOLEAN, chat : Sessions]
    BY <1>0, <2>1 DEF ChatTypes
  <2>3. images' = images
    BY <1>11 DEF FileFails, RemoveFails, SweepFails
  <2>. DEFINE acc == Written(client[c].chat)
              lines == acc.lines
  <2>4. acc \in Acc
    BY <1>0, SessionsType, WrittenType
  <2>5. lines \in Seq(Lines)
    <3>. HIDE DEF acc
    <3>. QED BY <2>4 DEF Acc
  <2>6. md' = md \/ \E k \in 0..Len(lines) : md' = [md EXCEPT !.lines = SubSeq(lines, 1, k)]
    BY <1>11 DEF FileFails, RemoveFails, SweepFails
  <2>. HIDE DEF lines
  <2>8. \A k \in 0..Len(lines) : SubSeq(lines, 1, k) \in Seq(Lines)
    BY <2>5, PrefixGrows
  <2>7. md' \in [there : BOOLEAN, lines : Seq(Lines)]
    <3>1. md \in [there : BOOLEAN, lines : Seq(Lines)]
      BY DEF ChatTypes
    <3>2. ASSUME NEW k \in 0..Len(lines), md' = [md EXCEPT !.lines = SubSeq(lines, 1, k)]
          PROVE  md' \in [there : BOOLEAN, lines : Seq(Lines)]
      <4>. DEFINE part == SubSeq(lines, 1, k)
      <4>1. part \in Seq(Lines) /\ md' = [md EXCEPT !.lines = part]
        BY <2>8, <3>2
      <4>. HIDE DEF part
      <4>. QED BY <3>1, <4>1
    <3>. QED BY <2>6, <3>1, <3>2
  <2>. QED BY <2>1, <2>2, <2>3, <2>7 DEF ChatTypes
<1>. QED BY <1>2, <1>3, <1>4, <1>5, <1>6, <1>7, <1>8, <1>9, <1>10, <1>11 DEF ChatNext

LEMMA TypesInitially == ChatInit => ChatTypes
BY OpsAssumption DEF ChatInit, ChatTypes, NoFile, NoRequest, Pictured, Stages, Sessions

-----------------------------------------------------------------------------
(* A request that is alone leaves what it was asked for: the inductive     *)
(* invariant says how far it has come, whatever it found.                  *)

(* The images of a chat are stored, but for those left. *)
PartlyStored(chat, left) ==
    \E k \in 0..Len(Written(chat).files) :
        /\ left = SubSeq(Written(chat).files, k + 1, Len(Written(chat).files))
        /\ \A i \in 1..k : Filed(images, i, Written(chat).files[i][2])

SavingAlone(request) ==
    /\ ~last.deleted
    /\ \/ request.at = "images" /\ PartlyStored(last.chat, request.left)
       \/ request.at = "file" /\ Stored(Written(last.chat), images)
       \/ request.at = "truncated" /\ md.there /\ Stored(Written(last.chat), images)

DeletingAlone(request) ==
    /\ last.deleted
    /\ \/ request.at = "remove"
       \/ request.at = "sweep" /\ ~md.there

SessionSettled ==
    IF last.deleted THEN ~md.there /\ images = <<>>
    ELSE md.lines = Written(last.chat).lines /\ Stored(Written(last.chat), images)

ChatInv ==
    last.clean =>
        \/ Busy = {} /\ SessionSettled
        \/ \E c \in Clients : /\ Busy = {c} /\ client[c].chat = last.chat
                              /\ SavingAlone(client[c]) \/ DeletingAlone(client[c])

(* What holds of a clean state in which c has a request. *)
Alone(c) == /\ Busy = {c} /\ client[c].chat = last.chat
            /\ SavingAlone(client[c]) \/ DeletingAlone(client[c])

LEMMA BusyAlone ==
    ASSUME ChatInv, last.clean, NEW c \in Clients, client[c].at # "none"
    PROVE  Alone(c)
<1>1. c \in Busy
  BY DEF Busy
<1>. QED BY <1>1 DEF ChatInv, Alone

(* The requests after c's has moved on, or is over. *)
LEMMA BusyAfter ==
    ASSUME ChatTypes, NEW c \in Clients, NEW request, client' = [client EXCEPT ![c] = request]
    PROVE  /\ client'[c] = request
           /\ Busy = {c} => Busy' = IF request.at = "none" THEN {} ELSE {c}
           /\ Busy = {} /\ request.at # "none" => Busy' = {c}
<1>1. \A d \in Clients : client'[d] = IF d = c THEN request ELSE client[d]
  BY DEF ChatTypes
<1>. QED BY <1>1 DEF Busy

(* ... and with the last request over, none. *)
LEMMA BusyEnds ==
    ASSUME ChatTypes, NEW c \in Clients, Busy = {c}, client' = [client EXCEPT ![c] = NoRequest]
    PROVE  Busy' = {}
<1>1. NoRequest.at = "none"
  BY DEF NoRequest
<1>2. Busy' = IF NoRequest.at = "none" THEN {} ELSE {c}
  BY BusyAfter
<1>. QED BY <1>1, <1>2

LEMMA FilesType ==
    ASSUME NEW chat \in Sessions
    PROVE  /\ Written(chat).files \in Seq(Nat \X Images)
           /\ \A i \in 1..Len(Written(chat).files) : Written(chat).files[i][1] = i
<1>. DEFINE acc == Written(chat)
<1>1. acc \in Acc /\ FilesNumbered(acc)
  BY SessionsType, WrittenType
<1>. HIDE DEF acc
<1>2. acc.files \in Seq(Nat \X Images) /\ DOMAIN acc.files = 1..Len(acc.files)
  BY <1>1 DEF Acc
<1>. QED BY <1>1, <1>2 DEF FilesNumbered, acc

LEMMA StoreFileFiles ==
    ASSUME NEW n, NEW image, StoreFile(n, image)
    PROVE  /\ Filed(images', n, image)
           /\ \A k, other : k # n /\ Filed(images, k, other) => Filed(images', k, other)
<1>1. CASE image.as = "picture"
  BY <1>1 DEF StoreFile, Holding, Filed
<1>2. CASE image.as = "lost"
  <2>1. images' = images \/ images' = Holding(n, "")
    BY <1>2 DEF StoreFile
  <2>2. CASE images' = images
    BY <1>2, <2>2 DEF Filed
  <2>3. CASE images' = Holding(n, "")
    BY <1>2, <2>3 DEF Filed, Holding
  <2>. QED BY <2>1, <2>2, <2>3
<1>3. CASE image.as \notin {"picture", "lost"}
  BY <1>3 DEF StoreFile, Filed
<1>. QED BY <1>1, <1>2, <1>3

LEMMA InvKept == ChatTypes /\ ChatInv /\ [ChatNext]_chatVars => ChatInv'
<1>. SUFFICES ASSUME ChatTypes, ChatInv, [ChatNext]_chatVars PROVE ChatInv'
  OBVIOUS
<1>1. ASSUME NEW c \in Clients, NEW chat \in Chats, Save(c, chat) PROVE ChatInv'
  <2>. DEFINE files == Written(chat).files
              request == [at |-> "images", chat |-> chat, left |-> files]
  <2>1. /\ client' = [client EXCEPT ![c] = request]
        /\ last' = [deleted |-> FALSE, clean |-> Busy = {}, chat |-> chat]
    BY <1>1 DEF Save, BeginRequest
  <2>2. CASE Busy # {}
    BY <2>1, <2>2 DEF ChatInv
  <2>3. CASE Busy = {}
    <3>0. request.at = "images" /\ request.chat = chat /\ request.left = files
      OBVIOUS
    <3>1. files \in Seq(Nat \X Images)
      BY FilesType DEF Sessions
    <3>. HIDE DEF request
    <3>2. client'[c] = request /\ Busy' = {c}
      BY <2>1, <2>3, <3>0, BusyAfter
    <3>3. PartlyStored(last.chat, request.left)'
      <4>1. last'.chat = chat
        BY <2>1
      <4>2. 0 \in 0..Len(files) /\ files = SubSeq(files, 0 + 1, Len(files))
        BY <3>1
      <4>. HIDE DEF files
      <4>3. \A i \in 1..0 : Filed(images', i, files[i][2])
        OBVIOUS
      <4>. QED BY <3>0, <4>1, <4>2, <4>3 DEF PartlyStored, files
    <3>4. SavingAlone(request)'
      BY <2>1, <3>0, <3>3 DEF SavingAlone
    <3>. QED BY <2>1, <3>0, <3>2, <3>4 DEF ChatInv
  <2>. QED BY <2>2, <2>3
<1>2. ASSUME NEW c \in Clients, Delete(c) PROVE ChatInv'
  <2>. DEFINE request == [at |-> "remove", chat |-> <<>>, left |-> <<>>]
  <2>1. /\ client' = [client EXCEPT ![c] = request]
        /\ last' = [deleted |-> TRUE, clean |-> Busy = {}, chat |-> <<>>]
    BY <1>2 DEF Delete, BeginRequest
  <2>2. CASE Busy # {}
    BY <2>1, <2>2 DEF ChatInv
  <2>3. CASE Busy = {}
    <3>0. request.at = "remove" /\ request.chat = <<>>
      OBVIOUS
    <3>. HIDE DEF request
    <3>1. client'[c] = request /\ Busy' = {c}
      BY <2>1, <2>3, <3>0, BusyAfter
    <3>2. DeletingAlone(request)'
      BY <2>1, <3>0 DEF DeletingAlone
    <3>. QED BY <2>1, <3>0, <3>1, <3>2 DEF ChatInv
  <2>. QED BY <2>2, <2>3
<1>3. ASSUME NEW c \in Clients, StoreImage(c), last.clean PROVE ChatInv'
  <2>. DEFINE chat == last.chat
              files == Written(chat).files
              left == client[c].left
  <2>1. /\ Busy = {c} /\ client[c].chat = chat /\ ~last.deleted /\ client[c].at = "images"
        /\ PartlyStored(chat, left) /\ last' = last /\ md' = md
    BY <1>3, BusyAlone DEF StoreImage, Alone, SavingAlone, DeletingAlone
  <2>2. chat \in Sessions /\ client[c] \in [at : Stages, chat : Sessions, left : Seq(Nat \X Images)]
    BY DEF ChatTypes
  <2>3. files \in Seq(Nat \X Images) /\ Len(files) \in Nat /\ DOMAIN files = 1..Len(files)
    <3>1. files \in Seq(Nat \X Images)
      BY <2>2, FilesType
    <3>. HIDE DEF files
    <3>. QED BY <3>1
  <2>4. \A i \in 1..Len(files) : files[i][1] = i
    BY <2>2, FilesType
  <2>5. PICK k \in 0..Len(files) : /\ left = SubSeq(files, k + 1, Len(files))
                                   /\ \A i \in 1..k : Filed(images, i, files[i][2])
    BY <2>1 DEF PartlyStored
  <2>6. CASE left = <<>>
    <3>. DEFINE request == [client[c] EXCEPT !.at = "file"]
    <3>1. client' = [client EXCEPT ![c] = request] /\ images' = images
      BY <1>3, <2>6 DEF StoreImage
    <3>2. request.at = "file" /\ request.chat = chat
      BY <2>1, <2>2
    <3>3. Stored(Written(chat), images)
      <4>. HIDE DEF files, left
      <4>1. k = Len(files)
        <5>1. SubSeq(files, k + 1, Len(files)) = <<>>
          BY <2>5, <2>6
        <5>2. k + 1 \in Int /\ Len(files) \in Int /\ \A i \in (k + 1)..Len(files) : files[i] \in Nat \X Images
          <6>1. \A i \in 1..Len(files) : files[i] \in Nat \X Images
            BY <2>3
          <6>. QED BY <2>3, <6>1
        <5>3. Len(SubSeq(files, k + 1, Len(files)))
                 = IF k + 1 <= Len(files) THEN Len(files) - (k + 1) + 1 ELSE 0
          BY <5>2, SubSeqProperties
        <5>. DEFINE n == Len(files)
                    rest == SubSeq(files, k + 1, n)
        <5>4. n \in Nat /\ k \in 0..n /\ rest = <<>> /\ Len(rest) = IF k + 1 <= n THEN n - (k + 1) + 1 ELSE 0
          BY <2>3, <5>1, <5>3
        <5>. HIDE DEF n, rest
        <5>5. Len(rest) = 0
          BY <5>4
        <5>6. k = n
          BY <5>4, <5>5
        <5>. QED BY <5>6 DEF n
      <4>2. \A i \in 1..Len(files) : files[i][1] = i /\ Filed(images, i, files[i][2])
        BY <2>4, <2>5, <4>1
      <4>. QED BY <2>3, <4>2 DEF Stored, files
    <3>. HIDE DEF request
    <3>4. client'[c] = request /\ Busy' = {c}
      BY <2>1, <3>1, <3>2, BusyAfter
    <3>5. SavingAlone(client[c])'
      BY <2>1, <3>1, <3>2, <3>3, <3>4 DEF SavingAlone
    <3>. QED BY <2>1, <3>2, <3>4, <3>5 DEF ChatInv
  <2>7. CASE left # <<>>
    <3>. DEFINE request == [client[c] EXCEPT !.left = Tail(left)]
                file == Head(left)
    <3>1. /\ client' = [client EXCEPT ![c] = request]
          /\ StoreFile(file[1], file[2])
      BY <1>3, <2>7 DEF StoreImage
    <3>2. request.at = "images" /\ request.chat = chat /\ request.left = Tail(left)
      BY <2>1, <2>2
    <3>. HIDE DEF request
    <3>3. client'[c] = request /\ Busy' = {c}
      BY <2>1, <3>1, <3>2, BusyAfter
    <3>4. PartlyStored(last.chat, client[c].left)'
      <4>. HIDE DEF files, left
      <4>1. k + 1 \in 1..Len(files)
        BY <2>3, <2>5, <2>7
      <4>2. file = files[k + 1] /\ Tail(left) = SubSeq(files, (k + 1) + 1, Len(files))
        BY <2>3, <2>5, <4>1
      <4>3. file[1] = k + 1
        BY <2>4, <4>1, <4>2
      <4>. HIDE DEF file
      <4>4. ASSUME NEW i \in 1..(k + 1) PROVE Filed(images', i, files[i][2])
        <5>. DEFINE image == files[i][2]
                    other == file[2]
        <5>1. CASE i = k + 1
          <6>1. StoreFile(i, image)
            BY <3>1, <4>2, <4>3, <5>1
          <6>. HIDE DEF image
          <6>2. Filed(images', i, image)
            BY <6>1, StoreFileFiles
          <6>. QED BY <6>2 DEF image
        <5>2. CASE i # k + 1
          <6>1. i \in 1..k /\ Filed(images, i, image) /\ StoreFile(k + 1, other)
            BY <2>5, <3>1, <4>3, <5>2
          <6>. HIDE DEF image, other
          <6>2. Filed(images', i, image)
            BY <5>2, <6>1, StoreFileFiles
          <6>. QED BY <6>2 DEF image
        <5>. QED BY <5>1, <5>2
      <4>5. k + 1 \in 0..Len(files) /\ last'.chat = chat
        BY <2>1, <4>1
      <4>. DEFINE w == Written(last'.chat).files
      <4>6. files = w
        BY <4>5 DEF files
      <4>. HIDE DEF w
      <4>7. client'[c].left = SubSeq(w, (k + 1) + 1, Len(w))
        BY <3>2, <3>3, <4>2, <4>6
      <4>8. k + 1 \in 0..Len(w) /\ \A i \in 1..(k + 1) : Filed(images', i, w[i][2])
        BY <4>4, <4>5, <4>6
      <4>. QED BY <4>7, <4>8 DEF PartlyStored, w
    <3>5. SavingAlone(client[c])'
      BY <2>1, <3>2, <3>3, <3>4 DEF SavingAlone
    <3>. QED BY <2>1, <3>2, <3>3, <3>5 DEF ChatInv
  <2>. QED BY <2>6, <2>7
<1>4. ASSUME NEW c \in Clients, TruncateFile(c), last.clean PROVE ChatInv'
  <2>. DEFINE request == [client[c] EXCEPT !.at = "truncated"]
  <2>1. /\ Busy = {c} /\ client[c].chat = last.chat /\ ~last.deleted
        /\ Stored(Written(last.chat), images) /\ last' = last /\ images' = images /\ md'.there
        /\ client' = [client EXCEPT ![c] = request]
    BY <1>4, BusyAlone DEF TruncateFile, Alone, SavingAlone, DeletingAlone
  <2>2. request.at = "truncated" /\ request.chat = last.chat
    BY <2>1 DEF ChatTypes
  <2>. HIDE DEF request
  <2>3. client'[c] = request /\ Busy' = {c}
    BY <2>1, <2>2, BusyAfter
  <2>4. SavingAlone(client[c])'
    BY <2>1, <2>2, <2>3 DEF SavingAlone
  <2>. QED BY <2>1, <2>2, <2>3, <2>4 DEF ChatInv
<1>5. ASSUME NEW c \in Clients, WriteFile(c), last.clean PROVE ChatInv'
  <2>1. /\ Busy = {c} /\ client[c].chat = last.chat /\ ~last.deleted /\ md.there
        /\ Stored(Written(last.chat), images) /\ last' = last /\ images' = images
        /\ client' = [client EXCEPT ![c] = NoRequest]
    BY <1>5, BusyAlone DEF WriteFile, Alone, SavingAlone, DeletingAlone
  <2>2. md'.lines = Written(last.chat).lines
    BY <1>5, <2>1 DEF WriteFile, ChatTypes
  <2>3. Busy' = {}
    BY <2>1, BusyEnds
  <2>. QED BY <2>1, <2>2, <2>3 DEF ChatInv, SessionSettled
<1>6. ASSUME NEW c \in Clients, RemoveFile(c), last.clean PROVE ChatInv'
  <2>. DEFINE request == [client[c] EXCEPT !.at = "sweep"]
  <2>1. /\ Busy = {c} /\ client[c].chat = last.chat /\ last.deleted /\ last' = last /\ ~md'.there
        /\ client' = [client EXCEPT ![c] = request]
    BY <1>6, BusyAlone DEF RemoveFile, Alone, SavingAlone, DeletingAlone, NoFile
  <2>2. request.at = "sweep" /\ request.chat = last.chat
    BY <2>1 DEF ChatTypes
  <2>. HIDE DEF request
  <2>3. client'[c] = request /\ Busy' = {c}
    BY <2>1, <2>2, BusyAfter
  <2>4. DeletingAlone(client[c])'
    BY <2>1, <2>2, <2>3 DEF DeletingAlone
  <2>. QED BY <2>1, <2>2, <2>3, <2>4 DEF ChatInv
<1>7. ASSUME NEW c \in Clients, RemoveImages(c), last.clean PROVE ChatInv'
  <2>1. /\ Busy = {c} /\ last.deleted /\ ~md.there /\ last' = last /\ md' = md /\ images' = <<>>
        /\ client' = [client EXCEPT ![c] = NoRequest]
    BY <1>7, BusyAlone DEF RemoveImages, Alone, SavingAlone, DeletingAlone
  <2>2. Busy' = {}
    BY <2>1, BusyEnds
  <2>. QED BY <2>1, <2>2 DEF ChatInv, SessionSettled
<1>8. CASE Cut
  BY <1>8 DEF Cut, ChatInv, ChatTypes
<1>9. CASE UNCHANGED chatVars
  <2>1. client' = client /\ images' = images /\ md' = md /\ last' = last
    BY <1>9 DEF chatVars
  <2>2. Busy' = Busy /\ SessionSettled' = SessionSettled
    BY <2>1 DEF Busy, SessionSettled, Stored
  <2>3. \A c \in Clients : /\ SavingAlone(client[c])' = SavingAlone(client[c])
                           /\ DeletingAlone(client[c])' = DeletingAlone(client[c])
    <3>1. \A chat, left : PartlyStored(chat, left)' = PartlyStored(chat, left)
      BY <2>1 DEF PartlyStored
    <3>. QED BY <2>1, <3>1 DEF SavingAlone, DeletingAlone, Stored
  <2>. QED BY <2>1, <2>2, <2>3 DEF ChatInv
<1>10. ASSUME NEW c \in Clients, ~last.clean,
              StoreImage(c) \/ TruncateFile(c) \/ WriteFile(c) \/ RemoveFile(c) \/ RemoveImages(c)
       PROVE  ChatInv'
  BY <1>10 DEF StoreImage, TruncateFile, WriteFile, RemoveFile, RemoveImages, ChatInv
<1>11. ASSUME NEW c \in Clients, FileFails(c) \/ RemoveFails(c) \/ SweepFails(c) PROVE ChatInv'
  BY <1>11 DEF FileFails, RemoveFails, SweepFails, ChatInv, ChatTypes
<1>. QED BY <1>1, <1>2, <1>3, <1>4, <1>5, <1>6, <1>7, <1>8, <1>9, <1>10, <1>11 DEF ChatNext

LEMMA InvInitially == ChatInit => ChatInv
BY DEF ChatInit, ChatInv, Busy, SessionSettled, NoFile, NoRequest

LEMMA InvGivesReadsBack == ChatTypes /\ ChatInv => ReadsBack
<1>. SUFFICES ASSUME ChatTypes, ChatInv, Busy = {}, last.clean, ~last.deleted, ~Ambiguous(last.chat)
              PROVE  Read(md.lines, images) = [i \in DOMAIN last.chat |-> Kept(last.chat[i])]
  <2>1. Busy = {} /\ last.clean /\ last.deleted /\ ChatInv => ~md.there /\ images = <<>>
    BY DEF ChatInv, SessionSettled
  <2>. QED BY <2>1 DEF ReadsBack
<1>. DEFINE chat == last.chat
<1>1. md.lines = Written(chat).lines /\ Stored(Written(chat), images)
  BY DEF ChatInv, SessionSettled
<1>2. chat \in Seq(ChatMessage) /\ Pictured(images)
  BY SessionsType DEF ChatTypes
<1>. HIDE DEF chat
<1>3. Unambiguous(chat, images)
  <2>. SUFFICES ASSUME NEW i \in 1..Len(chat), NEW j \in 1..Len(chat[i].text)
                PROVE  LeftAsText(chat[i].text[j], images)
    BY DEF Unambiguous
  <2>. DEFINE text == chat[i].text
  <2>1. i \in DOMAIN chat /\ chat[i] \in ChatMessage
    BY <1>2
  <2>2. text \in Seq(Lines)
    BY <2>1 DEF ChatMessage
  <2>3. j \in DOMAIN text
    <3>. HIDE DEF text
    <3>1. j \in 1..Len(text)
      BY DEF text
    <3>. QED BY <2>2, <3>1
  <2>4. ~(text[j].kind = "marker" \/ Resolves(text[j], images))
    BY <2>1, <2>3 DEF Ambiguous, chat
  <2>. QED BY <2>4 DEF LeftAsText
<1>4. Read(Written(chat).lines, images) = [i \in DOMAIN chat |-> Kept(chat[i])]
  BY <1>1, <1>2, <1>3, FormatReadsBack
<1>. QED BY <1>1, <1>4 DEF chat

(* Whatever was saved, deleted or left half done before it, a request that *)
(* had the session's files to itself leaves nothing, or the chat it saved  *)
(* with every picture that was stored, although writes of other pictures   *)
(* failed unnoticed (writeChatSessionMarkdown, deleteChatSession).         *)
THEOREM SessionReadsBack == ChatSpec => []ReadsBack
<1>1. ChatInit => ChatTypes /\ ChatInv
  BY TypesInitially, InvInitially
<1>2. ChatTypes /\ ChatInv /\ [ChatNext]_chatVars => (ChatTypes /\ ChatInv)'
  BY TypesKept, InvKept
<1>3. ChatTypes /\ ChatInv => ReadsBack
  BY InvGivesReadsBack
<1>. QED BY <1>1, <1>2, <1>3, PTL DEF ChatSpec

=============================================================================
