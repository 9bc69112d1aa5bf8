----------------------------- MODULE ChatStore -----------------------------
(***************************************************************************)
(* One chat session on disk (chat_history.go): a Markdown file and a       *)
(* directory of the images it refers to, written, read back and deleted by *)
(* handlers that take no lock.  A save writes the images, then the file;   *)
(* a delete removes the file, then the images.                             *)
(*                                                                         *)
(* The file is a sequence of lines; what reading makes of a line depends   *)
(* on its kind, whoever wrote it.  Left out: titles, the list view, blank  *)
(* lines at the ends of a text, and an image's format but for whether the  *)
(* reader knows it.  Sessions share no file, and the dashboard only sends  *)
(* the roles "user" and "assistant".                                       *)
(***************************************************************************)
EXTENDS Integers, Sequences, FiniteSets

CONSTANTS Clients,   \* requests that may be in flight together
          Words,     \* what a line, a link or a picture may say
          Chats,     \* sessions a client may save: sequences of messages
          MaxOps     \* bound: requests

ASSUME OpsAssumption == MaxOps \in Nat

(* A message has a role, lines of text and images: a picture, one of a     *)
(* format the reader does not know (svg+xml), one whose file the disk will *)
(* not take, a link, or base64 that does not decode.  A line is what the   *)
(* reader takes it for.                                                    *)
Kinds == {"marker", "head", "image", "odd", "link", "words"}
Lines == [kind : Kinds, n : Nat, s : Words]
Images == [as : {"picture", "odd", "lost", "link", "broken"}, of : Words]
ChatMessage == [role : {"user", "assistant"}, text : Seq(Lines), images : Seq(Images)]

ASSUME ChatsAssumption == {"", "user", "assistant"} \subseteq Words /\ Chats \subseteq Seq(ChatMessage)

VARIABLES
    md,       \* <id>.md: whether it is there, and its lines
    images,   \* <id>/img-N: the pictures the reader knows, by number
    client,   \* requests: the operation, the images left to write, the chat
    ops,      \* requests so far
    last      \* history: the last request that changed something, see ChatInit

chatVars == <<md, images, client, ops, last>>

NoFile == [there |-> FALSE, lines |-> <<>>]

NoRequest == [at |-> "none", chat |-> <<>>, left |-> <<>>]

(* last.clean: no other request was in flight with it, it was not cut, and *)
(* no step of it failed but the writing of pictures.                       *)
ChatInit ==
    /\ md = NoFile /\ images = <<>>
    /\ client = [c \in Clients |-> NoRequest]
    /\ ops = 0 /\ last = [deleted |-> TRUE, clean |-> TRUE, chat |-> <<>>]

-----------------------------------------------------------------------------
(* The format *)

Line(kind, n, s) == [kind |-> kind, n |-> n, s |-> s]

Empty == [lines |-> <<>>, files |-> <<>>]

(* The line that refers to picture n. *)
ImageLine(n, image) ==
    IF image.as = "picture" THEN Line("image", n, "") ELSE Line("odd", 0, image.of)

(* A picture uses up a number; it has a line if its file could be written. *)
AddNumbered(acc, image, n) ==
    [lines |-> IF image.as = "lost" THEN acc.lines ELSE Append(acc.lines, ImageLine(n, image)),
     files |-> Append(acc.files, <<n, image>>)]

(* Seeded fault: the images of every message are numbered from one. *)
AddImagePerMessage(acc, image) ==
    AddNumbered(acc, image,
        Cardinality({i \in DOMAIN acc.lines : acc.lines[i].kind = "image"
                        /\ ~\E j \in i..Len(acc.lines) : acc.lines[j].kind = "marker"}) + 1)

AddImage(acc, image) == AddNumbered(acc, image, Len(acc.files) + 1)

(* A picture goes to a file, a link is kept, base64 that does not decode   *)
(* is dropped.                                                             *)
WriteImage(acc, image) ==
    CASE image.as \in {"picture", "odd", "lost"} -> AddImage(acc, image)
      [] image.as = "link" -> [acc EXCEPT !.lines = Append(@, Line("link", 0, image.of))]
      [] OTHER -> acc

(* The images of a message, one after the other, onto what is written.    *)
Drawn(acc, pictures) ==
    LET drawn[k \in 0..Len(pictures)] ==
            IF k = 0 THEN acc ELSE WriteImage(drawn[k - 1], pictures[k])
    IN  drawn

WriteMessage(acc, msg) ==
    LET begun == [acc EXCEPT !.lines = @ \o <<Line("marker", 0, msg.role), Line("head", 0, "")>>]
    IN  [Drawn(begun, msg.images)[Len(msg.images)] EXCEPT !.lines = @ \o msg.text]

Messages(chat) ==
    LET written[k \in 0..Len(chat)] ==
            IF k = 0 THEN Empty ELSE WriteMessage(written[k - 1], chat[k])
    IN  written

(* writeChatSessionMarkdown: the lines, and the image files in order. *)
Written(chat) == Messages(chat)[Len(chat)]

Resolves(line, files) == line.kind = "link" \/ (line.kind = "image" /\ line.n \in DOMAIN files)

ImageOf(line, files) ==
    IF line.kind = "link" THEN [as |-> "link", of |-> line.s]
    ELSE [as |-> "picture", of |-> files[line.n]]

(* parseChatMessageSegment, line by line: the first heading is skipped, an *)
(* image line that resolves is an image, any other stays text.             *)
AddLine(msg, line, files) ==
    IF line.kind = "head" /\ ~msg.headed THEN [msg EXCEPT !.headed = TRUE]
    ELSE IF Resolves(line, files) THEN [msg EXCEPT !.images = Append(@, ImageOf(line, files))]
    ELSE [msg EXCEPT !.text = Append(@, line)]

Opened(role) == [role |-> role, headed |-> FALSE, text |-> <<>>, images |-> <<>>]

(* A marker opens a message; what comes before the first one is none's. *)
ReadLine(msgs, line, files) ==
    IF line.kind = "marker" THEN Append(msgs, Opened(line.s))
    ELSE IF msgs = <<>> THEN msgs
    ELSE [msgs EXCEPT ![Len(msgs)] = AddLine(@, line, files)]

Scan(lines, files) ==
    LET scan[k \in 0..Len(lines)] ==
            IF k = 0 THEN <<>> ELSE ReadLine(scan[k - 1], lines[k], files)
    IN  scan

(* readChatSessionMarkdown: a message from every marker to the next. *)
Read(lines, files) ==
    LET msgs == Scan(lines, files)[Len(lines)]
    IN  [i \in DOMAIN msgs |->
            [role |-> msgs[i].role, text |-> msgs[i].text, images |-> msgs[i].images]]

ChatTypeOK ==
    /\ md.there \in BOOLEAN /\ \A i \in DOMAIN md.lines : md.lines[i].kind \in Kinds
    /\ \A n \in DOMAIN images : images[n] \in Words
    /\ \A c \in Clients : /\ client[c].at \in {"none", "images", "file", "truncated", "remove", "sweep"}
                          /\ client[c].chat \in Chats \cup {<<>>}
    /\ ops \in 0..MaxOps /\ last.clean \in BOOLEAN /\ last.chat \in Chats \cup {<<>>}

-----------------------------------------------------------------------------
(* The handlers *)

Busy == {c \in Clients : client[c].at # "none"}

BeginRequest(c, at, chat, left) ==
    /\ client[c].at = "none" /\ ops < MaxOps /\ ops' = ops + 1
    /\ client' = [client EXCEPT ![c] = [at |-> at, chat |-> chat, left |-> left]]
    /\ last' = [deleted |-> at = "remove", clean |-> Busy = {}, chat |-> chat]
    /\ UNCHANGED <<md, images>>

Save(c, chat) == BeginRequest(c, "images", chat, Written(chat).files)

Delete(c) == BeginRequest(c, "remove", <<>>, <<>>)

Holding(n, picture) ==
    [k \in DOMAIN images \cup {n} |-> IF k = n THEN picture ELSE images[k]]

(* What becomes of the files the reader knows when a picture is written to *)
(* file n: a write that fails leaves the file as it was, or cut short.     *)
StoreFile(n, image) ==
    CASE image.as = "picture" -> images' = Holding(n, image.of)
      [] image.as = "lost" -> images' \in {images, Holding(n, "")}
      [] OTHER -> UNCHANGED images

(* A failed write is passed over in silence. *)
StoreImage(c) ==
    /\ client[c].at = "images"
    /\ IF client[c].left = <<>>
       THEN client' = [client EXCEPT ![c].at = "file"] /\ UNCHANGED images
       ELSE /\ client' = [client EXCEPT ![c].left = Tail(@)]
            /\ StoreFile(Head(client[c].left)[1], Head(client[c].left)[2])
    /\ UNCHANGED <<md, ops, last>>

TruncateFile(c) ==
    /\ client[c].at = "file" /\ client' = [client EXCEPT ![c].at = "truncated"]
    /\ md' = [there |-> TRUE, lines |-> <<>>]
    /\ UNCHANGED <<images, ops, last>>

(* A file removed since it was truncated takes the lines with it. *)
WriteFile(c) ==
    /\ client[c].at = "truncated" /\ client' = [client EXCEPT ![c] = NoRequest]
    /\ md' = IF md.there THEN [md EXCEPT !.lines = Written(client[c].chat).lines] ELSE md
    /\ UNCHANGED <<images, ops, last>>

(* The file cannot be opened, or takes only part of the lines: answered    *)
(* with the error, as a file that cannot be removed is.                    *)
FileFails(c) ==
    /\ client[c].at \in {"file", "truncated"}
    /\ LET lines == Written(client[c].chat).lines
       IN  IF client[c].at = "truncated" /\ md.there
           THEN \E k \in 0..Len(lines) : md' = [md EXCEPT !.lines = SubSeq(lines, 1, k)]
           ELSE UNCHANGED md
    /\ client' = [client EXCEPT ![c] = NoRequest] /\ last' = [last EXCEPT !.clean = FALSE]
    /\ UNCHANGED <<images, ops>>

RemoveFails(c) ==
    /\ client[c].at = "remove"
    /\ client' = [client EXCEPT ![c] = NoRequest] /\ last' = [last EXCEPT !.clean = FALSE]
    /\ UNCHANGED <<md, images, ops>>

RemoveFile(c) ==
    /\ client[c].at = "remove" /\ client' = [client EXCEPT ![c].at = "sweep"]
    /\ md' = NoFile
    /\ UNCHANGED <<images, ops, last>>

RemoveImages(c) ==
    /\ client[c].at = "sweep" /\ client' = [client EXCEPT ![c] = NoRequest] /\ images' = <<>>
    /\ UNCHANGED <<md, ops, last>>

(* RemoveAll's error is not looked at: images stay, and the answer is 200. *)
SweepFails(c) ==
    /\ client[c].at = "sweep" /\ images # <<>>
    /\ client' = [client EXCEPT ![c] = NoRequest] /\ last' = [last EXCEPT !.clean = FALSE]
    /\ UNCHANGED <<md, images, ops>>

(* The program ends in the middle of whatever is in flight. *)
Cut ==
    /\ Busy # {} /\ client' = [c \in Clients |-> NoRequest]
    /\ last' = [last EXCEPT !.clean = FALSE]
    /\ UNCHANGED <<md, images, ops>>

ChatNext ==
    \/ \E c \in Clients : \/ \E chat \in Chats : Save(c, chat)
                          \/ Delete(c)
                          \/ StoreImage(c) \/ TruncateFile(c) \/ WriteFile(c)
                          \/ RemoveFile(c) \/ RemoveImages(c)
                          \/ FileFails(c) \/ RemoveFails(c) \/ SweepFails(c)
    \/ Cut

ChatSpec == ChatInit /\ [][ChatNext]_chatVars

-----------------------------------------------------------------------------
(* Properties *)

(* What the reader shall show of the images of a message: the pictures and *)
(* links; where it does not know the format, the line that refers to the   *)
(* picture; and nothing of a picture that was not stored or not decoded.   *)
Shown(shown, image) ==
    CASE image.as \in {"picture", "link"} -> [shown EXCEPT !.images = Append(@, image)]
      [] image.as = "odd" -> [shown EXCEPT !.text = Append(@, ImageLine(0, image))]
      [] OTHER -> shown

AllShown(pictures) ==
    LET shown[k \in 0..Len(pictures)] ==
            IF k = 0 THEN [text |-> <<>>, images |-> <<>>] ELSE Shown(shown[k - 1], pictures[k])
    IN  shown

Kept(msg) ==
    LET shown == AllShown(msg.images)[Len(msg.images)]
    IN  [role |-> msg.role, text |-> shown.text \o msg.text, images |-> shown.images]

(* A text with a line that looks like the format's own: a marker, a link   *)
(* or an image line with a file behind it.                                 *)
Ambiguous(chat) ==
    \E i \in DOMAIN chat : \E j \in DOMAIN chat[i].text :
        chat[i].text[j].kind = "marker" \/ Resolves(chat[i].text[j], images)

(* Whatever was saved, deleted or left half done before it, a request that *)
(* had the files to itself leaves nothing, or its chat: every picture that *)
(* was stored with its own message (chat_history.go:150), although others  *)
(* were not.  Texts that look like the format are excepted                 *)
(* (chat_history.go:72 keeps other image lines text).                      *)
ReadsBack ==
    Busy = {} /\ last.clean =>
        IF last.deleted THEN ~md.there /\ images = <<>>
        ELSE \/ Ambiguous(last.chat)
             \/ Read(md.lines, images) = [i \in DOMAIN last.chat |-> Kept(last.chat[i])]

(* What the comment at chat_history.go:68 says of the references the       *)
(* reader reads off disk, "exactly what writeChatSessionMarkdown itself    *)
(* generates": every picture that was stored is read back as a picture.    *)
PicturesReadBack ==
    Busy = {} /\ last.clean /\ ~last.deleted /\ ~Ambiguous(last.chat) =>
        LET read == Read(md.lines, images)
        IN  \A i \in DOMAIN last.chat : \A k \in DOMAIN last.chat[i].images :
                last.chat[i].images[k].as \in {"picture", "odd"} =>
                    \E l \in DOMAIN read[i].images : read[i].images[l].of = last.chat[i].images[k].of
=============================================================================
