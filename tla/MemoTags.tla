-------------------------------- MODULE MemoTags --------------------------------
(***************************************************************************)
(* The tags of a memo are found twice: by the client, which shows each as  *)
(* a link to the memos with that tag (remark-tag.ts), and by the server,   *)
(* which stores them for that search (plugin/markdown/parser/tag.go).  A   *)
(* tag is told here by where its name is in the text.                      *)
(***************************************************************************)
EXTENDS Naturals, Sequences

CONSTANTS
    MaxTagLength,   \* of both scanners; 100 in the code
    MaxText         \* bound: characters

VARIABLE text       \* a line of a memo: "a" stands for what may be in a tag's
                    \* name, "." for what may not
vars == <<text>>

Char == {"#", "a", " ", "."}
TypeOK == text \in Seq(Char) /\ Len(text) <= MaxText

Init == text = <<>>

isTagChar(c) == c = "a"

\* In the text up to e: where the name after position i ends, and where the
\* next hash after i is, one after e if nothing ends it.
nameEnd(i, e) ==
    CHOOSE j \in (i + 1)..(e + 1) : /\ \A k \in (i + 1)..(j - 1) : isTagChar(text[k])
                                    /\ j = e + 1 \/ ~isTagChar(text[j])
nextHash(i, e) ==
    CHOOSE j \in (i + 1)..(e + 1) : /\ \A k \in (i + 1)..(j - 1) : text[k] # "#"
                                    /\ j = e + 1 \/ text[j] = "#"

(***************************************************************************)
(* The client                                                              *)
(***************************************************************************)

\* In the text from s to e: a hash with a name after it; such a hash after
\* another stands alone; the rest are tags, if not too long.
isName(i, e) == text[i] = "#" /\ i < e /\ isTagChar(text[i + 1])
isHash(i, s, e) == isName(i, e) /\ i > s /\ text[i - 1] = "#"
isTag(i, s, e) == isName(i, e) /\ ~isHash(i, s, e) /\ nameEnd(i, e) - (i + 1) <= MaxTagLength
textEnd(i, s, e) == IF isHash(i, s, e) THEN i + 1 ELSE nextHash(i, e)

\* The text from s to e as segments, each a kind and a range.
parseTagsFromText(s, e) ==
    LET from[i \in s..(e + 1)] ==
            IF i = e + 1 THEN <<>>
            ELSE IF isTag(i, s, e)
                 THEN <<<<"tag", i + 1, nameEnd(i, e) - 1>>>> \o from[nameEnd(i, e)]
                 ELSE <<<<"text", i, textEnd(i, s, e) - 1>>>> \o from[textEnd(i, s, e)]
    IN  from[s]

tagsOf(segments) ==
    {<<segments[i][2], segments[i][3]>> : i \in {i \in DOMAIN segments : segments[i][1] = "tag"}}

\* The text is replaced by its segments, and those after the first are visited
\* again.
remarkTag ==
    LET segments == parseTagsFromText(1, Len(text))
    IN  IF tagsOf(segments) = {} THEN {}
        ELSE tagsOf(segments) \union
             UNION {tagsOf(parseTagsFromText(segments[i][2], segments[i][3])) :
                        i \in {i \in DOMAIN segments : i > 1 /\ segments[i][1] = "text"}}

(***************************************************************************)
(* The server                                                              *)
(***************************************************************************)

\* Where the tag at a hash ends; a name too long is cut.
tagEnd(i) ==
    LET j == nameEnd(i, Len(text)) - 1
    IN  IF j - i > MaxTagLength THEN i + MaxTagLength ELSE j

\* The parser is tried at each hash, and goes on after the tag it finds, or
\* after the hash.
Parse ==
    LET from[i \in 1..(Len(text) + 1)] ==
            IF i = Len(text) + 1 THEN {}
            ELSE IF text[i] = "#" /\ tagEnd(i) > i THEN {<<i + 1, tagEnd(i)>>} \union from[tagEnd(i) + 1]
            ELSE from[i + 1]
    IN  from[1]

\* A memo is written.
Write(c) == Len(text) < MaxText /\ text' = Append(text, c)

Next == \E c \in Char : Write(c)

Spec == Init /\ [][Next]_vars

(***************************************************************************)
(* What should be                                                          *)
(***************************************************************************)

\* Each link leads to memos that have its tag: what the client shows as a tag
\* the server stores as one.  What the server stores besides is after two
\* hashes or too long (remark-tag.ts:35, tag.go:110).
LinksLead ==
    /\ remarkTag \subseteq Parse
    /\ \A t \in Parse \ remarkTag :
          \/ t[1] > 2 /\ text[t[1] - 2] = "#"
          \/ /\ t[2] - t[1] + 1 = MaxTagLength
             /\ t[2] < Len(text) /\ isTagChar(text[t[2] + 1])
=============================================================================
