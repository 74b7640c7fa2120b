------------------------------- MODULE Mrkdwn -------------------------------
(***************************************************************************)
(* internal/slackmrkdwn: the part of the conversion that must leave code   *)
(* and Slack tokens alone. A text is a sequence of atoms: a backtick, a    *)
(* Slack token, an HTML tag, a character Slack wants escaped, a word. HTML *)
(* becomes Markdown first, in code too. Then what is protected is taken    *)
(* out, replaced by a numbered placeholder, and put back at the end; a     *)
(* placeholder is its kind ("ST", "CB" or "IC") and its number.            *)
(***************************************************************************)
EXTENDS Naturals, SequencesExt

Tick == <<"tick", 0>>
Special == <<"special", 0>>
Mention(n) == <<"mention", n>>
Word(n) == <<"word", n>>
Fence == <<Tick, Tick, Tick>>

\* Tags: <br> and <p> by themselves, and the pairs by what they are, <code> or
\* one of bold, italic, struck out and link. What Markdown writes for the ends
\* of such a pair is a mark.
Break == <<"break", 0>>
NewLine == <<"newline", 0>>
Code == 1
Open(k) == <<"open", k>>
Close(k) == <<"close", k>>
Mark(k) == IF k = Code THEN Tick ELSE <<"mark", k>>

-----------------------------------------------------------------------------
(* htmlTagsToMarkdown: an opening tag that no pair holds goes with the next *)
(* closing tag of its kind, whatever is between.                            *)

HtmlToMarkdown(text) ==
  LET inside(i) == \E h \in 1..(i - 1) :
                     /\ text[h] = Open(text[i][2])
                     /\ \A g \in h..(i - 1) : text[g] # Close(text[i][2])
      paired(i) == \/ text[i][1] = "close" /\ inside(i)
                   \/ /\ text[i][1] = "open" /\ ~inside(i)
                      /\ \E j \in i..Len(text) : text[j] = Close(text[i][2])
  IN [i \in 1..Len(text) |->
        CASE text[i] = Break -> NewLine
          [] text[i] # Break /\ paired(i) -> Mark(text[i][2])
          [] OTHER -> text[i]]

-----------------------------------------------------------------------------
(* Taking out.                                                              *)

\* escapeHTMLEntities: a tag that is left has its brackets escaped.
EscapedAtom(a) ==
  CASE a[1] = "special" -> <<"escaped", a[2]>>
    [] a[1] = "open" -> <<"escapedOpen", a[2]>>
    [] a[1] = "close" -> <<"escapedClose", a[2]>>
    [] OTHER -> a

\* extractSlackTokens, then escapeHTMLEntities.
TakeTokens(text) ==
  FoldLeft(LAMBDA s, a :
             IF a[1] = "mention"
             THEN [saved |-> Append(s.saved, <<a>>),
                   text |-> Append(s.text, <<"ST", Len(s.saved) + 1>>)]
             ELSE [s EXCEPT !.text = Append(@, EscapedAtom(a))],
           [saved |-> <<>>, text |-> <<>>], text)

\* strings.Split(text, "```"): ticks that do not make three stay in their part.
Parts(text) ==
  LET step(s, a) ==
        IF a # Tick THEN [s EXCEPT !.part = @ \o SubSeq(Fence, 1, s.ticks) \o <<a>>, !.ticks = 0]
        ELSE IF s.ticks = 2 THEN [done |-> Append(s.done, s.part), part |-> <<>>, ticks |-> 0]
        ELSE [s EXCEPT !.ticks = @ + 1]
      end == FoldLeft(step, [done |-> <<>>, part |-> <<>>, ticks |-> 0], text)
  IN Append(end.done, end.part \o SubSeq(Fence, 1, end.ticks))

\* extractCodeBlocks: every second part is a block. With an odd number of
\* fences the last part has become a block too, and is written out as well.
TakeBlocks(text) ==
  LET parts == Parts(text)
      step(s, i) ==
        IF i % 2 = 0 THEN [saved |-> Append(s.saved, Fence \o parts[i] \o Fence),
                           text |-> Append(s.text, <<"CB", Len(s.saved) + 1>>)]
        ELSE [s EXCEPT !.text = @ \o parts[i]]
      all == FoldLeft(step, [saved |-> <<>>, text |-> <<>>], [i \in 1..Len(parts) |-> i])
  IN IF Len(parts) < 3 THEN [saved |-> <<>>, text |-> text]
     ELSE IF Len(parts) % 2 = 0
          THEN [all EXCEPT !.text = @ \o Fence \o parts[Len(parts)]]
     ELSE all

\* extractInlineCodes: a backtick that is not closed is written out.
TakeInline(text) ==
  LET step(s, a) ==
        IF a = Tick
        THEN IF s.open
             THEN [saved |-> Append(s.saved, <<Tick>> \o s.code \o <<Tick>>),
                   text |-> Append(s.text, <<"IC", Len(s.saved) + 1>>),
                   open |-> FALSE, code |-> <<>>]
             ELSE [s EXCEPT !.open = TRUE, !.code = <<>>]
        ELSE IF s.open THEN [s EXCEPT !.code = Append(@, a)]
        ELSE [s EXCEPT !.text = Append(@, a)]
      end == FoldLeft(step, [saved |-> <<>>, text |-> <<>>, open |-> FALSE, code |-> <<>>], text)
  IN [saved |-> end.saved,
      text |-> IF end.open THEN end.text \o <<Tick>> \o end.code ELSE end.text]

-----------------------------------------------------------------------------
(* Putting back, each once, by its first occurrence.                        *)

Replace(text, atom, by) ==
  IF \E i \in 1..Len(text) : text[i] = atom
  THEN LET i == CHOOSE i \in 1..Len(text) :
                  text[i] = atom /\ \A h \in 1..(i - 1) : text[h] # atom
       IN SubSeq(text, 1, i - 1) \o by \o SubSeq(text, i + 1, Len(text))
  ELSE text

Restore(text, saved, kind) ==
  FoldLeft(LAMBDA t, n : Replace(t, <<kind, n>>, saved[n]),
           text, [n \in 1..Len(saved) |-> n])

\* markdownToSlackMrkdwn without tables and the one-line substitutions.
\* Faulty: code blocks are put back before inline code.
Convert_BlocksFirst(input) ==
  LET tokens == TakeTokens(HtmlToMarkdown(input))
      blocks == TakeBlocks(tokens.text)
      inline == TakeInline(blocks.text)
      t1 == Restore(inline.text, tokens.saved, "ST")
      t2 == Restore(t1, blocks.saved, "CB")
  IN Restore(t2, inline.saved, "IC")

Convert(input) ==
  LET tokens == TakeTokens(HtmlToMarkdown(input))
      blocks == TakeBlocks(tokens.text)
      inline == TakeInline(blocks.text)
      t1 == Restore(inline.text, tokens.saved, "ST")
      t2 == Restore(t1, inline.saved, "IC")
  IN Restore(t2, blocks.saved, "CB")

-----------------------------------------------------------------------------
(* convertTablesToCodeBlocks, on lines: <<"row", n>>, <<"separator", n>> or  *)
(* <<"text", n>>. A table of nothing but separators leaves an empty block,  *)
(* and none at the end of the text.                                         *)

FenceLine == <<"fence", 0>>

ConvertTables(lines) ==
  LET block(rows) == <<FenceLine>> \o rows \o <<FenceLine>>
      step(s, l) ==
        CASE l[1] = "separator" -> [s EXCEPT !.table = TRUE]
          [] l[1] = "row" -> [s EXCEPT !.table = TRUE, !.rows = Append(@, l)]
          [] OTHER -> [out |-> s.out \o (IF s.table THEN block(s.rows) ELSE <<>>) \o <<l>>,
                       table |-> FALSE, rows |-> <<>>]
      end == FoldLeft(step, [out |-> <<>>, table |-> FALSE, rows |-> <<>>], lines)
  IN IF end.rows # <<>> THEN end.out \o block(end.rows) ELSE end.out

-----------------------------------------------------------------------------
(* What the results mean.                                                   *)

EscapedText(text) == [i \in 1..Len(text) |-> EscapedAtom(text[i])]

\* What the conversion changes once HTML is out of it: an odd number of fences,
\* three or more, and a Slack token inside code.
OddFences(text) == Len(Parts(text)) > 2 /\ Len(Parts(text)) % 2 = 0

TokenInCode(text) ==
  LET blocks == TakeBlocks(TakeTokens(text).text)
      inline == TakeInline(blocks.text)
  IN \E s \in {blocks.saved[i] : i \in 1..Len(blocks.saved)} \cup
               {inline.saved[i] : i \in 1..Len(inline.saved)} :
       \E i \in 1..Len(s) : s[i][1] = "ST"

\* HTML is changed wherever it stands, code included, and nothing but its tags.
\* Of the Markdown that results, whatever fences, backticks, tags and tokens it
\* mixes, in whatever order, all that was taken out comes back once, in its
\* place and unchanged.
CodeAndTokensComeBack(text) ==
  LET markdown == HtmlToMarkdown(text) IN
  /\ Len(markdown) = Len(text)
  /\ \A i \in 1..Len(text) : text[i][1] \notin {"break", "open", "close"} => markdown[i] = text[i]
  /\ ~OddFences(markdown) /\ ~TokenInCode(markdown) => Convert(text) = EscapedText(markdown)

Without(lines, dropped) ==
  FoldLeft(LAMBDA out, l : IF l \in dropped THEN out ELSE Append(out, l), <<>>, lines)

\* Tables keep their rows and the text around them its lines, in order, and
\* the rows are exactly what stands between the fences of a pair.
TableRowsComeBack(lines) ==
  LET out == ConvertTables(lines)
      fences(n) == Cardinality({i \in 1..n : out[i] = FenceLine})
  IN
  /\ Without(out, {FenceLine}) =
       Without(lines, {l \in Range(lines) : l[1] = "separator"})
  /\ \A i \in 1..Len(out) :
       out[i] # FenceLine => (out[i][1] = "row" <=> fences(i) % 2 = 1)
  /\ fences(Len(out)) % 2 = 0
=============================================================================
