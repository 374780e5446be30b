-------------------------------- MODULE Files --------------------------------
(***************************************************************************)
(* Programs that look for something in a text: 07_syscalls/3, 10_mmap/0    *)
(* and 20_http/2.                                                          *)
(***************************************************************************)
EXTENDS Integers, Sequences, SequencesExt

(* 07_syscalls/3: the text is read into memory that brk makes larger; each *)
(* read returns some of the to_read bytes it asked for.                    *)
Empty == [size |-> 0, capacity |-> 1, to_read |-> 1]
ReadSome(m, rax) ==
  LET n == [m EXCEPT !.size = @ + rax, !.to_read = @ - rax]
  IN IF n.size = n.capacity THEN [n EXCEPT !.capacity = 2 * @, !.to_read = m.capacity] ELSE n

(* check_for_NL_sym: the last line gets the line break it may lack.        *)
WithNewLine(text) ==
  IF text # <<>> /\ Last(text) # "NL" THEN Append(text, "NL") ELSE text

(* start_print: from the end back to a line break, whose next line is then *)
(* written; the first line has none in front of it.  adress is to_read     *)
(* bytes behind the beginning.                                             *)
reverse_lines(text) ==
  LET from[to_read \in 0..Len(text), line_len \in 1..Len(text)] ==
        IF to_read = 0 THEN <<SubSeq(text, 1, line_len)>>
        ELSE IF text[to_read] = "NL"
        THEN <<SubSeq(text, to_read + 1, to_read + line_len)>> \o from[to_read - 1, 1]
        ELSE from[to_read - 1, line_len + 1]
  IN IF text = <<>> THEN <<>> ELSE from[Len(text) - 1, 1]

(* What is written are the lines, each whole, the last one first; memory   *)
(* ends where the next read may, and there is always room for it.          *)
ReverseIsRight(text, counts) ==
  LET out == reverse_lines(WithNewLine(text))
      memory == FoldLeft(LAMBDA m, c : ReadSome(m, IF c < m.to_read THEN c ELSE m.to_read), Empty, counts)
  IN /\ FlattenSeq(Reverse(out)) = WithNewLine(text)
     /\ \A k \in DOMAIN out : \A i \in DOMAIN out[k] : out[k][i] = "NL" <=> i = Len(out[k])
     /\ memory.size + memory.to_read = memory.capacity /\ memory.to_read > 0

-----------------------------------------------------------------------------
(* 10_mmap/0: memmem(entry, size, needle), again from behind every find.   *)
(* A needle is not empty: an empty one is found behind the file, too.      *)
Occurs(file, needle, at) == SubSeq(file, at + 1, at + Len(needle)) = needle
memmem(file, entry, size, needle) ==
  {at \in entry..entry + size - Len(needle) : Occurs(file, needle, at)}

find_all(file, needle) ==
  LET from[entry \in 0..Len(file) + 1] ==
        LET found == memmem(file, entry, Len(file) - entry, needle)
        IN IF found = {} THEN <<>>
           ELSE LET diff == CHOOSE at \in found : \A other \in found : at <= other
                IN <<diff>> \o from[diff + 1]
  IN from[0]

(* Every place is found, overlapping ones too, each once and in order.     *)
FindIsRight(file, needle) ==
  LET out == find_all(file, needle) IN
  /\ \A i, j \in DOMAIN out : i < j => out[i] < out[j]
  /\ \A at \in 0..Len(file) - Len(needle) :
       Occurs(file, needle, at) <=> \E i \in DOMAIN out : out[i] = at

-----------------------------------------------------------------------------
(* 20_http/2: every chunk of the page is copied to the beginning of the    *)
(* buffer, over the one before.                                            *)
callback_function(data, ptr) ==
  [i \in 1..(IF Len(data) > Len(ptr) THEN Len(data) ELSE Len(ptr)) |->
     IF i <= Len(ptr) THEN ptr[i] ELSE data[i]]

strstr(data, tag) ==
  LET found == {i \in DOMAIN data : data[i] = tag}
  IN IF found = {} THEN 0 ELSE CHOOSE i \in found : \A j \in found : i <= j

(* A tag that is missing gives an address near 0, which is not that of the *)
(* other one: write() fails on it, and the capital tags are not tried.     *)
print_title(data) ==
  LET between(start, end) == IF start # 0 /\ end > start THEN SubSeq(data, start + 1, end - 1) ELSE <<>>
      start == strstr(data, "<title>")
      end == strstr(data, "</title>")
  IN IF start # 0 /\ end = start + 1
     THEN between(strstr(data, "<TITLE>"), strstr(data, "</TITLE>"))
     ELSE between(start, end)

(* The title of a page that comes in one piece is printed, and of a longer *)
(* one if the last piece holds all of it.  problem.md:5-6 asks for the     *)
(* title of any page.                                                      *)
TitleIsRight(chunks) ==
  LET data == FoldLeft(callback_function, <<>>, chunks)
      page == IF chunks = <<>> THEN <<>> ELSE Last(chunks)
  IN \A i, j \in DOMAIN page :
       (/\ page[i] = "<title>" /\ page[j] = "</title>" /\ i + 1 < j
        /\ \A m \in 1..j - 1 : page[m] \notin {"<title>", "</title>"} \/ m = i)
       => print_title(data) = SubSeq(page, i + 1, j - 1)
=============================================================================
