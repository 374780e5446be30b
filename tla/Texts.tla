-------------------------------- MODULE Texts --------------------------------
(***************************************************************************)
(* Programs that read a format: the UTF-8 counter of 02_c_basics/4,        *)
(* normalize_path of 09_filesystem/2, the lists in a file of 08_file_io/1, *)
(* 08_file_io/3 and 10_mmap/1, the packets of 18_udp/2.                    *)
(***************************************************************************)
EXTENDS Integers, Sequences, SequencesExt

(* 02_c_basics/4.  A byte is known by its leading bits: "ascii" 0, "cont"  *)
(* 10, "two" 110, "three" 1110, "four" 1111, and 0xFF, which as a char is  *)
(* EOF.                                                                    *)
Leads == {"two", "three", "four", "EOF"}
(* The last test is no "else": it holds of every leading byte.             *)
Length(sym) ==
  LET length == CASE sym = "four" -> 3 [] sym = "three" -> 2 [] OTHER -> 0
  IN IF sym \in Leads THEN 1 ELSE length

(* owed: the bytes that the inner loop has still to read.                  *)
Getchar(s, sym) ==
  CASE s.ends -> s
    [] ~s.ends /\ s.owed > 0 ->
         IF sym = "cont" THEN [s EXCEPT !.owed = @ - 1, !.unread = IF s.owed = 1 THEN @ + 1 ELSE @]
         ELSE [s EXCEPT !.ends = TRUE, !.code = 1]
    [] ~s.ends /\ s.owed = 0 ->
         CASE sym = "EOF" -> [s EXCEPT !.ends = TRUE]
           [] sym = "ascii" -> [s EXCEPT !.read = @ + 1]
           [] OTHER -> [s EXCEPT !.owed = Length(sym)]
count_symbols(text) ==
  FoldLeft(Getchar, [read |-> 0, unread |-> 0, owed |-> 0, ends |-> FALSE, code |-> 0],
           Append(text, "EOF"))

(* Bytes of a symbol that begins with sym.                                 *)
Extra == [ascii |-> 0, two |-> 1, three |-> 2, four |-> 3]
Encode(symbols) == FlattenSeq([k \in DOMAIN symbols |->
                     <<symbols[k]>> \o [x \in 1..Extra[symbols[k]] |-> "cont"]])
Count(symbols, ascii) == Len(SelectSeq(symbols, LAMBDA sym : (sym = "ascii") = ascii))

(* The symbols that are whole before the cut, and the bytes of the next.   *)
Whole(symbols, cut) ==
  LET fits == {k \in 0..Len(symbols) : Len(Encode(SubSeq(symbols, 1, k))) <= cut}
  IN SubSeq(symbols, 1, CHOOSE k \in fits : \A j \in fits : j <= k)
Inside(symbols, cut) == cut - Len(Encode(Whole(symbols, cut)))
Counted(symbols, cut) == count_symbols(SubSeq(Encode(symbols), 1, cut))

(* A text that ends with a symbol is counted and not reported; one that is *)
(* cut behind a leading byte is counted up to the symbol, and reported.    *)
(* Of a later cut nothing is said here: it may give code 0 and a symbol    *)
(* too many, where problem.md:10-11 asks for code 1 and the counts so far. *)
CountIsRight(symbols, cut) ==
  LET s == Counted(symbols, cut)
      whole == Whole(symbols, cut)
      inside == Inside(symbols, cut)
  IN inside <= 1 => /\ s.read = Count(whole, TRUE) /\ s.unread = Count(whole, FALSE)
                    /\ s.code = inside

-----------------------------------------------------------------------------
(* 09_filesystem/2: normalize_path(path), in place: read and write are     *)
(* positions in the path, prev is that of the last "/" before a name.  A   *)
(* path that ends in "../" is left out: there the loop steps over the NUL. *)
At(s, k) == IF s.read + k > Len(s.path) THEN "NUL" ELSE s.path[s.read + k]
IsUp(s) == At(s, 0) = "." /\ At(s, 1) = "." /\ At(s, 2) = "/"
UpToStart(s) == IF IsUp(s) THEN [s EXCEPT !.read = @ + 3, !.write = 1] ELSE s
Up(s) == IF IsUp(s) THEN [s EXCEPT !.read = @ + 3, !.write = s.prev + 1] ELSE s
Slash(s) == IF At(s, 0) = "/" /\ At(s, 1) # "." THEN [s EXCEPT !.prev = s.read] ELSE s
Copy(s) == [s EXCEPT !.path[s.write] = At(s, 0), !.read = @ + 1, !.write = @ + 1]
Turn(s) ==
  CASE At(s, 0) = "/" /\ At(s, 1) = "/" -> [s EXCEPT !.read = @ + 1]
    [] At(s, 0) = "." /\ At(s, 1) = "/" -> [s EXCEPT !.read = @ + 2]
    [] At(s, 0) = "NUL" -> s
    [] OTHER -> Copy(Slash(Up(s)))
normalize_path(path) ==
  LET at[k \in 0..Len(path)] ==
        IF k = 0 THEN [path |-> path, read |-> 1, write |-> 1, prev |-> 0] ELSE Turn(at[k - 1])
      end == at[Len(path)]
  IN SubSeq(end.path, 1, end.write - 1)

(* A path is written from its parts: names, "." and "", and "..".          *)
Letters(part) == CASE part = "" -> <<>> [] part = "." -> <<".">> [] part = ".." -> <<".", ".">>
                   [] OTHER -> <<part, "x">>
Written(parts, absolute) ==
  LET path == FlattenSeq([k \in DOMAIN parts |-> <<"/">> \o Letters(parts[k])])
  IN IF absolute THEN path ELSE Tail(path)
Canonical(parts) ==
  FoldLeft(LAMBDA names, part : CASE part \in {"", "."} -> names
                                  [] part = ".." -> Front(names)
                                  [] OTHER -> Append(names, part), <<>>, parts)
(* A path comes out canonical where its one "../" stands between names     *)
(* with nothing taken out before it, and no "/" is doubled after "./".     *)
(* prev, a position in the path as it was, cannot tell more, and what      *)
(* follows "./" and "../" is copied without the tests: problem.md:15 asks  *)
(* for every "./" and "../".                                               *)
IsName(part) == part \notin {"", ".", ".."}
PathIsRight(parts, absolute) ==
  (/\ parts # <<>> /\ IsName(parts[1]) /\ IsName(Last(parts))
   /\ \A k \in 1..Len(parts) - 1 :
        /\ parts[k] = ".." => IsName(parts[k + 1]) /\ \A j \in 1..k - 1 : IsName(parts[j])
        /\ parts[k] = "." => parts[k + 1] # "") =>
  normalize_path(Written(parts, absolute)) = Written(Canonical(parts), absolute)

-----------------------------------------------------------------------------
(* The lists: an item is <<value, next_pointer>>, at a byte of the file.   *)
ReadItem(file, next_pointer) == file[next_pointer]
Word(file, w) == IF 4 * w \in DOMAIN file THEN file[4 * w][1] ELSE file[4 * w - 4][2]
MappedItem(file, next_pointer) ==
  LET cur == next_pointer \div 4 IN <<Word(file, cur), Word(file, cur + 1)>>
Execute(items) ==
  LET from[p \in DOMAIN items] ==
        LET i == items[p] IN IF i[2] = 0 THEN <<i[1]>> ELSE <<i[1]>> \o from[i[2]]
  IN IF DOMAIN items = {} THEN <<>> ELSE from[0]

(* Values stored at these places, the first at 0, are printed in order.    *)
Store(values, places) ==
  [p \in {places[k] : k \in DOMAIN places} |->
     LET k == CHOOSE j \in DOMAIN places : places[j] = p
     IN <<values[k], IF k = Len(values) THEN 0 ELSE places[k + 1]>>]
ListIsRight(values, places) ==
  LET file == Store(values, places)
  IN /\ Execute([p \in DOMAIN file |-> ReadItem(file, p)]) = values
     /\ Execute([p \in DOMAIN file |-> MappedItem(file, p)]) = values

-----------------------------------------------------------------------------
(* 18_udp/2: ChangeToDnsNameFormat(dns, host), write_package, GetIp.       *)
Dot == 46
ChangeToDnsNameFormat(host) ==
  LET h == Append(host, Dot)
      label(s, i) == IF h[i] # Dot THEN s
                     ELSE [lock |-> i + 1, dns |-> s.dns \o <<i - s.lock>> \o SubSeq(h, s.lock, i - 1)]
  IN Append(FoldLeft(label, [lock |-> 1, dns |-> <<>>], [i \in DOMAIN h |-> i]).dns, 0)
write_package(host) ==
  <<0, 0, 0, 1, 0, 1, 0, 0, 0, 0, 0, 0>> \o ChangeToDnsNameFormat(host) \o <<0, 1, 0, 1>>

Number16(package, at) == 256 * package[at + 1] + package[at + 2]
GetIp(package, size_sent) ==
  LET pointer[i \in 0..Number16(package, 6)] ==
        IF i = 0 THEN size_sent ELSE pointer[i - 1] + 12 + Number16(package, pointer[i - 1] + 10)
      end == pointer[Number16(package, 6)]
  IN SubSeq(package, end - 3, end)

(* A name server reads the labels back, and answers with the question and  *)
(* records of any length, the last of them an address of four bytes.       *)
Labels(dns, at) ==
  LET from[p \in DOMAIN dns] ==
        IF dns[p] = 0 THEN <<>> ELSE <<SubSeq(dns, p + 1, p + dns[p])>> \o from[p + dns[p] + 1]
  IN from[at]
Record(length) == <<192, 12, 0, 1, 0, 1, 0, 0, 0, 9, 0, length>> \o [x \in 1..length |-> length * 10 + x]
Response(question, lengths) ==
  [question EXCEPT ![8] = Len(lengths)] \o FlattenSeq([k \in DOMAIN lengths |-> Record(lengths[k])])
LookupIsRight(labels, lengths) ==
  LET host == Tail(FlattenSeq([k \in DOMAIN labels |-> <<Dot>> \o labels[k]]))
      question == write_package(host)
  IN /\ Labels(question, 13) = labels
     /\ GetIp(Response(question, Append(lengths, 4)), Len(question)) = <<41, 42, 43, 44>>
=============================================================================
