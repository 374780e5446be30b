-------------------------------- MODULE PyDbg --------------------------------
(***************************************************************************)
(* The debugger of 24_python_modules/3: a script of commands consumed by   *)
(* the events of the interpreter.  A program is the sequence of its lines, *)
(* each the number of lines of the function it calls, 0 if it calls none.  *)
(***************************************************************************)
EXTENDS Integers, Sequences, FiniteSets, SequencesExt

(* The interpreter, traced: a line is reported before it is run.           *)
Body(lines) == <<"call">> \o [x \in 1..lines |-> "body"] \o <<"return">>
Events(program) ==
  <<"call">> \o FlattenSeq([k \in DOMAIN program |->
                  <<"line">> \o IF program[k] = 0 THEN <<>> ELSE Body(program[k])]) \o <<"return">>

(* Process(lines): what follows "continue" is dropped.                     *)
Process(lines) ==
  LET ends == {k \in DOMAIN lines : lines[k] = "continue"}
  IN IF ends = {} THEN lines ELSE SubSeq(lines, 1, (CHOOSE k \in ends : \A j \in ends : k <= j) - 1)

(* The first command is asked for where there may be none: that ends the   *)
(* debugger, with a null pointer.                                          *)
Action(s, command) == s.state # <<>> /\ Head(s.state) = command
Asks(s) == IF s.state = <<>> THEN [s EXCEPT !.crashed = TRUE] ELSE s
Pop(s) == [s EXCEPT !.state = IF @ = <<>> THEN @ ELSE Tail(@)]
PrintExpr(s, now) == [Pop(s) EXCEPT !.printed = Append(@, now)]

EveryCall(s) ==
  IF Action(s, "step") THEN [Pop(s) EXCEPT !.calls_count = @ + 1, !.entries_count = 1]
  ELSE [s EXCEPT !.entries_count = 1]
CallTrace(s) ==
  CASE s.first_call = 0 -> [s EXCEPT !.first_call = 1]
    [] s.first_call = 1 /\ Action(s, "step") -> [Pop(s) EXCEPT !.calls_count = @ + 1, !.entries_count = 1]
    [] OTHER -> [s EXCEPT !.entries_count = 1]

LineTrace(s, now) ==
  IF s.entries_count = 0 /\ s.calls_count = 0 /\ Action(s, "next") THEN Pop(s)
  ELSE LET t == IF s.entries_count = 1 /\ s.calls_count = 1 /\ Action(s, "next") THEN Pop(s) ELSE s
       IN IF Action(t, "print") THEN PrintExpr(t, now) ELSE Asks(t)

ReturnTrace(s, now) ==
  LET t == IF s.entries_count = 1 /\ s.calls_count = 0 THEN [s EXCEPT !.entries_count = 0] ELSE s
      u == [Pop(t) EXCEPT !.entries_count = 0, !.calls_count = @ - 1]
      v == IF Action(u, "print") THEN PrintExpr(u, now) ELSE Asks(u)
  IN IF ~(t.entries_count = 1 /\ t.calls_count > 0 /\ Action(t, "next")) THEN t
     ELSE IF u.calls_count # 0 THEN u
     ELSE IF Action(v, "next") THEN Pop(v) ELSE Asks(v)

Trace(s, now, what) ==
  CASE s.state = <<>> \/ s.crashed -> s
    [] what = "call" -> CallTrace(s)
    [] what \in {"line", "body"} -> LineTrace(s, now)
    [] what = "return" -> ReturnTrace(s, now)

(* printed: the events at which the values were printed.                   *)
Debug(program, script) ==
  LET events == Events(program)
      before == [state |-> Process(script), first_call |-> 0, entries_count |-> 0, calls_count |-> 0,
                 printed |-> <<>>, crashed |-> FALSE]
  IN FoldLeft(LAMBDA s, now : Trace(s, now, events[now]), before, [k \in DOMAIN events |-> k])

-----------------------------------------------------------------------------
LineAt(program, n) ==
  LET events == Events(program)
  IN CHOOSE k \in DOMAIN events : events[k] = "line" /\ Cardinality({j \in 1..k : events[j] = "line"}) = n

(* Up to the first line that calls a function, the first value is printed  *)
(* where the script says, before the line that no "next" has passed; or at *)
(* the first line of the function, when a "step" enters it.  Nothing after *)
(* "continue" is printed.  The null pointer is met only by a script that   *)
(* has a "next" after a "step", in a program that calls a function;        *)
(* problem.md:7-11 allows any order of commands.                           *)
DebuggerIsRight(program, script) ==
  LET s == Debug(program, script)
      commands == Process(script)
      plain(m) == m < Len(program) /\ \A k \in 1..m : program[k] = 0 /\ commands[k] = "next"
  IN /\ \A m \in 0..Len(commands) - 1 : plain(m) =>
          /\ commands[m + 1] = "print" => s.printed # <<>> /\ s.printed[1] = LineAt(program, m + 1)
          /\ (SubSeq(commands, m + 1, Len(commands)) = <<"step", "print">> /\ program[m + 1] > 0) =>
                s.printed = <<LineAt(program, m + 1) + 2>>
     /\ Len(s.printed) <= Len(SelectSeq(commands, LAMBDA c : c = "print"))
     /\ s.crashed => /\ \E k \in DOMAIN program : program[k] > 0
                     /\ \E j, k \in DOMAIN commands : j < k /\ commands[j] = "step" /\ commands[k] = "next"
=============================================================================
