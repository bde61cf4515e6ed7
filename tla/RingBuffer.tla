----------------------------- MODULE RingBuffer ------------------------------
(***************************************************************************)
(* The ring buffer that keeps the last lines of the output of a background *)
(* process (core/features/bg/ring-buffer.ts). Lines are told apart by      *)
(* their number; the split of a chunk into lines is left out.              *)
(***************************************************************************)
EXTENDS Integers, Sequences

CONSTANTS
  Capacity,       \* RingBuffer.capacity
  MaxLines        \* bound on the lines that are pushed

ASSUME RingAssumption == Capacity \in Nat \ {0} /\ MaxLines \in Nat

VARIABLES
  buffer, head, count,
  pushed          \* every line since the last clear()

ringVars == <<buffer, head, count, pushed>>

\* Mutation: the head runs past the last cell.
NextCell_NoWrap(cell) == cell + 1

NextCell(cell) == (cell + 1) % Capacity

\* push() of one line.
Push ==
  /\ Len(pushed) < MaxLines
  /\ LET line == Len(pushed) + 1 IN
     /\ buffer' = [buffer EXCEPT ![head] = line]
     /\ pushed' = Append(pushed, line)
  /\ head' = NextCell(head)
  /\ count' = IF count < Capacity THEN count + 1 ELSE count

\* clear()
ClearRing ==
  /\ pushed # <<>>
  /\ head' = 0 /\ count' = 0 /\ pushed' = <<>>
  /\ UNCHANGED buffer

Least(m, n) == IF m < n THEN m ELSE n

\* Mutation: the oldest line is taken to be in the first cell.
GetLines_NoWrap(n) ==
  LET total == Least(n, count)
  IN [i \in 1..total |-> buffer[(count - total + i - 1) % Capacity]]

\* getLines(n)
GetLines(n) ==
  LET total == Least(n, count)
      start == (head - count + Capacity) % Capacity
  IN [i \in 1..total |-> buffer[(start + (count - total) + i - 1) % Capacity]]

-----------------------------------------------------------------------------

RingInit ==
  /\ buffer = [i \in 0..(Capacity - 1) |-> 0]
  /\ head = 0 /\ count = 0
  /\ pushed = <<>>

RingNext == Push \/ ClearRing

RingSpec == RingInit /\ [][RingNext]_ringVars

-----------------------------------------------------------------------------

RingTypeOK ==
  /\ buffer \in [0..(Capacity - 1) -> 0..MaxLines]
  /\ head \in 0..(Capacity - 1) /\ count \in 0..Capacity
  /\ pushed \in Seq(1..MaxLines)

\* The buffer gives the last lines that were pushed, in their order.
KeepsTheLastLines ==
  \A n \in 0..(Capacity + 1) :
    LET m == Least(n, Least(Len(pushed), Capacity))
    IN GetLines(n) = SubSeq(pushed, Len(pushed) - m + 1, Len(pushed))

\* The cell that was filled j pushes ago, and what makes KeepsTheLastLines
\* inductive: the cells that are counted hold the last lines.
Behind(j) == IF j <= head THEN head - j ELSE head - j + Capacity

RingInv ==
  /\ RingTypeOK
  /\ count = Least(Len(pushed), Capacity)
  /\ \A j \in 1..count : buffer[Behind(j)] = pushed[Len(pushed) + 1 - j]

=============================================================================
