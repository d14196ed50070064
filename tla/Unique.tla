------------------------------- MODULE Unique -------------------------------
(***************************************************************************)
(* unique.c: a received frame whose sequence number is the last one of its *)
(* source is dropped.  Everything else, and every transmission, passes.    *)
(***************************************************************************)
EXTENDS Lpl

CONSTANT Faults        \* what may go wrong around the driver

ASSUME UniqueAssumption == Faults \subseteq {"nomem", "signal", "efault"}

VARIABLES
  nodes,        \* for each source its last sequence number
  passed,       \* frames that have reached unique.c, and the delivery each became
  delivered     \* frames handed to the device, and whether their source has an entry

uniqueVars == <<nodes, passed, delivered>>

Unknown == -1   \* a source without a list entry

\* For each frame what the driver takes for its source
SrcOf == [f \in 1..Len(Frames) |-> get_src(RxBuf[f])]
Srcs  == { SrcOf[f] : f \in 1..Len(Frames) }

UniqueTypeOK ==
  /\ nodes \in [Srcs -> Nat \cup {Unknown}]
  /\ passed \in Seq([frame : 1..Len(Frames), up : Nat])
  /\ delivered \in Seq([frame : 1..Len(Frames), kept : BOOLEAN])

UniqueInit ==
  /\ nodes = [s \in Srcs |-> Unknown]
  /\ passed = <<>>
  /\ delivered = <<>>

\* The frame goes no further
Drop(c) ==
  /\ passed' = Append(passed, [frame |-> Arg(c), up |-> 0])
  /\ Return(c)
  /\ UNCHANGED <<nodes, delivered>>

\* The frame is handed up as the number of its delivery
HandUp(c, kept) ==
  /\ passed' = Append(passed, [frame |-> Arg(c), up |-> Len(delivered) + 1])
  /\ delivered' = Append(delivered, [frame |-> Arg(c), kept |-> kept])
  /\ Then(c, <<Frame("interface_rx_done", Len(delivered) + 1)>>)

\* Mutant of unique_rx_done: the number of a known source is not updated
unique_rx_done_noUpdate(c) ==
  /\ At(c, "unique_rx_done")
  /\ LET src == SrcOf[Arg(c)]
         dsn == RxBuf[Arg(c)].dsn IN
       \/ nodes[src] = dsn /\ Drop(c)
       \/ /\ nodes[src] # dsn
          /\ nodes' = [nodes EXCEPT ![src] = IF @ = Unknown THEN dsn ELSE @]
          /\ HandUp(c, TRUE)
  /\ UNCHANGED armed

\* A new source gets no entry when memory is short
unique_rx_done(c) ==
  /\ At(c, "unique_rx_done")
  /\ LET src == SrcOf[Arg(c)]
         dsn == RxBuf[Arg(c)].dsn IN
       \/ nodes[src] = dsn /\ Drop(c)
       \/ /\ nodes[src] # dsn
          /\ nodes' = [nodes EXCEPT ![src] = dsn]
          /\ HandUp(c, TRUE)
       \/ /\ nodes[src] = Unknown /\ "nomem" \in Faults
          /\ HandUp(c, FALSE)
          /\ UNCHANGED nodes
  /\ UNCHANGED armed
=============================================================================
