---------------------------- MODULE MCArithmetic ----------------------------
(***************************************************************************)
(* The parts of the data path that compute: the two units (MulDiv), decode *)
(* to write-back (Exec) and the byte lanes (Lanes).  They share no         *)
(* register, so each is explored by itself, on words of four bits.         *)
(***************************************************************************)
EXTENDS MulDiv, Exec, Bytes

\* Words with two-bit halves: the operands of decode to write-back have all
\* sign and carry cases of both widths, the pc is one that pc + 4 carries out
\* of.  The units take all operands.
MCOperands == {0, 1, 2, 3, 7, 8, 10, 15}
MCPcs == {12}

VARIABLES
  part,                      \* the part explored
  cell, reg                  \* of Lanes

laneVars == <<cell, reg>>

Row == INSTANCE Lanes

\* A part that is not explored stays in one of its initial states.
MCInit ==
  /\ part \in {"exec", "units", "lanes"}
  /\ IF part = "exec" THEN ExecInit
     ELSE /\ enc = [op |-> "none", f3 |-> 0, f7 |-> 0]
          /\ rfq1 = 0 /\ rfq2 = 0 /\ imm = 0 /\ pc = 12
          /\ m2reg = 0 /\ branch = FALSE
  /\ Init
  /\ part # "units" => unit = "mul"
  /\ IF part = "lanes" THEN Row!Init
     ELSE cell = [l \in Lane |-> 0] /\ reg = [l \in Lane |-> 0]

PathNext == part = "exec" /\ ExecNext /\ UNCHANGED <<part, vars, laneVars>>
UnitsNext == part = "units" /\ Next /\ UNCHANGED <<part, execVars, laneVars>>
LanesNext == part = "lanes" /\ Row!Next /\ UNCHANGED <<part, vars, execVars>>

MCNext == PathNext \/ UnitsNext \/ LanesNext

MCSpec == MCInit /\ [][MCNext]_<<part, vars, execVars, laneVars>>
                 /\ WF_<<part, vars, execVars, laneVars>>(UnitsNext)

-----------------------------------------------------------------------------
\* rd.sv and wd.sv show a program a row of bytes (see Lanes).
SeesBytes == Row!SeesBytes
=============================================================================
