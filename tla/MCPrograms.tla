------------------------------ MODULE MCPrograms ------------------------------
(***************************************************************************)
(* The smaller programs in one instance for TLC: the initial state is that *)
(* of the chosen program with any of its small inputs; the others rest.    *)
(***************************************************************************)
EXTENDS Syscall, Disk, LotteryTest, Uniq, ShellParser

VARIABLE program

-----------------------------------------------------------------------------
\* The state of each program while another one runs.
SyscallRests == sz = 1 /\ mapped = 0 /\ touched = {}
ParserRests ==
  /\ buf = <<>> /\ ps = 1 /\ cmd = execcmd /\ stages = <<>>
  /\ parser_pc = "exit" /\ msg = "none"
UniqRests ==
  /\ text = <<>> /\ offset = 1 /\ show_count = 0 /\ duplicate = 0 /\ ignore = 0
  /\ last_line = <<>> /\ dupe_count = 1 /\ dupe_found = FALSE
  /\ output = <<>> /\ uniq_pc = "empty"
DiskRests ==
  /\ file = 0 /\ writable = TRUE /\ root = TRUE /\ prog = "run" /\ mode = "r"
  /\ block_size = 0 /\ block_count = 0 /\ num_threads = 0 /\ fd = FALSE
  /\ pos = 0 /\ count = 0 /\ xor = {} /\ pc = "exit" /\ runs = MAXRUNS
  /\ tpc = [t \in Threads |-> "none"]
  /\ tcount = [t \in Threads |-> 0] /\ txor = [t \in Threads |-> {}]
TestRests ==
  /\ status = [s \in Slots |-> "free"] /\ par = [s \in Slots |-> Null]
  /\ at = "gone"

AnyInit ==
  /\ program \in {"syscall", "parser", "uniq", "disk", "lotterytest"}
  /\ IF program = "syscall" THEN Init ELSE SyscallRests
  /\ IF program = "parser" THEN ParserInit ELSE ParserRests
  /\ IF program = "uniq" THEN UniqInit ELSE UniqRests
  /\ IF program = "disk" THEN DiskInit ELSE DiskRests
  /\ IF program = "lotterytest" THEN TestInit ELSE TestRests

AnyNext ==
  /\ UNCHANGED program
  /\ \/ /\ program = "syscall" /\ Next
        /\ UNCHANGED <<parserVars, uniqVars, diskVars, testVars>>
     \/ /\ program = "parser" /\ ParserNext
        /\ UNCHANGED <<vars, uniqVars, diskVars, testVars>>
     \/ /\ program = "uniq" /\ UniqNext
        /\ UNCHANGED <<vars, parserVars, diskVars, testVars>>
     \/ /\ program = "disk" /\ DiskNext
        /\ UNCHANGED <<vars, parserVars, uniqVars, testVars>>
     \/ /\ program = "lotterytest" /\ TestNext
        /\ UNCHANGED <<vars, parserVars, uniqVars, diskVars>>

AnySpec ==
  /\ AnyInit
  /\ [][AnyNext]_<<program, vars, parserVars, uniqVars, diskVars, testVars>>
  /\ DiskFairness /\ TestFairness
=============================================================================
