------------------------------- MODULE Syscall -------------------------------
(***************************************************************************)
(* syscall() of syscall.c with the functions that fetch a call's arguments *)
(* from user memory, and sbrk() with growproc(), which changes the size    *)
(* that they check against.  Addresses are unsigned ints modulo twice      *)
(* KERNBASE.  The user's registers and the contents of its memory are      *)
(* arbitrary.  Each action is one system call of the current process.      *)
(***************************************************************************)
EXTENDS Integers

CONSTANTS
  KERNBASE,      \* the end of user memory, 2^31 in xv6
  PGSIZE,        \* bytes in a page
  INT,           \* sizeof(int), reduced
  RTCDATE        \* sizeof(struct rtcdate), reduced

ASSUME SyscallAssumption ==
  /\ KERNBASE \in Nat /\ PGSIZE \in 1..(KERNBASE - 1)
  /\ INT \in 1..KERNBASE /\ RTCDATE \in 1..KERNBASE

VARIABLES
  sz,            \* proc->sz
  mapped,        \* the bytes of user memory that have a page, from 0 on
  touched        \* the user addresses that the last system call accessed

vars == <<sz, mapped, touched>>

Word    == 0..(2 * KERNBASE - 1)
Uint_Signed(x) == x
Uint(x) == x % (2 * KERNBASE)
AsInt(x) == IF x < KERNBASE THEN x ELSE x - 2 * KERNBASE

Bytes(addr, n) == {Uint(addr + k) : k \in 0..(n - 1)}
PGROUNDUP(x) == ((x + PGSIZE - 1) \div PGSIZE) * PGSIZE

\* userinit(): the first process has one page.
Init == sz = PGSIZE /\ mapped = PGSIZE /\ touched = {}

-----------------------------------------------------------------------------
\* The bounds check of fetchint() and of argptr(): n bytes at addr.
Inside_EndOnly(addr, n) == Uint(addr + n) <= sz
Inside(addr, n) == addr < sz /\ Uint(addr + n) <= sz

\* argint(): where the argument n is, and what fetchint() accesses to read it.
ArgAddr(esp, n) == Uint(esp + INT + INT * n)
ArgFetched(esp, n) == Inside(ArgAddr(esp, n), INT)
ArgBytes(esp, n) == Bytes(ArgAddr(esp, n), INT)

\* fetchstr(): the bytes from s on that it looks at, when the first zero byte
\* is at address z.
StringBytes(s, z) == IF s < sz THEN {a \in s..(sz - 1) : a <= z} ELSE {}

\* The instruction of a system call can be executed only while there is memory.
Running == mapped > 0

\* syscall() with a number that is not in the table, or whose handler reads no
\* argument.
NoArgument == Running /\ touched' = {} /\ UNCHANGED <<sz, mapped>>

\* sys_kill(), sys_sleep() and sys_settickets(): argint(0) with stack esp.
Argint(esp) ==
  /\ Running
  /\ touched' = IF ArgFetched(esp, 0) THEN ArgBytes(esp, 0) ELSE {}
  /\ UNCHANGED <<sz, mapped>>

\* sys_gettime(): the argument is the pointer p, and cmostime() writes there.
SysGettime(esp, p) ==
  /\ Running
  /\ touched' = IF ~ArgFetched(esp, 0) THEN {}
                ELSE ArgBytes(esp, 0) \cup
                     (IF Inside(p, RTCDATE) THEN Bytes(p, RTCDATE) ELSE {})
  /\ UNCHANGED <<sz, mapped>>

\* A call whose nth argument is the string s: argstr() and fetchstr().
Argstr(esp, n, s, z) ==
  /\ Running
  /\ touched' = IF ArgFetched(esp, n)
                THEN ArgBytes(esp, n) \cup StringBytes(s, z) ELSE {}
  /\ UNCHANGED <<sz, mapped>>

\* allocuvm() and deallocuvm(): the size that they return, 0 for a failure,
\* and the memory they leave; allocuvm() may run out of pages.
allocuvm(newsz) ==
  {<<0, mapped>>} \cup
  (IF newsz >= KERNBASE THEN {} ELSE {<<newsz, PGROUNDUP(newsz)>>})
deallocuvm(newsz) ==
  {IF newsz >= sz THEN <<sz, mapped>> ELSE <<newsz, PGROUNDUP(newsz)>>}

\* growproc(): a result of 0 leaves the old size, also when deallocuvm() has
\* freed everything.  What it returns, and the reload of the page table by
\* switchuvm(), make no difference to the addresses that are checked.
SizeAfter_Untested(r) == r
SizeAfter(r) == IF r = 0 THEN sz ELSE r
growproc(n) ==
  \E r \in CASE n > 0 -> allocuvm(Uint(sz + n))
             [] n < 0 -> deallocuvm(Uint(sz + n))
             [] OTHER -> {<<sz, mapped>>} :
    sz' = SizeAfter(r[1]) /\ mapped' = r[2]

\* sys_sbrk() with the argument n.
SysSbrk(esp, n) ==
  /\ Running
  /\ IF ArgFetched(esp, 0) THEN growproc(AsInt(n)) /\ touched' = ArgBytes(esp, 0)
                           ELSE touched' = {} /\ UNCHANGED <<sz, mapped>>

\* Without memory the process faults, and makes no system call any more.
Faulted == ~Running /\ UNCHANGED vars

Next ==
  \/ NoArgument \/ Faulted
  \/ \E esp \in Word :
       \/ Argint(esp)
       \/ \E v \in Word : SysGettime(esp, v) \/ SysSbrk(esp, v)
       \/ \E n \in 0..1, s, z \in Word : Argstr(esp, n, s, z)

Spec == Init /\ [][Next]_vars

-----------------------------------------------------------------------------
\* Sizes and addresses have their ranges.
TypeOK == sz \in Word /\ mapped \in Nat /\ touched \subseteq Word

\* However calls of sbrk() succeed and fail, the size that the checks use ends in
\* the last page that the process has.
SizeAccounted == Running => mapped = PGROUNDUP(sz)

\* Whatever the registers and arguments are, and however sbrk() has moved the
\* end of memory, a system call accesses only user memory that has a page at
\* that moment: neither a sum that wraps around nor a stale size lets it past.
AccessesMapped == [][\A a \in touched' : a < mapped]_vars
=============================================================================
