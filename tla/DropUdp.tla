------------------------------- MODULE DropUdp -------------------------------
(***************************************************************************)
(* The netfilter module drop_UDP.c: a POST_ROUTING hook adds the length of *)
(* every UDP packet to the global count, /proc/drop_udp/drop_count prints  *)
(* it, and /proc/drop_udp/drop_port lets a user set a port, kept in a      *)
(* block that every write allocates anew.  Packets are handled on several  *)
(* CPUs and files are used by several processes at once, without a lock.   *)
(***************************************************************************)
EXTENDS Integers, FiniteSets

CONSTANTS CPU,        \* CPUs that send packets
          Proc,       \* processes that use the proc files
          PortValue,  \* numbers written to drop_port
          Block,      \* memory blocks of kmalloc; bound: one for each write
          Length,     \* packet lengths
          Width,      \* bits of count (32 in the code)
          MaxBytes,   \* bound: bytes of UDP traffic
          NULL,
          GARBAGE,    \* a text that is refused; what an unwritten block holds
          OPEN        \* a text whose number, if any, has no end in it

ASSUME WidthAssumption == /\ Width \in Nat \ {0}
                          /\ 2^(Width - 1) \in Nat \ {0}
                          /\ 2^Width = 2 * 2^(Width - 1)
ASSUME CpuAssumption == IsFiniteSet(CPU)
ASSUME LengthAssumption == Length \subseteq Nat /\ MaxBytes \in Nat
ASSUME DistinctAssumption == /\ NULL \notin Block
                             /\ {GARBAGE, OPEN, NULL} \cap PortValue = {}
                             /\ OPEN \notin {GARBAGE, NULL} /\ GARBAGE # NULL

VARIABLES
  module,   \* "out", the next step of the init function, or "live"
  hook,     \* the hook is registered
  files,    \* the proc files that exist
  count,    \* the global count
  cpc,      \* cpc[c]: where CPU c is in the hook function
  len,      \* len[c]: skb->len of its packet
  reg,      \* reg[c]: the register of count += skb->len
  port,     \* the global pointer port
  heap,     \* heap[b]: what block b holds
  used,     \* the blocks allocated so far
  ppc,      \* ppc[p]: where process p is in port_write
  input,    \* input[p]: what it writes
  total,    \* history: bytes of UDP packets the hook has handled
  overlap,  \* history: two packets were in the hook at once
  last      \* history: the last write if it was accepted undisturbed

moduleVars == <<module, hook, files>>
hookVars   == <<count, cpc, len, reg, total, overlap>>
portVars   == <<port, heap, used, ppc, input, last>>
vars       == <<moduleVars, hookVars, portVars>>

File == {"drop_count", "drop_port"}

Init ==
  /\ module = "out" /\ hook = FALSE /\ files = {}
  /\ count = 0
  /\ cpc = [c \in CPU |-> "idle"]
  /\ len = [c \in CPU |-> 0]
  /\ reg = [c \in CPU |-> 0]
  /\ total = 0 /\ overlap = FALSE
  /\ port = NULL
  /\ heap = [b \in Block |-> GARBAGE]
  /\ used = {}
  /\ ppc = [p \in Proc |-> "user"]
  /\ input = [p \in Proc |-> NULL]
  /\ last = NULL

------------------------------------------------------------------------------
(* vincent_drop_udp_init and vincent_drop_udp_deinit.                      *)

\* nf_register_net_hook: packets reach the hook from here on.
RegisterHook ==
  /\ module = "out"
  /\ module' = "files"
  /\ hook' = TRUE
  /\ UNCHANGED <<files, hookVars, portVars>>

\* proc_mkdir and the two proc_create calls; each may fail, and what was made
\* before stays.  The positive value then returned does not stop the module
\* from being loaded.
CreateFiles ==
  /\ module = "files"
  /\ module' = "live"
  /\ files' \in {{}, {"drop_count"}, File}
  /\ UNCHANGED <<hook, hookVars, portVars>>

\* nf_unregister_net_hook waits for packets in the hook, proc_remove for
\* processes in the files.
Deinit ==
  /\ module = "live"
  /\ \A c \in CPU : cpc[c] = "idle"
  /\ \A p \in Proc : ppc[p] = "user"
  /\ module' = "gone" /\ hook' = FALSE /\ files' = {}
  /\ UNCHANGED <<hookVars, portVars>>

------------------------------------------------------------------------------
(* The hook: vincent_drop_udp_output.                                      *)

\* A UDP packet enters; other protocols change nothing.
Packet(c, n) ==
  /\ hook
  /\ cpc[c] = "idle"
  /\ total + n <= MaxBytes
  /\ cpc' = [cpc EXCEPT ![c] = "load"]
  /\ len' = [len EXCEPT ![c] = n]
  /\ total' = total + n
  /\ overlap' = (overlap \/ \E d \in CPU : cpc[d] # "idle")
  /\ UNCHANGED <<moduleVars, count, reg, portVars>>

\* count += skb->len, modulo 2^Width; every packet is accepted.
LoadCount(c) ==
  /\ cpc[c] = "load"
  /\ cpc' = [cpc EXCEPT ![c] = "store"]
  /\ reg' = [reg EXCEPT ![c] = count]
  /\ UNCHANGED <<moduleVars, count, len, total, overlap, portVars>>

\* Mutant: the counter is wider than int.
StoreCountWide(c) ==
  /\ cpc[c] = "store"
  /\ cpc' = [cpc EXCEPT ![c] = "idle"]
  /\ count' = reg[c] + len[c]
  /\ reg' = [reg EXCEPT ![c] = 0]
  /\ len' = [len EXCEPT ![c] = 0]
  /\ UNCHANGED <<moduleVars, total, overlap, portVars>>

\* Mutant: headers are counted that skb->len already holds.
StoreCountHeaders(c) ==
  /\ cpc[c] = "store"
  /\ cpc' = [cpc EXCEPT ![c] = "idle"]
  /\ count' = (reg[c] + len[c] + 1) % 2^Width
  /\ reg' = [reg EXCEPT ![c] = 0]
  /\ len' = [len EXCEPT ![c] = 0]
  /\ UNCHANGED <<moduleVars, total, overlap, portVars>>

\* Mutant: = instead of +=.
StoreCountOverwrite(c) ==
  /\ cpc[c] = "store"
  /\ cpc' = [cpc EXCEPT ![c] = "idle"]
  /\ count' = len[c] % 2^Width
  /\ reg' = [reg EXCEPT ![c] = 0]
  /\ len' = [len EXCEPT ![c] = 0]
  /\ UNCHANGED <<moduleVars, total, overlap, portVars>>

StoreCount(c) ==
  /\ cpc[c] = "store"
  /\ cpc' = [cpc EXCEPT ![c] = "idle"]
  /\ count' = (reg[c] + len[c]) % 2^Width
  /\ reg' = [reg EXCEPT ![c] = 0]
  /\ len' = [len EXCEPT ![c] = 0]
  /\ UNCHANGED <<moduleVars, total, overlap, portVars>>

\* drop_count_show prints the unsigned count with "%d".
drop_count_show == IF count < 2^(Width - 1) THEN count ELSE count - 2^Width

------------------------------------------------------------------------------
(* The file drop_port.                                                     *)

\* port_write: the global pointer moves to a new block before anything of the
\* request is looked at.
AllocPort(p, v) ==
  /\ "drop_port" \in files
  /\ ppc[p] = "user"
  /\ ppc' = [ppc EXCEPT ![p] = "parse"]
  /\ input' = [input EXCEPT ![p] = v]
  /\ \E b \in Block \ used : port' = b /\ used' = used \cup {b}
  /\ last' = NULL
  /\ UNCHANGED <<moduleVars, hookVars, heap>>

\* A second write at *pos > 0, more than 1024 bytes, a failed copy, or a text
\* that is not a number: -EFAULT.  An empty text may be one, see ParsePort.
RejectPort(p) ==
  /\ ppc[p] = "parse"
  /\ input[p] \in {GARBAGE, OPEN}
  /\ ppc' = [ppc EXCEPT ![p] = "user"]
  /\ input' = [input EXCEPT ![p] = NULL]
  /\ UNCHANGED <<moduleVars, hookVars, port, heap, used, last>>

\* Mutant: the number is parsed into a local variable.
ParsePortLocal(p) ==
  /\ ppc[p] = "parse"
  /\ input[p] \in PortValue \cup {OPEN}
  /\ ppc' = [ppc EXCEPT ![p] = "user"]
  /\ last' = IF \E q \in Proc \ {p} : ppc[q] = "parse" THEN NULL ELSE input[p]
  /\ input' = [input EXCEPT ![p] = NULL]
  /\ UNCHANGED <<moduleVars, hookVars, port, heap, used>>

\* sscanf(buf, "%u", port) stores through the global pointer.  buf is on the
\* stack, never initialised, and copy_from_user does not end the text: the digits
\* are read up to the first other character.  Where the text has none (no newline
\* behind the number, or no number at all), sscanf goes on in what the stack held
\* before, and any number may come out.
ParsePort(p) ==
  /\ ppc[p] = "parse"
  /\ input[p] \in PortValue \cup {OPEN}
  /\ ppc' = [ppc EXCEPT ![p] = "user"]
  /\ \E v \in (IF input[p] = OPEN THEN PortValue ELSE {input[p]}) :
       heap' = [heap EXCEPT ![port] = v]
  /\ last' = IF \E q \in Proc \ {p} : ppc[q] = "parse" THEN NULL ELSE input[p]
  /\ input' = [input EXCEPT ![p] = NULL]
  /\ UNCHANGED <<moduleVars, hookVars, port, used>>

\* port_show prints *port; before the first write the pointer is NULL and the
\* read faults.
port_show == IF port = NULL THEN NULL ELSE heap[port]

Next == \/ RegisterHook \/ CreateFiles \/ Deinit
        \/ \E c \in CPU : \/ \E n \in Length : Packet(c, n)
                          \/ LoadCount(c) \/ StoreCount(c)
        \/ \E p \in Proc : \/ \E v \in PortValue \cup {GARBAGE, OPEN} : AllocPort(p, v)
                           \/ RejectPort(p) \/ ParsePort(p)

Spec == Init /\ [][Next]_vars

------------------------------------------------------------------------------
(* Properties.                                                             *)

TypeOK ==
  /\ module \in {"out", "files", "live", "gone"}
  /\ hook \in BOOLEAN /\ files \subseteq File
  /\ count \in 0..(2^Width - 1)
  /\ cpc \in [CPU -> {"idle", "load", "store"}]
  /\ len \in [CPU -> Nat]
  /\ reg \in [CPU -> 0..(2^Width - 1)]
  /\ total \in Nat /\ overlap \in BOOLEAN
  /\ port \in Block \cup {NULL}
  /\ heap \in [Block -> PortValue \cup {GARBAGE}]
  /\ used \subseteq Block
  /\ ppc \in [Proc -> {"user", "parse"}]
  /\ input \in [Proc -> PortValue \cup {GARBAGE, OPEN, NULL}]
  /\ last \in PortValue \cup {OPEN, NULL}

Quiet == \A c \in CPU : cpc[c] = "idle"

\* Concurrent packets lose bytes and never invent any: while the true total
\* fits the counter, the counter is at most the total.
CountNotAbove == total < 2^Width => count <= total

\* Packets handled one after the other are counted exactly, modulo 2^Width, and
\* drop_count shows their total until it reaches the sign bit of "%d".
SerialCountExact ==
  ~overlap /\ Quiet => /\ count = total % 2^Width
                       /\ total < 2^(Width - 1) => drop_count_show = total

\* After a write that was accepted while no other was under way, and until the next
\* write begins, drop_port shows the number that was written, if its end was
\* written too (the newline of echo); a text without one (lines 86-98) leaves some
\* number, but never the contents of the fresh block of line 88.
AcceptedPortHeld == /\ last \in PortValue => port_show = last
                    /\ last = OPEN => port_show \in PortValue
==============================================================================
