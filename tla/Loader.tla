------------------------------- MODULE Loader -------------------------------
(***************************************************************************)
(* The PE loader, loader/pe.c, on top of the physical memory manager.      *)
(*                                                                         *)
(* Memory is a function from addresses to words; addresses, sizes and file *)
(* offsets count in the units of the memory map.  A word of a file is its  *)
(* offset plus one, which tells all words of a file apart from each other  *)
(* and from zero.  Of pe_probe's tests only the outcome is kept.  A file   *)
(* says where its relocation table is: 0 for none, the number of the       *)
(* section that holds it, or a greater number outside all sections; its    *)
(* relocs are the entries the loop finds there.  Where the section was not *)
(* copied the table reads as zeros and is empty.  An entry may name any    *)
(* address from the image upwards (pe.c:218); one whose word ends behind   *)
(* the image counts as behind it.                                          *)
(*                                                                         *)
(* No path of pe_run gives memory back, so `images' only grows.            *)
(***************************************************************************)
EXTENDS PMM, Sequences, SequencesExt

CONSTANTS
    Files,   \* the executable files
    Arena,   \* the addresses of the early heap, in the kernel's image
    Codes,   \* the exit codes programs use
    WORD,    \* 2^64, the range of a word
    HALF     \* 2^32

Executables ==
    [valid : BOOLEAN, size : Nat, size_of_headers : Nat, size_of_image : Nat,
     entry_rva : Nat, image_base : Nat, has_dirs : BOOLEAN, table : Nat,
     sections : Seq([virtual_address : Nat, pointer_to_raw_data : Nat, size_of_raw_data : Nat]),
     relocs : Seq([type : {"DIR64", "HIGHLOW", "ABSOLUTE"}, rva : Nat])]

Addresses == 0 .. PMM_MAX_PAGES * PAGE - 1

ASSUME WordAssumption == HALF \in Nat \ {0} /\ WORD \in Nat \ {0} /\ WORD % HALF = 0
ASSUME FilesAssumption ==
    \A f \in Files : f \in Executables /\ f.size < WORD
ASSUME ArenaAssumption == /\ KERNEL_END <= PMM_MAX_PAGES * PAGE
                          /\ Arena \subseteq LOW .. KERNEL_END - 1
ASSUME CodesAssumption == Codes \subseteq Int

VARIABLES
    ram,
    images,       \* the images in memory: [file, base, page], page 0 in the heap
    program,      \* "idle", or "running" while a program's entry point runs
    g_exited, g_exit_code,
    result,       \* what pe_run returned last
    told          \* {what the program of that run said}, {} if nothing yet

loaderVars == <<ram, images, program, g_exited, g_exit_code, result, told>>

Junk == WORD - 1      \* what the other clients of the PMM write
----------------------------------------------------------------------------
Word(offset) == offset + 1

pe_probe(f) == f.valid

\* The sections pe_run copies.  A fault: one that ends behind the image.
CopiedAnywhere(f, s) ==
    /\ s.size_of_raw_data # 0 /\ s.pointer_to_raw_data # 0
    /\ s.pointer_to_raw_data + s.size_of_raw_data <= f.size

Copied(f, s) ==
    /\ s.size_of_raw_data # 0 /\ s.pointer_to_raw_data # 0
    /\ s.pointer_to_raw_data + s.size_of_raw_data <= f.size
    /\ s.virtual_address + s.size_of_raw_data <= f.size_of_image

\* memcpy of `len' units of a file to an address
Copy(mem, at, from, len) ==
    [a \in Addresses |-> IF at <= a /\ a < at + len THEN Word(from + a - at) ELSE mem[a]]

Zeroed(mem, base, f) ==
    [a \in Addresses |-> IF base <= a /\ a < base + f.size_of_image THEN 0 ELSE mem[a]]

hdr_copy(f) == Min({f.size_of_headers, f.size, f.size_of_image})

Placed(mem, base, f) ==
    FoldLeft(LAMBDA m, s : IF Copied(f, s)
                           THEN Copy(m, base + s.virtual_address, s.pointer_to_raw_data,
                                     s.size_of_raw_data)
                           ELSE m,
             Copy(Zeroed(mem, base, f), base, 0, hdr_copy(f)), f.sections)

\* One entry of the relocation table.
Adjusted(word, type, delta) ==
    CASE type = "DIR64"   -> (word + delta) % WORD
      [] type = "HIGHLOW" -> (word - (word % HALF)) + (((word % HALF) + delta) % HALF)
      [] OTHER            -> word

\* A fault: the delta has the wrong sign.
RelocatedBack(mem, base, f) ==
    FoldLeft(LAMBDA m, r : [m EXCEPT ![base + r.rva] = Adjusted(@, r.type, f.image_base - base)],
             mem, f.relocs)

\* Nothing to relocate: the early returns, and a table that reads as zeros.
Unmoved(f, base) ==
    \/ base = f.image_base
    \/ ~f.has_dirs \/ f.table = 0
    \/ f.table \in {n \in DOMAIN f.sections : ~Copied(f, f.sections[n])}

\* No entry is tested: the write lands in the image, in memory that someone
\* else has, or beyond memory, where nothing is modelled.
apply_relocations(mem, base, f) ==
    IF Unmoved(f, base) THEN mem
    ELSE FoldLeft(LAMBDA m, r :
                      [m EXCEPT ![base + r.rva] = Adjusted(@, r.type, base - f.image_base)],
                  mem, f.relocs)
----------------------------------------------------------------------------
img_pages(f) == PageUp(f.size_of_image)
NoPages(f) == \A p \in Pages : ~Fits(p, img_pages(f))

\* The addresses of an image.
Extent(i) == i.base .. i.base + i.file.size_of_image - 1

\* kmalloc: room in the heap that no other image has.
kmalloc(f) ==
    {b \in Arena : LET block == b .. (b + f.size_of_image - 1)
                   IN  block \subseteq Arena /\ \A i \in images : block \cap Extent(i) = {}}

\* A fault: what an earlier program said is kept.
EnterStale == UNCHANGED <<g_exited, g_exit_code>>

\* The call of the entry point begins.
Enter == g_exited' = FALSE /\ g_exit_code' = 0

Fails == /\ result' = -1 /\ told' = {-1}
         /\ UNCHANGED <<program, g_exited, g_exit_code>>

\* The image is at `base' and its memory is taken.
Start(f, base, page) ==
    /\ ram' = apply_relocations(Placed(ram, base, f), base, f)
    /\ images' = images \cup {[file |-> f, base |-> base, page |-> page]}
    /\ \/ f.entry_rva >= f.size_of_image /\ Fails
       \/ /\ f.entry_rva < f.size_of_image
          /\ Enter
          /\ program' = "running" /\ told' = {}
          /\ UNCHANGED result

\* pe_run up to the call of the entry point.
Reject(f) ==
    /\ ~pe_probe(f) \/ img_pages(f) = 0 \/ (NoPages(f) /\ kmalloc(f) = {})
    /\ Fails
    /\ UNCHANGED <<vars, ram, images>>

LoadInPages(f) ==
    /\ pe_probe(f) /\ img_pages(f) # 0
    /\ pmm_alloc_pages(img_pages(f))
    /\ \E a \in owned' \ owned : Start(f, a.page * PAGE, a.page)

LoadInHeap(f) ==
    /\ pe_probe(f) /\ img_pages(f) # 0
    /\ NoPages(f)
    /\ \E b \in kmalloc(f) : Start(f, b, 0)
    /\ UNCHANGED vars

pe_run(f) == booted /\ program = "idle" /\ (Reject(f) \/ LoadInPages(f) \/ LoadInHeap(f))

\* The program calls exit, which returns to it, and returns in the end.
api_exit(code) ==
    /\ program = "running"
    /\ g_exited' = TRUE /\ g_exit_code' = code
    /\ told' = {code}
    /\ UNCHANGED <<vars, ram, images, program, result>>

Return(rc) ==
    /\ program = "running"
    /\ result' = IF g_exited THEN g_exit_code ELSE rc
    /\ told' = IF told = {} THEN {rc} ELSE told
    /\ program' = "idle"
    /\ UNCHANGED <<vars, ram, images, g_exited, g_exit_code>>
----------------------------------------------------------------------------
\* The other clients of the PMM write to what they hold and give it back.
Holders == owned \ {a \in owned : \E i \in images : i.page = a.page}

ClientTakes(count) ==
    /\ program = "idle"
    /\ pmm_alloc_pages(count)
    /\ ram' = [a \in Addresses |->
                  IF \E n \in owned' \ owned : a \div PAGE \in Run(n.page, n.count)
                  THEN Junk ELSE ram[a]]
    /\ UNCHANGED <<images, program, g_exited, g_exit_code, result, told>>

ClientReturns(a) ==
    /\ program = "idle"
    /\ Release(a)
    /\ UNCHANGED loaderVars

Boot(m) == pmm_init(m) /\ UNCHANGED loaderVars

LoaderInit ==
    /\ Init
    /\ ram = [a \in Addresses |-> 0]
    /\ images = {}
    /\ program = "idle"
    /\ g_exited = FALSE /\ g_exit_code = 0
    /\ result = 0 /\ told = {0}
----------------------------------------------------------------------------
\* The word an image should hold at an offset: the one of the last section
\* there, else of the headers, else zero, adjusted if the table says so.
Sections(f, rva) ==
    {n \in DOMAIN f.sections : LET s == f.sections[n]
                               IN  /\ Copied(f, s)
                                   /\ s.virtual_address <= rva
                                   /\ rva < s.virtual_address + s.size_of_raw_data}

Intended(f, rva) ==
    IF Sections(f, rva) # {}
    THEN LET s == f.sections[Max(Sections(f, rva))]
         IN  Word(s.pointer_to_raw_data + rva - s.virtual_address)
    ELSE IF rva < hdr_copy(f) THEN Word(rva) ELSE 0

Relocs(f, rva) == {n \in DOMAIN f.relocs : f.relocs[n].rva = rva}

Expected(f, base, rva) ==
    IF Relocs(f, rva) = {} \/ Unmoved(f, base) THEN Intended(f, rva)
    ELSE Adjusted(Intended(f, rva), f.relocs[Max(Relocs(f, rva))].type, base - f.image_base)

\* Where the tables of the images loaded so far point outside their images.
Strays ==
    UNION {{i.base + i.file.relocs[n].rva : n \in DOMAIN i.file.relocs} \ Extent(i) :
              i \in {j \in images : ~Unmoved(j.file, j.base)}}

(***************************************************************************)
(* Every image in memory, the running one and those of earlier runs, is    *)
(* what its file describes, placed and relocated for its own address       *)
(* (pe.c:264, pe.c:192): wherever it was put, whatever was in that memory  *)
(* before, and whatever was loaded after it.  Except where its table names *)
(* a word twice, which is then adjusted twice, and where the table of an   *)
(* image points behind that image: the code tests neither (pe.c:218).      *)
(***************************************************************************)
ImagesFaithful ==
    \A i \in images : \A rva \in 0 .. i.file.size_of_image - 1 :
        (\A m, n \in Relocs(i.file, rva) : m = n) /\ i.base + rva \notin Strays =>
            ram[i.base + rva] = Expected(i.file, i.base, rva)

(***************************************************************************)
(* pe_run writes to its own image (pe.c:257) and to the words its          *)
(* relocation table names, which the code does not hold to the image       *)
(* (pe.c:218), and nowhere else: apart from those words the memory other   *)
(* clients of the PMM hold, low memory and the kernel outside the heap     *)
(* keep their contents.  So a file none of whose entries points behind its *)
(* image harms no one.                                                     *)
(***************************************************************************)
OthersUntouched ==
    /\ \A c \in Holders : \A p \in Run(c.page, c.count) :
          \A a \in p * PAGE .. (p + 1) * PAGE - 1 : a \notin Strays => ram[a] = Junk
    /\ \A a \in 0 .. KERNEL_END - 1 : a \notin Arena \cup Strays => ram[a] = 0

(***************************************************************************)
(* What pe_run returns is what this program said, by its last exit or by   *)
(* returning, and never what an earlier one said (pe.c:283, pe.c:290).     *)
(***************************************************************************)
ExitReported == program = "idle" => told = {result}
=============================================================================
