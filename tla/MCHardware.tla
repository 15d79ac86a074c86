----------------------------- MODULE MCHardware -----------------------------
(* Two buses of two slots with two functions.  The region of segment 0 is  *)
(* described in full, in part, or not at all; mapped by the bootloader, in *)
(* part, elsewhere, or not.  One or two I/O APICs.  The network device's   *)
(* BAR is in physical memory, as ports are, or (in two machines) is not:   *)
(* one whose device shows BUFE while its receiver is off, and one whose    *)
(* device does not.                                                        *)
EXTENDS Hardware, TLC

Entry(segment, start, end) == [segment |-> segment, base |-> 100, start |-> start, end |-> end]

Fn(id, bit7, on, implements, bar) ==
    [vendor |-> [id |-> id, bit7 |-> bit7], command |-> on,
     implements |-> implements, bar |-> bar]

All == {"io", "memory", "master"}

\* A bridge with two functions, a network device in the second one's place,
\* and a device with a function that its vendor id hides.
Functions(bar, implements) ==
    (0 :> Fn("8086", TRUE, All, All, 1)) @@ (1 :> Fn(NicId, TRUE, {"memory"}, implements, bar))
    @@ (6 :> Fn("1022", FALSE, {}, All, 1)) @@ (7 :> Fn("1022", FALSE, {}, All, 1))

Without(fn, functions) == [n \in DOMAIN functions \ {fn} |-> functions[n]]

\* Pins as firmware leaves them: masked, some level-triggered and low-active,
\* one with delivery mode 4.
Entries ==
    [i \in Pins |-> [low |-> 2^16 + (IF i >= 16 THEN 2^15 + 2^13 ELSE 0)
                             + (IF i = 3 THEN 4 * 2^8 + 2^11 ELSE 0) + i,
                     destination |-> i % 3]]

Machine(mcfg, entries, window, physical, behind, functions, n, tables) ==
    [mcfg |-> mcfg, entries |-> entries, window |-> window,
     physical |-> physical, behind |-> [p \in physical |-> IF p = 100 THEN behind ELSE p],
     functions |-> functions, tables |-> tables, freq |-> 1000, bufe |-> FALSE,
     pic |-> [expects |-> 0, offset |-> 8, mask |-> 0],
     ioapics |-> [a \in 1 .. n |-> [entries |-> Entries]]]

ShowsBufe(m) == [m EXCEPT !.bufe = TRUE]

Full == Entry(0, 0, 1)
Low == 0 .. 3
Region == 100 .. 107

MCMachines ==
    <<\* No table (and no network device), none for segment 0, one that is cut off.
     Machine("none", <<>>, Full, Low, 0, Without(1, Functions(1, All)), 1, TRUE),
     Machine("sound", <<Entry(1, 0, 1)>>, Full, Low, 0, Functions(50, All), 1, TRUE),
     ShowsBufe(Machine("none", <<>>, Full, Low, 0, Functions(50, All), 1, TRUE)),
     Machine("ragged", <<Full>>, Full, Low, 0, Functions(1, {"io", "memory"}), 0, TRUE),
     \* All buses: not mapped yet, mapped, mapped to something else.
     Machine("sound", <<Entry(1, 0, 0), Full>>, Full, Low, 0, Functions(1, All), 1, TRUE),
     Machine("sound", <<Full>>, Full, Low \cup Region, 100, Functions(50, All), 2, FALSE),
     Machine("sound", <<Full>>, Full, Low \cup Region, 60, Functions(1, All), 1, TRUE),
     \* The first bus only, the second bus only, a region that the bootloader
     \* has mapped in part.
     Machine("sound", <<Entry(0, 0, 0)>>, Entry(0, 0, 0), Low, 0, Functions(1, All), 1, TRUE),
     Machine("sound", <<Entry(0, 0, 0)>>, Entry(0, 0, 0), Low \cup Region, 100, Functions(1, All), 1, TRUE),
     Machine("sound", <<Entry(0, 1, 1)>>, Entry(0, 1, 1), Low, 0, Functions(1, All), 1, TRUE),
     Machine("sound", <<Full>>, Full, Low \cup (100 .. 103), 100, Functions(1, All), 1, TRUE)>>

=============================================================================
