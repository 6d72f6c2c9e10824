----------------------------- MODULE DspImages ------------------------------
(***************************************************************************)
(* The two images the driver carries, by their sections: where each is     *)
(* linked to and how many bytes it has.  What the words of a section are   *)
(* does not matter to the driver.                                          *)
(***************************************************************************)
EXTENDS Integers, Sequences

Section(addr, size) == [addr |-> addr, size |-> size]

(* _thirdBLCode_U0, the loader, in L2 (0x00860000). *)
InitEntry    == 2195456
InitSection1 == Section(2195456, 128)
InitSection2 == Section(2195584, 43680)
InitSection3 == Section(2212059, 256)
InitSection4 == Section(2211822, 594)
InitImage    == <<InitSection1, InitSection2, InitSection3, InitSection4>>

(* _app4Core0, the application, in DDR (0x80fff000). *)
AppEntry    == 541078784
AppSection1 == Section(541092552, 4268)
AppSection2 == Section(541092352, 512)
AppSection3 == Section(541064192, 76416)
AppSection4 == Section(541086968, 11588)
AppImage    == <<AppSection1, AppSection2, AppSection3, AppSection4>>

(* An image: its entry point, its sections, each with its size and address
   before its words, and a size of 0.  head says where each of them starts.
   Every word is represented by the address it is linked to. *)
Encoded(entry, secs) ==
  LET section(k) == <<secs[k].size, secs[k].addr>> \o
                    [n \in 1 .. (secs[k].size + 3) \div 4 |-> secs[k].addr + n - 1]
      upTo[k \in 0 .. Len(secs)] ==
        IF k = 0 THEN [image |-> <<entry>>, head |-> <<>>]
        ELSE [image |-> upTo[k - 1].image \o section(k),
              head  |-> Append(upTo[k - 1].head, Len(upTo[k - 1].image) + 1)]
      all == upTo[Len(secs)]
  IN  [image |-> Append(all.image, 0), head |-> Append(all.head, Len(all.image) + 1)]
=============================================================================
