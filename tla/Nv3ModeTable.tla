---------------------------- MODULE Nv3ModeTable ----------------------------
(***************************************************************************)
(* The display modes of nv3_mode_table.c: of each entry the fields that    *)
(* nv3_init reads.  The refresh rate, the counters of the two scan         *)
(* directions and the clocks are left out: no code reads them.             *)
(***************************************************************************)
EXTENDS Naturals, Sequences

Mode(width, height, bpp) == [width |-> width, height |-> height, bpp |-> bpp]

ModeEntries == <<Mode(640, 480, 8),    Mode(640, 480, 16),    Mode(640, 480, 32),
                 Mode(800, 600, 8),    Mode(800, 600, 16),    Mode(800, 600, 32),
                 Mode(1024, 768, 8),   Mode(1024, 768, 16),   Mode(1024, 768, 32),
                 Mode(1280, 1024, 8),  Mode(1280, 1024, 16),  Mode(1280, 1024, 32)>>

mode_table == [i \in 0 .. Len(ModeEntries) - 1 |-> ModeEntries[i + 1]]

NV3_MODE_640x480x16 == 1

\* The bytes of frame buffer that a mode needs.
FrameBytes(mode) == mode.width * mode.height * (mode.bpp \div 8)
=============================================================================
