------------------------------ MODULE DeviceInit ------------------------------
(***************************************************************************)
(* The messages that start the WaveFinder: wf_init and wf_boot_dsps        *)
(* (wfinit.c), sent by the functions of wfusb.c, wfleds.c, wftune.c and    *)
(* wftiming.c, and the ways wf ends before it receives: a message that     *)
(* fails, a file that is missing, ctrl-c.                                  *)
(*                                                                         *)
(* Of the device there is what the messages about the two DSPs do to it,   *)
(* as wfinit.c describes their host port interfaces (HPI).                 *)
(***************************************************************************)
EXTENDS Integers, Sequences

Dsps == {"A", "B"}
USBDATALEN == 31             \* words of a data message, the register included
CodeStart == 128             \* 0x80
CodeEnd == 8192              \* 0x2000
EntryAddress == 127          \* 0x7f
Files == <<"B", "A">>        \* rsDSPb.bin, rsDSPa.bin: the DSP each one is for

VARIABLES
    wf,         \* "starting", "receiving", or how it ended
    step,       \* in wf_init, and
    bootstep,   \* in wf_boot_dsps: of its script
    remain,     \* bytes of the file to transfer
    hpia, code, \* per DSP: HPI address; the runs of file bytes loaded, <<address, first, last>>
    runs,       \* per DSP: the entry point it was started at
    streaming, timing   \* isochronous data is being sent; the last timing message

bvars == <<wf, step, bootstep, remain, hpia, code, runs, streaming, timing>>

\* wf_init.  Messages to registers that set LEDs and clocks are taken together.
InitScript ==
    <<"r2", "memory", "boot", "memory", "tune", "m0", "m1", "m1", "m2", "memory",
      "r1", "memory", "m1", "m2", "m1", "m3", "tune", "m4", "tune", "tune", "memory">>

\* wf_boot_dsps: HPI addresses and data, control registers, and the files.
Address(d, a) == [do |-> "address", dsp |-> d, value |-> a]
Data(d, v)    == [do |-> "data", dsp |-> d, value |-> v]
Control(d)    == [do |-> "control", dsp |-> d, value |-> 1]
Open(d)       == [do |-> "open", dsp |-> d, value |-> 0]
Upload(d)     == [do |-> "upload", dsp |-> d, value |-> 0]
EntryOf(d)    == CodeStart + (IF d = "A" THEN 1 ELSE 2)   \* two words that differ

BootSwapped ==     \* mutant: the entry points in the order of the files
    << Open(Files[1]), Address(Files[1], 127), Upload(Files[1]),
       Open(Files[2]), Address(Files[2], 127), Upload(Files[2]),
       Address("A", 126), Address("B", 126),
       Data("A", EntryOf(Files[1])), Data("B", EntryOf(Files[2])) >>

BootScript ==
    << Address("B", 224), Data("B", 0), Control("B"), Control("A"),
       Open(Files[1]), Address(Files[1], 127), Upload(Files[1]),
       Open(Files[2]), Address(Files[2], 127), Upload(Files[2]),
       Address("A", 126), Address("B", 126),
       Data("A", EntryOf(Files[2])), Data("B", EntryOf(Files[1])),
       Address("B", 16127), Data("B", 0), Data("B", 0),
       Address("A", 8191), Address("B", 8191) >>

BInit ==
    /\ wf = "starting" /\ step = 1 /\ bootstep = 1 /\ remain = CodeEnd - CodeStart + 1
    /\ hpia = [d \in Dsps |-> 0] /\ code = [d \in Dsps |-> <<>>]
    /\ runs = [d \in Dsps |-> 0]
    /\ streaming = FALSE /\ timing = "none"

-----------------------------------------------------------------------------
\* A DSP: data goes to the address after the one in the register; a word other than zero
\* at 0x7f starts it there.
HpiWrite(d, v) ==
    /\ hpia' = [hpia EXCEPT ![d] = @ + 1]
    /\ runs' = IF hpia[d] + 1 = EntryAddress /\ v # 0 THEN [runs EXCEPT ![d] = v] ELSE runs

\* Bytes first .. last of the file, two in a word; a run that goes on is one run.
HpiLoad(d, first, last) ==
    LET had == code[d]
        n == Len(had)
    IN  /\ hpia' = [hpia EXCEPT ![d] = @ + (last - first + 1) \div 2]
        /\ code' = [code EXCEPT ![d] =
                      IF n > 0 /\ had[n][3] = first - 1
                      THEN [had EXCEPT ![n][3] = last]
                      ELSE Append(had, <<hpia[d] + 1, first, last>>)]

Booting == wf = "starting" /\ step <= Len(InitScript) /\ InitScript[step] = "boot"
Now == BootScript[bootstep]
BootNext ==
    IF bootstep < Len(BootScript)
    THEN bootstep' = bootstep + 1 /\ UNCHANGED step
    ELSE bootstep' = 1 /\ step' = step + 1

BootWrite ==
    /\ Booting /\ Now.do \in {"address", "data", "control"}
    /\ \/ /\ Now.do = "address"
          /\ hpia' = [hpia EXCEPT ![Now.dsp] = Now.value]
          /\ UNCHANGED runs
       \/ Now.do = "data" /\ HpiWrite(Now.dsp, Now.value)
       \/ Now.do = "control" /\ UNCHANGED <<hpia, runs>>
    /\ BootNext /\ UNCHANGED <<wf, remain, code, streaming, timing>>

\* fopen, stat, malloc, fread
BootOpen ==
    /\ Booting /\ Now.do = "open"
    /\ remain' = CodeEnd - CodeStart + 1
    /\ BootNext /\ UNCHANGED <<wf, hpia, code, runs, streaming, timing>>

\* wf_close returns, and the code goes on with the file that was not opened.
BootOpenFails ==
    /\ Booting /\ Now.do = "open"
    /\ wf' = "crashed"
    /\ UNCHANGED <<step, bootstep, remain, hpia, code, runs, streaming, timing>>

\* The short message is one byte late: its first byte has been sent, its last is not.
FirstByte == IF remain >= USBDATALEN THEN CodeEnd + 1 - remain ELSE CodeEnd - remain
BytesSent == IF remain >= USBDATALEN THEN USBDATALEN - 1 ELSE remain - 1

BootUpload ==
    /\ Booting /\ Now.do = "upload"
    /\ remain > 0
    /\ HpiLoad(Now.dsp, FirstByte, FirstByte + BytesSent - 1)
    /\ remain' = IF remain >= USBDATALEN THEN remain - (USBDATALEN - 1) ELSE 0
    /\ UNCHANGED <<wf, step, bootstep, runs, streaming, timing>>

BootUploaded ==
    /\ Booting /\ Now.do = "upload"
    /\ remain = 0
    /\ BootNext /\ UNCHANGED <<wf, remain, hpia, code, runs, streaming, timing>>

InitStep ==
    /\ wf = "starting" /\ ~Booting
    /\ IF step > Len(InitScript)
       THEN wf' = "receiving" /\ UNCHANGED <<step, streaming, timing>>
       ELSE /\ step' = step + 1
            /\ streaming' = (streaming \/ InitScript[step] = "r1")
            /\ timing' = IF InitScript[step] \in {"m0", "m1", "m2", "m3", "m4"}
                         THEN InitScript[step] ELSE timing
            /\ UNCHANGED wf
    /\ UNCHANGED <<bootstep, remain, hpia, code, runs>>

\* wf_usb_ctrl_msg exits when the ioctl fails; wfexit closes the device and exits.
MessageFails ==
    /\ wf = "starting" /\ wf' = "exited"
    /\ UNCHANGED <<step, bootstep, remain, hpia, code, runs, streaming, timing>>

Interrupt ==
    /\ wf \in {"starting", "receiving"} /\ wf' = "exited"
    /\ UNCHANGED <<step, bootstep, remain, hpia, code, runs, streaming, timing>>

BNext == \/ BootWrite \/ BootOpen \/ BootOpenFails \/ BootUpload \/ BootUploaded
         \/ InitStep \/ MessageFails \/ Interrupt

BSpec == BInit /\ [][BNext]_bvars

-----------------------------------------------------------------------------
\* Bytes first .. last of the file are in the memory of d, each at its place: they were sent
\* in one run, two in a word from CodeStart on, and no later run overwrote them.
InMemory(d, first, last) ==
    \E i \in DOMAIN code[d] :
        /\ 2 * (code[d][i][1] - CodeStart) = code[d][i][2] - CodeStart
        /\ code[d][i][2] <= first /\ last <= code[d][i][3]
        /\ \A j \in i + 1 .. Len(code[d]) : 2 * (code[d][j][1] - CodeStart) > last - CodeStart

\* The last byte that the full messages carry
LastFull ==
    LET bytes == USBDATALEN - 1
    IN  CodeStart + bytes * ((CodeEnd + 1 - CodeStart - USBDATALEN) \div bytes + 1) - 1

\* A DSP starts at the entry point of its own file, and when all that the full messages carry
\* of it is at its place, for which the two files, the two address registers and the two
\* entry points must go together; the device streams only after both DSPs run (wf_boot_dsps,
\* wf_init).  The short message at the end of a file is left to UploadsWholeFile.
StartsLoaded ==
    /\ \A d \in Dsps : runs[d] # 0 => runs[d] = EntryOf(d) /\ InMemory(d, CodeStart, LastFull)
    /\ streaming => \A d \in Dsps : runs[d] # 0

\* wfinit.c:52: "Only bytes from offset 0x80 to 0x2000 are uploaded from each file", so those
\* of a DSP that runs are all in its memory.  The short message begins with the byte before
\* its first, so that its bytes are one late, and does not send the last one.
UploadsWholeFile ==
    \A d \in Dsps : runs[d] # 0 => InMemory(d, CodeStart, CodeEnd - 1)

=============================================================================
