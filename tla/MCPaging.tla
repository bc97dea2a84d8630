------------------------------ MODULE MCPaging ------------------------------
(* Tables of four entries: a large page is 16 KiB, "4 GiB" is one page     *)
(* directory, the user window the last root entry.  The heap lies above    *)
(* "4 GiB", across two page directories, off the large pages' boundaries.  *)
EXTENDS Paging

K == 1024
R(base, len) == [base |-> base, len |-> len]

MCStack == [lo |-> 832 * K - 2 * Page, hi |-> 832 * K - Page]
MCAddrSpace == 2048 * K

\* text of a page and a half; data that ends in another large page
Image(base) == [text   |-> R(base, 6000), rodata |-> R(base + 2 * Page, 100),
                data   |-> R(base + 3 * Page, 5000)]
Info(image, fb, splash, initrc, pak) ==
    [text |-> image.text, rodata |-> image.rodata, data |-> image.data,
     fb |-> fb, splash |-> splash, initrc |-> initrc, pak |-> pak,
     lapic |-> R(56 * K, Page)]

None == R(0, 0)

\* all below "4 GiB" but the screen
LowInfo  == Info(Image(20 * K), R(240 * K, 5000), R(36 * K, 5000), None, None)
\* the kernel above, a screen that starts late in a large page, a script
HighInfo == Info(Image(172 * K), R(200 * K, 12000), None, R(228 * K, 300), None)
\* the archive alone above "4 GiB"
PakInfo  == Info(Image(20 * K), R(40 * K, 5000), None, None, R(240 * K, 5000))

MCBootInfos == {LowInfo, HighInfo}
MCPakInfos  == {PakInfo}

\* next to the screen and on into the next entry of the root
MCBars == {R(250 * K, 18000)}

S(first, last, w, x) == [lo |-> 768 * K + first * Page, hi |-> 768 * K + last * Page,
                         w |-> w, x |-> x]
MCPrograms == { <<S(0, 1, FALSE, TRUE), S(4, 5, TRUE, FALSE)>>,
                <<S(2, 4, FALSE, TRUE), S(3, 4, TRUE, FALSE)>>,
                <<S(1, 3, FALSE, TRUE), S(5, 6, TRUE, TRUE)>> }

MCSizes     == {3000, 20000, 47000, 2048 * K - 16}
MCDmaSizes  == {1100}
MCDmaAligns == {4096}
=============================================================================
