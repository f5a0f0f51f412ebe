----------------------------- MODULE Framebuffer ------------------------------
(***************************************************************************)
(* The geometry of a Framebuffer (main.cpp): the memory it maps, the pixels *)
(* it draws there, and what it tells the compositor about them.  Widths,   *)
(* heights and strides are 32 bits wide, the size of the mapping 64.       *)
(***************************************************************************)
EXTENDS Integers

CONSTANT UINT_MOD   \* 2^32

ASSUME FramebufferAssumption == UINT_MOD \in Nat /\ UINT_MOD % 4 = 0 /\ UINT_MOD >= 16

INT_MAX == UINT_MOD \div 2 - 1

\* A number in a request, as the wl_int the compositor takes it for.
AsInt(uint) == IF uint <= INT_MAX THEN uint ELSE uint - UINT_MOD

\* A size whose pixels take no more bytes than a wl_int can count.
Drawable(extent) == 4 * (extent.w * extent.h) <= INT_MAX /\ 4 * extent.w <= INT_MAX

\* The listener of xdg_toplevel passes over a configure that leaves a dimension
\* to the client.
Sized(extent) == extent.w # 0 /\ extent.h # 0

\* Create: the stride, and the size_t it maps and hands to create_pool.
Stride(extent) == (4 * extent.w) % UINT_MOD
Size(extent) == Stride(extent) * extent.h

\* Plausible bug: columns and rows change places.
PixelOffsetByColumn(extent, x, y) == (4 * ((x * extent.h + y) % UINT_MOD)) % UINT_MOD

\* Where Create draws a pixel, in arithmetic of 32 bits.
PixelOffset(extent, x, y) == (4 * ((y * extent.w + x) % UINT_MOD)) % UINT_MOD

\* The wl_uint create_pool makes of that size.
PoolSize(extent) == AsInt(Size(extent) % UINT_MOD)

\* What libwayland demands of a create_buffer(0, width, height, stride) in a pool.
BufferFits(extent) ==
  LET stride == AsInt(Stride(extent)) IN
    /\ AsInt(extent.w) > 0 /\ AsInt(extent.h) > 0
    /\ stride >= extent.w
    /\ stride * extent.h <= INT_MAX
    /\ stride * extent.h <= PoolSize(extent)

\* Drawing runs through more than INT_MAX bytes behind the mapping, half of what
\* 32 bits address: no process has so much memory there to write to.
DrawsFarOutside(extent) ==
  \E x \in 0 .. (extent.w - 1), y \in 0 .. (extent.h - 1) :
    PixelOffset(extent, x, y) + 4 > Size(extent) + INT_MAX

\* Every pixel is drawn inside the mapping, where the compositor will read it.
DrawnInPlace(extent) ==
  \A x \in 0 .. (extent.w - 1), y \in 0 .. (extent.h - 1) :
    /\ PixelOffset(extent, x, y) = y * Stride(extent) + 4 * x
    /\ PixelOffset(extent, x, y) + 4 <= Size(extent)

=============================================================================
