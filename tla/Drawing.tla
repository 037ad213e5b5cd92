------------------------------ MODULE Drawing ------------------------------
(***************************************************************************)
(* How a pixel of the screen is found: background and window through their *)
(* maps and tiles, the sprites of the line, who covers whom, and the color *)
(* in both frames.  The scene (registers and sprites) is chosen at the     *)
(* start; what is in the maps and tiles is fixed.  All sizes are           *)
(* constants, so that a scene can be small: a coordinate is a byte in the  *)
(* program and goes to Byte - 1 here.                                      *)
(***************************************************************************)
EXTENDS Integers, FiniteSets, Sequences

CONSTANTS
  TileSize,     \* 8
  MapWidth,     \* tiles in a row of a map: 32
  Tiles,        \* tiles a number of a byte can name: 256
  SpritesOnLine,\* MAX_SPRITES_PER_SCANLINE: 10
  ScreenWidth, ScreenHeight,
  Scenes        \* registers and sprites looked at

VARIABLE scene

Byte == TileSize * MapWidth

Coordinates == 0..(Byte - 1)
LcdcFlags == {"lcd", "windowMap", "window", "unsigned", "bgMap", "tall", "obj", "bg"}

SpriteType ==
  [x : Coordinates, y : Coordinates, tile : 0..(Tiles - 1), bank : {0, 1}, palette : 0..7,
   behind : BOOLEAN, obp1 : BOOLEAN, xflip : BOOLEAN, yflip : BOOLEAN]

SceneType ==
  [cgb : BOOLEAN, lcdc : SUBSET LcdcFlags, scx : Coordinates, scy : Coordinates,
   wx : Coordinates, wy : Coordinates, sprites : Seq(SpriteType),
   bgp : [0..3 -> 0..3], obp0 : [0..3 -> 0..3], obp1 : [0..3 -> 0..3]]

ASSUME DrawingAssumption ==
  /\ {TileSize, MapWidth, Tiles, SpritesOnLine, ScreenWidth, ScreenHeight} \subseteq Nat \ {0}
  /\ Tiles % 2 = 0 /\ ScreenWidth < Byte /\ ScreenHeight < Byte
  /\ Scenes \subseteq SceneType

On(flag) == flag \in scene.lcdc

DrawInit == scene \in Scenes

-----------------------------------------------------------------------------
(* Contents of VRAM: no two tiles, rows or columns look alike. *)

Texel(bank, slot, row, col) == (slot * 3 + row * 5 + col * 7 + bank + ((slot * row + col) \div 2)) % 4

MapTile(map, i) == (i * 3 + map * 5 + (i \div 2)) % Tiles

MapAttrs(map, i) ==
  LET n == i + map
  IN [yflip |-> n % 2 = 1, xflip |-> n % 3 = 1, bank |-> IF n % 4 > 1 THEN 1 ELSE 0,
      priority |-> n % 5 = 1, palette |-> n % 2]

NoAttrs == [yflip |-> FALSE, xflip |-> FALSE, bank |-> 0, priority |-> FALSE, palette |-> 0]

\* tile_data_row_offset: numbers are signed and around the third block.
TileSlot(n) ==
  IF On("unsigned") THEN n ELSE IF n < Tiles \div 2 THEN Tiles + n ELSE n

-----------------------------------------------------------------------------
(* background_pixel *)

WindowVisible(x, y) ==
  /\ On("window")
  /\ y >= scene.wy
  /\ scene.wx <= ScreenWidth + TileSize - 2
  /\ x + TileSize - 1 >= scene.wx

MapSelected(flag) == IF On(flag) THEN 1 ELSE 0

WindowAt(x, y) == [map |-> MapSelected("windowMap"), x |-> x + TileSize - 1 - scene.wx, y |-> y - scene.wy]

ScrolledAt(x, y) ==
  [map |-> MapSelected("bgMap"), x |-> (x + scene.scx) % Byte, y |-> (y + scene.scy) % Byte]

Fetch(x, y) == IF WindowVisible(x, y) THEN WindowAt(x, y) ELSE ScrolledAt(x, y)

Flipped(flip, n, size) == IF flip THEN size - 1 - n ELSE n

BlankPixel == [id |-> 0, palette |-> 0, priority |-> FALSE]

BackgroundPixel(x, y) ==
  LET f     == Fetch(x, y)
      i     == (f.y \div TileSize) * MapWidth + f.x \div TileSize
      attrs == IF scene.cgb THEN MapAttrs(f.map, i) ELSE NoAttrs
      row   == Flipped(attrs.yflip, f.y % TileSize, TileSize)
      col   == Flipped(attrs.xflip, f.x % TileSize, TileSize)
  IN IF ~scene.cgb /\ ~On("bg") THEN BlankPixel
     ELSE [id |-> Texel(attrs.bank, TileSlot(MapTile(f.map, i)), row, col),
           palette |-> attrs.palette, priority |-> attrs.priority]

-----------------------------------------------------------------------------
(* sprite_pixel *)

SpriteHeight == IF On("tall") THEN 2 * TileSize ELSE TileSize

Top(s)  == s.y - 2 * TileSize
Left(s) == s.x - TileSize

OnLine(s, y) == y >= Top(s) /\ y < Top(s) + SpriteHeight

\* Mutant of Limit: one sprite more.
LimitPlusOne == SpritesOnLine + 1

Limit == SpritesOnLine

\* The numbers of the first sprites on the line, whether they show or not.
LineSprites(y) ==
  LET first[i \in 0..Len(scene.sprites)] ==
        IF i = 0 THEN <<>>
        ELSE IF OnLine(scene.sprites[i], y) /\ Len(first[i - 1]) < Limit THEN Append(first[i - 1], i)
        ELSE first[i - 1]
  IN first[Len(scene.sprites)]

SpriteTexel(s, x, y) ==
  LET row  == Flipped(s.yflip, y - Top(s), SpriteHeight)
      col  == Flipped(s.xflip, x - Left(s), TileSize)
      tile == IF On("tall") THEN (s.tile - (s.tile % 2)) + row \div TileSize ELSE s.tile
      bank == IF scene.cgb THEN s.bank ELSE 0
  IN Texel(bank, tile, row % TileSize, col)

Shows(i, x, y) ==
  LET s == scene.sprites[i]
  IN x >= Left(s) /\ x < Left(s) + TileSize /\ SpriteTexel(s, x, y) # 0

\* Mutant of Beats: the earlier sprite in any mode.
BeatsByNumber(i, best) == i < best

\* A later sprite takes over from the best so far.
Beats(i, best) ==
  LET a == scene.sprites[i].x
      b == scene.sprites[best].x
  IN IF scene.cgb THEN i < best ELSE a < b \/ (a = b /\ i < best)

\* The number of the sprite that shows; 0 if there is none.
Candidate(x, y) ==
  LET line == LineSprites(y)
      best[n \in 0..Len(line)] ==
        IF n = 0 THEN 0
        ELSE IF Shows(line[n], x, y) /\ (best[n - 1] = 0 \/ Beats(line[n], best[n - 1])) THEN line[n]
        ELSE best[n - 1]
  IN IF On("obj") THEN best[Len(line)] ELSE 0

\* The sprite hides behind the background if it has to.
SpriteAt(x, y, bgId) ==
  LET c == Candidate(x, y)
  IN IF c # 0 /\ scene.sprites[c].behind /\ On("bg") /\ bgId # 0 THEN 0 ELSE c

-----------------------------------------------------------------------------
(* The two frames.  A palette of the first machine is a function from      *)
(* color numbers to shades; colors of a Game Boy Color are named by        *)
(* palette and number.                                                     *)

\* composited_pixel_shade
Shade(x, y) ==
  LET bg == BackgroundPixel(x, y)
      s  == SpriteAt(x, y, bg.id)
      p  == IF scene.sprites[s].obp1 THEN scene.obp1 ELSE scene.obp0
  IN IF ~On("lcd") THEN 0
     ELSE IF s # 0 THEN p[SpriteTexel(scene.sprites[s], x, y)]
     ELSE IF ~scene.cgb /\ ~On("bg") THEN 0
     ELSE scene.bgp[bg.id]

\* dmg_shade_rgb555: colors of the shades are named by them.
DmgColor(shade) == <<"shade", shade>>

White == DmgColor(0)

\* background_pixel_rgb555
BackgroundColor(bg) ==
  IF scene.cgb THEN <<"bg", bg.palette, bg.id>>
  ELSE IF ~On("bg") THEN DmgColor(0)
  ELSE DmgColor(scene.bgp[bg.id])

\* sprite_pixel_rgb555
SpriteColor(s, id) ==
  IF scene.cgb THEN <<"obj", s.palette, id>>
  ELSE DmgColor((IF s.obp1 THEN scene.obp1 ELSE scene.obp0)[id])

\* composited_pixel_rgb555
Color(x, y) ==
  LET bg == BackgroundPixel(x, y)
      s  == SpriteAt(x, y, bg.id)
  IN IF ~On("lcd") THEN White
     ELSE IF s = 0 THEN BackgroundColor(bg)
     ELSE IF scene.cgb /\ On("bg") /\ bg.priority /\ bg.id # 0 THEN BackgroundColor(bg)
     ELSE SpriteColor(scene.sprites[s], SpriteTexel(scene.sprites[s], x, y))

-----------------------------------------------------------------------------
(* Writes to SCX, SCY and the attributes of a sprite. *)

WriteScx(v) == scene' = [scene EXCEPT !.scx = v]
WriteScy(v) == scene' = [scene EXCEPT !.scy = v]
FlipX == scene.sprites # <<>> /\ scene' = [scene EXCEPT !.sprites[1].xflip = ~@]
FlipY == scene.sprites # <<>> /\ scene' = [scene EXCEPT !.sprites[1].yflip = ~@]

DrawNext ==
  \/ scene.sprites = <<>> /\ WriteScx((scene.scx + 1) % Byte)
  \/ scene.sprites = <<>> /\ WriteScy((scene.scy + 1) % Byte)
  \/ FlipX \/ FlipY

DrawSpec == DrawInit /\ [][DrawNext]_scene

DrawTypeOK == scene \in SceneType

-----------------------------------------------------------------------------

Columns == 0..(ScreenWidth - 1)
Scanlines   == 0..(ScreenHeight - 1)

(***************************************************************************)
(* The sprite that shows at a pixel is, of those that have a color there   *)
(* and are among the first on the line by number, transparent or off the   *)
(* screen or not, the leftmost one and then the first one, or on a Game    *)
(* Boy Color the first one.                                                *)
(***************************************************************************)
SpritesAsOrdered ==
  \A x \in Columns, y \in Scanlines :
    LET all      == DOMAIN scene.sprites
        eligible == {i \in all : /\ OnLine(scene.sprites[i], y)
                                 /\ Cardinality({j \in all : j < i /\ OnLine(scene.sprites[j], y)}) < SpritesOnLine}
        showing  == {i \in eligible : Shows(i, x, y)}
        before(i, j) == IF scene.cgb \/ scene.sprites[i].x = scene.sprites[j].x THEN i < j
                        ELSE scene.sprites[i].x < scene.sprites[j].x
    IN On("obj") =>
         IF showing = {} THEN Candidate(x, y) = 0
         ELSE Candidate(x, y) \in showing /\ \A j \in showing \ {Candidate(x, y)} : before(Candidate(x, y), j)

(***************************************************************************)
(* Without the color mode both frames show the same: the color frame       *)
(* mirrors the shades (the comment on color_framebuffer), although the two *)
(* are computed apart.                                                     *)
(***************************************************************************)
FramesMirror ==
  ~scene.cgb => \A x \in Columns, y \in Scanlines : Color(x, y) = DmgColor(Shade(x, y))

(***************************************************************************)
(* Scrolling by one moves the picture by one, around the end of the map    *)
(* and through flipped tiles, and leaves the window where it is.           *)
(***************************************************************************)
ScrollMoves ==
  [][ scene' # scene => \A x \in Columns, y \in Scanlines :
        IF WindowVisible(x, y) THEN BackgroundPixel(x, y)' = BackgroundPixel(x, y)
        ELSE /\ (scene'.scx = (scene.scx + 1) % Byte /\ x + 1 \in Columns /\ ~WindowVisible(x + 1, y))
                  => BackgroundPixel(x, y)' = BackgroundPixel(x + 1, y)
             /\ (scene'.scy = (scene.scy + 1) % Byte /\ y + 1 \in Scanlines /\ ~WindowVisible(x, y + 1))
                  => BackgroundPixel(x, y)' = BackgroundPixel(x, y + 1) ]_scene

(***************************************************************************)
(* A flipped sprite is the mirror image of itself: in a tall one the two   *)
(* tiles change places too.                                                *)
(***************************************************************************)
FlipsMirror ==
  [][ scene' # scene => \A c \in 0..(TileSize - 1), r \in 0..(SpriteHeight - 1) :
        LET s == scene.sprites[1]
            t == scene'.sprites[1]
            at(sprite, col, row) == SpriteTexel(sprite, Left(s) + col, Top(s) + row)
        IN scene.sprites # <<>> =>
             /\ t.xflip # s.xflip => at(t, TileSize - 1 - c, r) = at(s, c, r)
             /\ t.yflip # s.yflip => at(t, c, SpriteHeight - 1 - r) = at(s, c, r) ]_scene

(***************************************************************************)
(* Pictures are the ones the scene describes: sprites in their order,      *)
(* scrolling moves and flipping mirrors what is shown, and the two outputs *)
(* of a pixel agree without colors.                                        *)
(***************************************************************************)
PicturesAreRight == [](DrawTypeOK /\ SpritesAsOrdered /\ FramesMirror) /\ ScrollMoves /\ FlipsMirror
=============================================================================
