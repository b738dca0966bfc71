SPECIFICATION MCSpec
CONSTANTS
  card = card
  target = target
  go = go
  canvas = canvas
  aside = aside
  bar = bar
  field = field
  game = game
  dialog = dialog
  here = here
  there = there
  k1 = k1
  k2 = k2
  None = None
  Hovers = {card, target}
  Handles = {card}
  Drops = {target}
  Buttons = {go, aside}
  Inputs = {field}
  Bars = {bar}
  Cameras = {canvas}
  Keyed = {game, dialog}
  Autofocus = {field}
  InCamera <- GoInside
  Paint <- InPaintOrder
  Spots = {here, there}
  Keys = {k1, k2}
  Layouts <- AllLayouts
  MaxHeld = 2
  Captures = FALSE
  Parts = {"cards", "canvases", "games", "wheels", "thumbs", "floor", "clock", "walk", "marbles", "filmed"}
INVARIANTS Types PointerIsTrue KeysAreTrue WorldsAreTrue
PROPERTIES GestureSteps ScrollSteps WorldSteps
