\* Does a host label find the lines of that host?
SPECIFICATION Spec
CONSTANTS
  sep = sep
  d24 = d24
  hms = hms
  gw = gw
  router = router
  err = err
  x = x
  fSep = fSep
  f24 = f24
  f16 = f16
  fGw = fGw
  fRouter = fRouter
  fErr = fErr
  fErrUpper = fErrUpper
  fX = fX
  Words = {sep, d24, hms, gw, router, err, x}
  Fields = {fSep, f24, f16, fGw, fRouter, fErr, fErrUpper, fX}
  LengthOf <- MCLengthOf
  FieldsOf <- MCFieldsOf
  SizeOf <- MCSizeOf
  LowerOf <- MCLowerOf
  Lines <- MCLines
  Queries <- MCQueries
  NoPri = NoPri
  BadPri = BadPri
  NoTerm = NoTerm
  Unknown = Unknown
INVARIANT HostLabelFindable
CHECK_DEADLOCK FALSE
