SPECIFICATION Spec
CONSTANTS
  p1 = p1  p2 = p2
  d1 = d1  d2 = d2  d3 = d3
  s1 = s1  s2 = s2  s3 = s3
  Provinces = {p1, p2}
  Districts = {d1, d2, d3}
  Subdistricts = {s1, s2, s3}
  provinceOf <- MCProvinceOf
  amphurOf <- MCAmphurOf
  zipcodeOf <- MCZipcodeOf
  nameTh <- MCNameTh
  NULL = NULL
  NotFound = NotFound
  User = alice
  MaxLength = 1
  MaxTyped = 2
  MaxTaps = 2
INVARIANTS
  TypeOK PickerChain PickerItemValid ButtonFollowsForm
  FormFollowsPicker HomesComplete PostalCodeMatches
PROPERTIES
  ChoosesPlaces
CHECK_DEADLOCK FALSE
