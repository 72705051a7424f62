--------------------------- MODULE ScrapeStudios ---------------------------
(* The catalogue's functions of the sites of single makers. *)
EXTENDS ScrapeSteps, Sequences

(* DahliaMovie whose fallback for the date tests the title.                *)
DahliaMovieWrongField == <<Given("ID", "url"), Given("Number", "url"), Given("Details", "name"), Visit("works", "assign", <<
  On("bar02_works", <<Set("Title", "")>>),
  Else("bar02", <<Default("Title", "")>>),
  On("works01_img", <<SetURL("Cover", "src")>>),
  On("works01_img a", <<SetURL("Video", "href")>>),
  On("works01_ga", <<AddURL("Previews", "href")>>),
  On("works01_text", <<Default("Summary", "")>>),
  On("row actors", <<Text("Actors", "p")>>),
  On("row", <<Set("Details", "")>>),
  On("row start", <<Set("Date", "p")>>),
  On("row release", <<Default("Date", "p")>>),
  Else("view_timer", <<Unless("Title", <<Default("Date", "")>>)>>)>>)>>

(* dahlia/core, which FALENO shares *)
DahliaMovie == <<Given("ID", "url"), Given("Number", "url"), Given("Details", "name"), Visit("works", "assign", <<
  On("bar02_works", <<Set("Title", "")>>),
  Else("bar02", <<Default("Title", "")>>),
  On("works01_img", <<SetURL("Cover", "src")>>),
  On("works01_img a", <<SetURL("Video", "href")>>),
  On("works01_ga", <<AddURL("Previews", "href")>>),
  On("works01_text", <<Default("Summary", "")>>),
  On("row actors", <<Text("Actors", "p")>>),
  On("row", <<Set("Details", "")>>),
  On("row start", <<Set("Date", "p")>>),
  On("row release", <<Default("Date", "p")>>),
  Else("view_timer", <<Default("Date", "")>>)>>)>>

DahliaSearch == <<VisitAny("search", "assign", <<
  On("kanren01", <<NeedText("release"), AddURL("Results", "href")>>)>>)>>

(* heyzo.go *)
HeyzoReviews == <<Visit("movie", "keep", <<
  On("reviews_get", <<Parsed("object", <<Require("movie_seq", <<
    Visit("reviews", "keep", <<Decode("reviews json", <<On("comment", <<AddText("Reviews", "")>>)>>)>>)
  >>)>>)>>)>>)>>

HeyzoMovie == <<Given("ID", "url"), Given("Number", "url"), Given("Details", "name"), Visit("movie", "assign", <<
  On("ld+json", <<Set("Title", "name"), Set("Summary", "description"), SetURL("Cover", "image"), Copy("Thumb", "Cover"),
                  Set("Date", "startDate"), Text("Details", "provider"), Text("Actors", "actor")>>),
  On("h1", <<Unless("Title", <<NeedText(""), Set("Title", "")>>)>>),
  On("memo", <<Default("Summary", "")>>),
  Else("og:image", <<Unless("Cover", <<SetURL("Cover", "content"), Copy("Thumb", "Cover")>>)>>),
  On("row date", <<Set("Date", "")>>),
  On("row actors", <<Set("Actors", "")>>),
  On("row", <<Set("Details", "")>>),
  On("tag-keyword-list", <<Set("Genres", "")>>),
  On("emvideo", <<SetURL("Video", "")>>),
  On("playerContainer", <<Visit("m3u8", "ignore", <<On("sample", <<Set("Video", "")>>), Given("HLS", "url")>>)>>),
  On("sample-images", <<AddURL("Previews", "")>>)>>)>>

(* tokyo-hot.go *)
TokyoHotMovie == <<Given("ID", "url"), Given("Details", "name"), Visit("product", "assign", <<
  On("h2", <<Set("Title", "")>>),
  On("sentence", <<Set("Summary", "")>>),
  On("package jacket", <<Default("Cover", "href")>>),
  On("package vb", <<Default("Thumb", "href")>>),
  Else("flowplayer video", <<Default("Cover", "poster")>>),
  On("flowplayer source", <<Text("Video", "src")>>),
  On("cap", <<AddText("Previews", "href")>>),
  On("row actors", <<AddText("Actors", "")>>),
  On("row genres", <<Add("Genres", "")>>),
  On("row date", <<Set("Date", "")>>),
  On("row number", <<Set("Number", "")>>),
  On("row", <<Set("Details", "")>>),
  CopyDefault("Thumb", "Cover"),
  CopyDefault("Cover", "Thumb")>>)>>

TokyoHotSearch == <<Visit("search", "assign", <<On("product", <<AddURL("Results", "href")>>)>>)>>

(* 1pondo/core, which 10musume, pacopacomama and muramura share *)
OnePondoReviews == <<Visit("reviews", "keep", <<
  Decode("reviews json", <<On("row", <<AddText("Reviews", "")>>)>>)>>)>>

OnePondoMovie == <<Given("Details", "name"), Visit("detail", "keep", <<Decode("detail json", <<
  Set("ID", "MovieID"), Copy("Number", "ID"), Set("Title", "Title"), Set("Summary", "Desc"),
  Set("Date", "Release"), Text("Genres", "UCNAME"), Text("Video", "SampleFiles"), AddText("Actors", "ActressesJa"),
  Default("Cover", "ThumbUltra"), Default("Cover", "ThumbHigh"), Default("Cover", "ThumbMed"), Default("Cover", "ThumbLow"),
  Copy("Thumb", "Cover"), Text("Thumb", "MovieThumb"),
  IfText("Gallery", <<Given("Gallery", "Gallery"),
    Visit("gallery", "ignore", <<On("gallery row", <<AddURL("Previews", "Img")>>)>>)>>),
  Unless("Gallery", <<IfText("HasGallery", <<
    Visit("legacy gallery", "ignore", <<On("legacy row", <<AddURL("Previews", "Filename")>>)>>)>>)>>)>>)>>)>>

(* heydouga.go: score and genres are fetched by two goroutines *)
HeyDougaMovie == <<When("digits in url", <<Set("ID", "")>>), Given("Number", "url"), Visit("movie", "assign", <<
  On("title-bg", <<Set("Title", "")>>),
  On("summary", <<Set("Summary", "")>>),
  On("player_poster", <<SetURL("Cover", ""), Copy("Thumb", "Cover")>>),
  On("row date", <<Set("Date", "")>>),
  On("row actors", <<Set("Actors", "")>>),
  On("row maker", <<Set("Details", "a"), Default("Details", "span")>>),
  On("fancybox", <<AddText("Previews", "href")>>),
  On("m3 source", <<SetURL("HLS", "")>>),
  Go(<<When("rating url", <<Visit("rating", "ignore", <<On("rating json", <<Set("Score", "average")>>)>>)>>)>>),
  Go(<<When("movie_seq", <<Visit("tags", "ignore", <<On("tag", <<Add("Genres", "")>>)>>)>>)>>),
  Wait>>)>>

(* caribbeancom/core, which caribbeancompr shares: the reviews of the two *)
(* layouts are not mixed *)
CaribbeancomReviews == <<Visit("movie", "assign", <<
  On("dense section", <<AddText("Reviews", ""), If("Reviews", <<Given("Caribbeancom", "reviews")>>)>>),
  On("section", <<Unless("Caribbeancom", <<AddText("Reviews", "")>>)>>)>>)>>

CaribbeancomMovie == <<Given("ID", "url"), Given("Number", "url"), Given("Details", "name"), Visit("movie", "assign", <<
  On("h1 name", <<Set("Title", "")>>),
  On("description", <<Set("Summary", "")>>),
  Else("moviepages", <<Default("Title", "h1"), Default("Summary", "p")>>),
  On("row actors", <<AddText("Actors", "")>>),
  On("row date", <<Set("Date", "")>>),
  On("row", <<Set("Details", "")>>),
  On("emimg", <<SetURL("Thumb", ""), Copy("Cover", "Thumb")>>),
  On("posterImage", <<SetURL("Thumb", ""), Copy("Cover", "Thumb")>>),
  On("Movie", <<IfText("flash", <<Set("Video", "flash")>>)>>),
  On("gallery", <<AddURL("Previews", "href")>>),
  Unless("Date", <<When("date in id", <<Set("Date", "")>>)>>)>>)>>

(* sod.go: the page behind the question of age takes the place of the first *)
SODMovie == <<Given("ID", "url"), Given("Number", "url"), Visit("video", "assign", <<
  When("pkg_age", <<Given("Age", "asked"), Visit("ontime", "ignore", <<Clear("Age")>>)>>),
  Unless("Age", <<
    On("row number", <<Set("Number", "")>>),
    On("row date", <<Set("Date", "")>>),
    On("row actors", <<AddText("Actors", "")>>),
    On("row", <<Set("Details", "")>>),
    On("product_title", <<Set("Title", "")>>),
    On("article", <<Set("Summary", "")>>),
    On("sampb", <<Visit("sample", "ignore", <<On("source", <<SetURL("Video", "src")>>)>>)>>),
    On("toptable", <<Set("Cover", "href"), Set("Thumb", "src")>>),
    On("samsbox", <<AddURL("Previews", "href")>>),
    On("imagestar", <<Set("Score", "")>>)>>)>>),
  IfOK(<<If("Cover", <<When("placeholder cover", <<Fail>>)>>)>>)>>

SODSearch == <<Visit("search", "assign", <<
  When("pkg_age", <<Given("Age", "asked"), Visit("ontime", "ignore", <<Clear("Age")>>)>>),
  Unless("Age", <<On("mainbox", <<IfText("image", <<AddURL("Results", "href")>>)>>)>>)>>)>>

(* kin8tengoku.go: the score is the mean of the ratings, of none too *)
KIN8Movie == <<Given("ID", "url"), Given("Number", "url"), Given("Details", "name"), Visit("movie", "assign", <<
  On("sub_title", <<Set("Title", "")>>),
  Else("keywords", <<Default("Title", "content")>>),
  On("comment", <<Set("Summary", "")>>),
  On("row actors", <<AddText("Actors", "")>>),
  On("row date", <<Set("Date", "")>>),
  On("row", <<Set("Details", "")>>),
  On("movie script", <<Unless("Cover", <<Text("Cover", "imgurl"), Copy("Thumb", "Cover"), Text("Video", "videourl")>>)>>),
  On("gallery", <<AddText("Previews", "href")>>),
  On("review_list", <<Visit("reviews", "ignore", <<On("reviews jsonp", <<Mean("Score", "ratings")>>)>>)>>)>>)>>

(* h0930/core, which c0930 and h4610 share *)
H0930Movie == <<Given("ID", "url"), Given("Number", "url"), Given("Details", "name"), Visit("movie", "assign", <<
  On("ld+json", <<Set("Title", "name"), Set("Summary", "description"), IfText("image", <<Set("Cover", "image"), Copy("Thumb", "Cover")>>),
                  Set("Date", "startDate"), Text("Details", "provider"), Text("Actors", "actor")>>),
  On("moviePlay_title", <<Text("Title", "")>>),
  On("row date", <<Default("Date", "")>>),
  On("row genres", <<AddText("Genres", "")>>),
  On("movieContent", <<IfText("poster", <<Set("Cover", "poster"), Copy("Thumb", "Cover")>>), Text("Video", "src")>>),
  On("movieGallery", <<Add("Previews", "href")>>)>>)>>

(* getchu.go *)
GetchuMovie == <<Given("ID", "url"), Given("Number", "url"), Visit("item", "assign", <<
  On("td title", <<Set("Title", "")>>),
  On("td white", <<SetURL("Cover", "src")>>),
  On("td dark", <<AddURL("Previews", "href")>>),
  On("row date", <<Set("Date", "")>>),
  On("row summary", <<Set("Summary", "")>>),
  On("row", <<Set("Details", "")>>),
  Else("og:title", <<Default("Title", "content")>>),
  Else("og:image", <<DefaultURL("Cover", "content")>>),
  CopyDefault("Thumb", "Cover")>>)>>

(* MyWifeMovie that visits in the background and does not wait.            *)
MyWifeMovieAsync == <<Given("ID", "url"), Given("Number", "url"), Given("Details", "name"), Go(<<Visit("movie", "assign", <<
  On("title", <<Set("Title", "")>>),
  On("text_overflow", <<Set("Summary", "")>>),
  On("video", <<Text("Video", "src"), Text("Cover", "poster")>>),
  On("photowaku", <<AddText("Previews", "src")>>),
  If("Cover", <<Visit("thumb", "ignore", <<Given("Thumb", "thumb"), Copy("BigThumb", "Thumb")>>)>>)>>)>>)>>

(* mywife.go: the thumb is taken if a HEAD request finds it *)
MyWifeMovie == <<Given("ID", "url"), Given("Number", "url"), Given("Details", "name"), Visit("movie", "assign", <<
  On("title", <<Set("Title", "")>>),
  On("text_overflow", <<Set("Summary", "")>>),
  On("video", <<Text("Video", "src"), Text("Cover", "poster")>>),
  On("photowaku", <<AddText("Previews", "src")>>),
  If("Cover", <<Visit("thumb", "ignore", <<Given("Thumb", "thumb"), Copy("BigThumb", "Thumb")>>)>>)>>)>>
=============================================================================
